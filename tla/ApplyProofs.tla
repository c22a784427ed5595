----------------------------- MODULE ApplyProofs -----------------------------
(***************************************************************************)
(* A synchronisation, executed step by step, is for its user the one step  *)
(* that TreeCache takes for it; so the calls implement TreeCache.  And     *)
(* each step of a call leaves less of it to do.                            *)
(***************************************************************************)
EXTENDS AtomicProofs

-----------------------------------------------------------------------------
(***************************************************************************)
(* The walk of apply: the order in which it visits the forest.             *)
(***************************************************************************)
LEMMA PathContains ==
    ASSUME NEW up, NEW x \in DOMAIN up
    PROVE  x \in Path(up, x)
BY DEF Path

LEMMA PathClosed ==
    ASSUME NEW up, NEW x, NEW y \in Path(up, x), up[y] \in DOMAIN up
    PROVE  up[y] \in Path(up, x)
BY DEF Path

LEMMA PathLeast ==
    ASSUME NEW up, NEW x, NEW C \in SUBSET DOMAIN up, x \in C,
           \A y \in C : up[y] \in DOMAIN up => up[y] \in C
    PROVE  Path(up, x) \subseteq C
BY DEF Path

LEMMA PathOfRoot ==
    ASSUME NEW up, NEW x \in DOMAIN up, up[x] \notin DOMAIN up
    PROVE  Path(up, x) = {x}
<1>1. PICK C : C = {x}
  OBVIOUS
<1>2. Path(up, x) \subseteq C
  BY <1>1, PathLeast
<1> QED BY <1>1, <1>2, PathContains

LEMMA PathOfChild ==
    ASSUME NEW up, NEW x \in DOMAIN up, up[x] \in DOMAIN up
    PROVE  Path(up, x) \subseteq {x} \cup Path(up, up[x])
<1>1. PICK C : C = {x} \cup Path(up, up[x])
  OBVIOUS
<1>2. C \in SUBSET DOMAIN up
  BY <1>1 DEF Path
<1>3. \A y \in C : up[y] \in DOMAIN up => up[y] \in C
  BY <1>1, PathContains, PathClosed
<1> QED BY <1>1, <1>2, <1>3, PathLeast

\* What WalkOrder says, of sets instead of vectors.
WalkSets(up, visited, left) ==
    /\ NoNode \notin DOMAIN up /\ visited \in SUBSET DOMAIN up
    /\ \A v \in visited : up[v] \in visited \cup {NoNode}
    /\ left \subseteq DOMAIN up \ visited
    /\ \A a \in left : up[a] \in visited \cup {NoNode}
    /\ \A v \in visited, a \in left : Precedes(up, v, a)
    /\ \A a \in visited \cup left :
          /\ Path(up, a) \subseteq visited \cup {a}
          /\ \A x, y \in Path(up, a) : up[x] = up[y] => x = y
    /\ \A c \in DOMAIN up : up[c] \in visited \cup {NoNode} => c \in visited \cup left

LEMMA SetsOfWalk ==
    ASSUME NEW up, NEW visited \in SUBSET DOMAIN up, NEW stack, NoNode \notin DOMAIN up
    PROVE  WalkOrder(up, visited, stack) <=>
               WalkSets(up, visited, Elements(stack)) /\ InOrder(up, stack)
BY DEF WalkOrder, WalkSets, Elements

\* The first node of the stack is visited: its children come after it, and
\* before what is left.
Visits(up, visited, x, rest, kids) ==
    /\ WalkSets(up, visited, {x} \cup rest)
    /\ \A e \in rest : Precedes(up, x, e) /\ e # x
    /\ kids = {c \in DOMAIN up : up[c] = x}

ChildrenApart(up, visited, x, rest, kids) ==
    /\ x \in DOMAIN up /\ x \notin visited
    /\ \A k \in kids : /\ k \in DOMAIN up /\ up[k] = x
                       /\ k \notin visited /\ k # x /\ k \notin rest
                       /\ Path(up, k) \subseteq {k} \cup Path(up, x)
                       /\ k \notin Path(up, x)
    /\ \A v \in visited \cup {x} : up[v] # x
    /\ \A e \in rest : up[e] # x
    /\ Path(up, x) \subseteq visited \cup {x}

LEMMA ChildrenComeAfter ==
    ASSUME NEW up, NEW visited, NEW x, NEW rest, NEW kids, Visits(up, visited, x, rest, kids)
    PROVE  ChildrenApart(up, visited, x, rest, kids)
<1> USE DEF Visits
<1>1. x \in DOMAIN up /\ x \notin visited /\ x # NoNode /\ Path(up, x) \subseteq visited \cup {x}
  BY DEF WalkSets
<1>2. (\A v \in visited \cup {x} : up[v] # x) /\ \A e \in rest : up[e] # x
  BY <1>1 DEF WalkSets
<1>3. ASSUME NEW k \in kids
      PROVE  /\ k \notin visited /\ k # x /\ k \notin rest
             /\ Path(up, k) \subseteq {k} \cup Path(up, x)
             /\ k \notin Path(up, x)
  <2>1. k \in DOMAIN up /\ up[k] = x
    OBVIOUS
  <2>2. k \notin visited /\ k # x /\ k \notin rest
    BY <1>2, <2>1
  <2>3. Path(up, k) \subseteq {k} \cup Path(up, x)
    BY <1>1, <2>1, PathOfChild
  <2> QED BY <1>1, <2>2, <2>3
<1> QED BY <1>1, <1>2, <1>3 DEF ChildrenApart

LEMMA VisitedPrecede ==
    ASSUME NEW up, NEW visited, NEW x, NEW rest, NEW kids, Visits(up, visited, x, rest, kids),
           DOMAIN up \subseteq Nat
    PROVE  /\ \A v \in visited \cup {x}, e \in kids \cup rest : Precedes(up, v, e)
           /\ \A k \in kids, e \in rest : Precedes(up, k, e)
           /\ \A k, l \in kids : k < l => Precedes(up, k, l)
<1>0. ChildrenApart(up, visited, x, rest, kids)
  BY ChildrenComeAfter
<1> USE DEF Visits
<1>1. /\ x \in DOMAIN up /\ x \notin visited
      /\ \A k \in kids : /\ k \notin visited /\ k # x /\ k \notin rest
                         /\ Path(up, k) \subseteq {k} \cup Path(up, x)
                         /\ k \notin Path(up, x) /\ k \in DOMAIN up /\ up[k] = x
      /\ \A v \in visited \cup {x} : up[v] # x
      /\ \A e \in rest : up[e] # x
      /\ Path(up, x) \subseteq visited \cup {x}
  BY <1>0 DEF ChildrenApart
<1>2. /\ \A v \in visited : Path(up, v) \subseteq visited /\ Precedes(up, v, x)
      /\ \A e \in rest : Path(up, e) \subseteq visited \cup {e}
      /\ \A v \in visited, e \in rest : Precedes(up, v, e)
      /\ \A p, q \in Path(up, x) : up[p] = up[q] => p = q
      /\ \A p \in Path(up, x) : p \in Nat
  BY DEF WalkSets, Path
<1>3. ASSUME NEW v \in visited, NEW k \in kids
      PROVE  Precedes(up, v, k)
  <2>1. k \notin Path(up, v)
    BY <1>1, <1>2
  <2>2. ASSUME NEW p \in Path(up, v), NEW q \in Path(up, k), up[p] = up[q]
        PROVE  p <= q
    <3>1. q # k
      BY <1>1, <1>2, <2>2
    <3>2. q \in Path(up, x)
      BY <1>1, <3>1
    <3> QED BY <1>2, <2>2, <3>2 DEF Precedes
  <2> QED BY <2>1, <2>2 DEF Precedes
<1>4. ASSUME NEW k \in kids
      PROVE  Precedes(up, x, k)
  <2>1. ASSUME NEW p \in Path(up, x), NEW q \in Path(up, k), up[p] = up[q]
        PROVE  p <= q
    <3>1. q # k
      BY <1>1, <2>1
    <3>2. q \in Path(up, x)
      BY <1>1, <3>1
    <3>3. p = q /\ p \in Nat
      BY <1>2, <2>1, <3>2
    <3> QED BY <3>3
  <2> QED BY <1>1, <2>1 DEF Precedes
<1>5. ASSUME NEW k \in kids, NEW e \in rest
      PROVE  Precedes(up, k, e)
  <2>1. e \notin Path(up, k)
    BY <1>1 DEF Precedes
  <2>2. ASSUME NEW p \in Path(up, k), NEW q \in Path(up, e), up[p] = up[q]
        PROVE  p <= q
    <3>1. up[q] # x
      BY <1>1, <1>2
    <3>2. p \in Path(up, x)
      BY <1>1, <2>2, <3>1
    <3> QED BY <2>2, <3>2 DEF Precedes
  <2> QED BY <2>1, <2>2 DEF Precedes
<1>6. ASSUME NEW k \in kids, NEW l \in kids, k < l
      PROVE  Precedes(up, k, l)
  <2>1. k \in Nat /\ l \in Nat
    OBVIOUS
  <2>2. l \notin Path(up, k)
    BY <1>1, <1>6, <2>1
  <2>3. ASSUME NEW p \in Path(up, k), NEW q \in Path(up, l), up[p] = up[q]
        PROVE  p <= q
    <3>1. CASE p = k
      <4>1. q = l
        BY <1>1, <2>3, <3>1
      <4> QED BY <1>6, <2>1, <3>1, <4>1
    <3>2. CASE p # k
      <4>1. p \in Path(up, x)
        BY <1>1, <3>2
      <4>2. q \in Path(up, x)
        BY <1>1, <2>3, <4>1
      <4>3. p = q /\ p \in Nat
        BY <1>2, <2>3, <4>1, <4>2
      <4> QED BY <4>3
    <3> QED BY <3>1, <3>2
  <2> QED BY <2>2, <2>3 DEF Precedes
<1> QED BY <1>2, <1>3, <1>4, <1>5, <1>6

LEMMA WalkSetsStep ==
    ASSUME NEW up, NEW visited, NEW x, NEW rest, NEW kids, Visits(up, visited, x, rest, kids),
           DOMAIN up \subseteq Nat
    PROVE  WalkSets(up, visited \cup {x}, kids \cup rest)
<1>0. ChildrenApart(up, visited, x, rest, kids)
  BY ChildrenComeAfter
<1>1. /\ x \in DOMAIN up /\ x \notin visited
      /\ \A k \in kids : /\ k \notin visited /\ k # x /\ k \notin rest
                         /\ Path(up, k) \subseteq {k} \cup Path(up, x)
                         /\ k \notin Path(up, x) /\ k \in DOMAIN up /\ up[k] = x
      /\ \A v \in visited \cup {x} : up[v] # x
      /\ \A e \in rest : up[e] # x
      /\ Path(up, x) \subseteq visited \cup {x}
  BY <1>0 DEF ChildrenApart
<1>2. \A v \in visited \cup {x}, e \in kids \cup rest : Precedes(up, v, e)
  BY VisitedPrecede
<1>3. WalkSets(up, visited, {x} \cup rest) /\ kids = {c \in DOMAIN up : up[c] = x}
      /\ \A e \in rest : e # x
  BY DEF Visits
<1>4. ASSUME NEW k \in kids
      PROVE  /\ Path(up, k) \subseteq visited \cup {x} \cup {k}
             /\ \A p, q \in Path(up, k) : up[p] = up[q] => p = q
  <2>1. \A p, q \in Path(up, x) : up[p] = up[q] => p = q
    BY <1>3 DEF WalkSets
  <2>2. \A p \in Path(up, x) : up[p] # x
    BY <1>1
  <2> QED BY <1>1, <2>1, <2>2
<1>5. \A a \in visited \cup {x} \cup rest :
          /\ Path(up, a) \subseteq visited \cup {x} \cup {a}
          /\ \A p, q \in Path(up, a) : up[p] = up[q] => p = q
  BY <1>3 DEF WalkSets
<1>6. \A c \in DOMAIN up : up[c] \in visited \cup {x} \cup {NoNode} =>
          c \in visited \cup {x} \cup kids \cup rest
  BY <1>3 DEF WalkSets
<1>7. /\ NoNode \notin DOMAIN up /\ visited \cup {x} \in SUBSET DOMAIN up
      /\ \A v \in visited \cup {x} : up[v] \in visited \cup {x} \cup {NoNode}
      /\ kids \cup rest \subseteq DOMAIN up \ (visited \cup {x})
      /\ \A a \in kids \cup rest : up[a] \in visited \cup {x} \cup {NoNode}
  BY <1>1, <1>3 DEF WalkSets
<1> QED BY <1>2, <1>4, <1>5, <1>6, <1>7 DEF WalkSets
\* The vectors of a walk.
Walks(up, visited, stack, x, rest, kids, below) ==
    /\ NoNode \notin DOMAIN up /\ DOMAIN up \subseteq Nat /\ visited \in SUBSET DOMAIN up
    /\ stack \in Seq(Nat) /\ stack # << >> /\ WalkOrder(up, visited, stack)
    /\ x = Head(stack) /\ rest = Tail(stack)
    /\ kids \in Seq(Nat) /\ Rising(kids)
    /\ Elements(kids) = {c \in DOMAIN up : up[c] = x}
    /\ below = kids \o rest

LEMMA StackInOrder ==
    ASSUME NEW up, NEW stack \in Seq(Nat), stack # << >>, InOrder(up, stack), NEW rest,
           rest = Tail(stack), \A a \in Elements(stack) : a \in DOMAIN up
    PROVE  /\ \A e \in Elements(rest) : Precedes(up, Head(stack), e) /\ e # Head(stack)
           /\ InOrder(up, rest)
<1>1. /\ rest \in Seq(Nat) /\ Head(stack) = stack[1] /\ 1 \in DOMAIN stack
      /\ \A i \in DOMAIN rest : i \in Nat /\ i + 1 \in DOMAIN stack /\ rest[i] = stack[i + 1]
      /\ \A i \in DOMAIN rest : 1 < i + 1
  OBVIOUS
<1>2. ASSUME NEW i \in DOMAIN rest
      PROVE  Precedes(up, stack[1], rest[i]) /\ rest[i] # stack[1]
  <2>1. PICK k : k = i + 1
    OBVIOUS
  <2>2. k \in DOMAIN stack /\ rest[i] = stack[k] /\ 1 < k
    BY <1>1, <2>1
  <2>3. Precedes(up, stack[1], rest[i])
    BY <1>1, <2>2 DEF InOrder
  <2>4. stack[1] \in Path(up, stack[1])
    BY <1>1, PathContains DEF Elements
  <2> QED BY <2>3, <2>4 DEF Precedes
<1>3. ASSUME NEW i \in DOMAIN rest, NEW j \in DOMAIN rest, i < j
      PROVE  Precedes(up, rest[i], rest[j])
  <2>1. PICK k, l : k = i + 1 /\ l = j + 1
    OBVIOUS
  <2>2. k \in DOMAIN stack /\ rest[i] = stack[k] /\ l \in DOMAIN stack /\ rest[j] = stack[l] /\ k < l
    BY <1>1, <1>3, <2>1
  <2> QED BY <2>2 DEF InOrder
<1> QED BY <1>1, <1>2, <1>3 DEF InOrder, Elements

LEMMA BelowInOrder ==
    ASSUME NEW up, NEW kids \in Seq(Nat), NEW rest \in Seq(Nat), Rising(kids),
           InOrder(up, rest),
           \A k \in Elements(kids), e \in Elements(rest) : Precedes(up, k, e),
           \A k, l \in Elements(kids) : k < l => Precedes(up, k, l),
           NEW below, below = kids \o rest
    PROVE  InOrder(up, below)
<1>1. /\ Len(kids) \in Nat /\ Len(rest) \in Nat
      /\ DOMAIN kids = 1..Len(kids) /\ DOMAIN rest = 1..Len(rest)
      /\ DOMAIN below = 1..(Len(kids) + Len(rest))
      /\ \A i \in 1..(Len(kids) + Len(rest)) :
            below[i] = IF i <= Len(kids) THEN kids[i] ELSE rest[i - Len(kids)]
  BY ConcatProperties
<1>2. ASSUME NEW i \in DOMAIN below, NEW j \in DOMAIN below, i < j
      PROVE  Precedes(up, below[i], below[j])
  <2>1. i \in Int /\ j \in Int
    BY <1>1
  <2>2. CASE j <= Len(kids)
    <3>1. i \in DOMAIN kids /\ j \in DOMAIN kids /\ below[i] = kids[i] /\ below[j] = kids[j]
      BY <1>1, <1>2, <2>2
    <3> QED BY <1>2, <3>1 DEF Rising, Elements
  <2>3. CASE ~(i <= Len(kids))
    <3>1. PICK k, l : k = i - Len(kids) /\ l = j - Len(kids)
      OBVIOUS
    <3>2. k \in DOMAIN rest /\ l \in DOMAIN rest /\ k < l
      BY <1>1, <1>2, <2>1, <2>3, <3>1
    <3>3. ~(j <= Len(kids))
      BY <1>1, <1>2, <2>1, <2>3
    <3>4. below[i] = rest[k] /\ below[j] = rest[l]
      BY <1>1, <2>1, <2>3, <3>1, <3>3
    <3> QED BY <3>2, <3>4 DEF InOrder
  <2>4. CASE i <= Len(kids) /\ ~(j <= Len(kids))
    <3>1. PICK l : l = j - Len(kids)
      OBVIOUS
    <3>2. i \in DOMAIN kids /\ l \in DOMAIN rest /\ below[i] = kids[i] /\ below[j] = rest[l]
      BY <1>1, <2>1, <2>4, <3>1
    <3> QED BY <3>2 DEF Elements
  <2> QED BY <2>2, <2>3, <2>4
<1> QED BY <1>2 DEF InOrder

LEMMA WalkOrderStep ==
    ASSUME NEW up, NEW visited, NEW stack, NEW x, NEW rest, NEW kids, NEW below,
           Walks(up, visited, stack, x, rest, kids, below)
    PROVE  /\ WalkOrder(up, visited \cup {x}, below)
           /\ x \in DOMAIN up /\ x \notin visited
           /\ \A v \in visited : Precedes(up, v, x)
<1>1. /\ NoNode \notin DOMAIN up /\ DOMAIN up \subseteq Nat /\ visited \in SUBSET DOMAIN up
      /\ stack \in Seq(Nat) /\ stack # << >> /\ WalkOrder(up, visited, stack)
      /\ x = Head(stack) /\ rest = Tail(stack)
      /\ kids \in Seq(Nat) /\ Rising(kids) /\ below = kids \o rest
  BY DEF Walks
<1>2. PICK R : R = Elements(rest)
  OBVIOUS
<1>3. PICK K : K = Elements(kids)
  OBVIOUS
<1>4. K = {c \in DOMAIN up : up[c] = x}
  BY <1>3 DEF Walks
<1>5. Elements(stack) = {x} \cup R /\ rest \in Seq(Nat)
  BY <1>1, <1>2, ElementsOfStack
<1>6. WalkSets(up, visited, {x} \cup R) /\ InOrder(up, stack)
  BY <1>1, <1>5, SetsOfWalk
<1>7. x \in DOMAIN up /\ x \notin visited /\ (\A v \in visited : Precedes(up, v, x))
      /\ \A a \in Elements(stack) : a \in DOMAIN up
  BY <1>5, <1>6 DEF WalkSets
<1>8. (\A e \in R : Precedes(up, x, e) /\ e # x) /\ InOrder(up, rest)
  BY <1>1, <1>2, <1>6, <1>7, StackInOrder
<1>9. Visits(up, visited, x, R, K)
  BY <1>4, <1>6, <1>8 DEF Visits
<1>10. WalkSets(up, visited \cup {x}, K \cup R)
  BY <1>1, <1>9, WalkSetsStep
<1>11. /\ \A k \in K, e \in R : Precedes(up, k, e)
       /\ \A k, l \in K : k < l => Precedes(up, k, l)
  BY <1>1, <1>9, VisitedPrecede
<1>12. InOrder(up, below)
  <2>1. /\ \A k \in Elements(kids), e \in Elements(rest) : Precedes(up, k, e)
        /\ \A k, l \in Elements(kids) : k < l => Precedes(up, k, l)
    BY <1>2, <1>3, <1>11
  <2>2. kids \in Seq(Nat) /\ rest \in Seq(Nat) /\ Rising(kids) /\ InOrder(up, rest)
        /\ below = kids \o rest
    BY <1>1, <1>5, <1>8
  <2> QED BY <2>1, <2>2, BelowInOrder
<1>13. Elements(below) = K \cup R
  <2>1. kids \in Seq(Nat) /\ rest \in Seq(Nat) /\ below = kids \o rest
    BY <1>1, <1>5
  <2> QED BY <1>2, <1>3, <2>1, ElementsOfBoth
<1>14. visited \cup {x} \in SUBSET DOMAIN up
  BY <1>1, <1>7
<1>15. WalkOrder(up, visited \cup {x}, below)
  BY <1>1, <1>10, <1>12, <1>13, <1>14, SetsOfWalk
<1> QED BY <1>7, <1>15

\* The walk begins with the roots.
LEMMA WalkOrderBegins ==
    ASSUME NEW up, NEW roots \in Seq(Nat), NoNode \notin DOMAIN up, DOMAIN up \subseteq Nat,
           Rising(roots), NEW R, R = Elements(roots), R = {c \in DOMAIN up : up[c] = NoNode}
    PROVE  WalkOrder(up, {}, roots)
<1>1. \A a \in R : a \in DOMAIN up /\ up[a] = NoNode /\ up[a] \notin DOMAIN up
  OBVIOUS
<1>2. \A a \in R : Path(up, a) = {a}
  BY <1>1, PathOfRoot
<1>3. WalkSets(up, {}, R)
  BY <1>1, <1>2 DEF WalkSets
<1>4. ASSUME NEW i \in DOMAIN roots, NEW j \in DOMAIN roots, i < j
      PROVE  Precedes(up, roots[i], roots[j])
  <2>1. roots[i] < roots[j] /\ roots[i] \in Nat /\ roots[j] \in Nat
    BY <1>4 DEF Rising
  <2>2. Path(up, roots[i]) = {roots[i]} /\ Path(up, roots[j]) = {roots[j]}
    BY <1>2 DEF Elements
  <2> QED BY <2>1, <2>2 DEF Precedes
<1>5. InOrder(up, roots)
  BY <1>4 DEF InOrder
<1> QED BY <1>3, <1>5, SetsOfWalk

\* A non-empty set of numbers has a least element.
LEMMA LeastElement ==
    ASSUME NEW T \in SUBSET Nat, T # {}
    PROVE  \E m \in T : \A k \in T : m <= k
<1> DEFINE R == {p \in Nat \X Nat : p[1] < p[2]}
<1>1. IsWellFoundedOn(R, Nat)
  BY NatLessThanWellFounded DEF OpToRel
<1> HIDE DEF R
<1>2. PICK m \in T : \A k \in T : <<k, m>> \notin R
  BY <1>1, WFMin
<1>3. ASSUME NEW k \in T
      PROVE  m <= k
  <2>1. ~(k < m)
    <3>1. <<k, m>> \in Nat \X Nat /\ <<k, m>>[1] = k /\ <<k, m>>[2] = m
      OBVIOUS
    <3> QED BY <1>2, <3>1 DEF R
  <2> QED BY <2>1
<1> QED BY <1>3

\* A walk that has nothing left has visited everything: of the nodes it
\* missed, the one with the least id would hang under a node it visited.
LEMMA WalkReachesAll ==
    ASSUME NEW s, Stable(s), NEW visited \in SUBSET DOMAIN s.nodes,
           \A c \in DOMAIN s.nodes : s.nodes[c].parent \in visited \cup {NoNode} => c \in visited
    PROVE  visited = DOMAIN s.nodes
<1>1. PICK ns : ns = s.nodes
  OBVIOUS
<1>2. /\ ns \in Seq(Node) /\ \A h \in DOMAIN ns : Hangs(ns, h)
      /\ \A h \in DOMAIN ns : ns[h].parent \in {NoNode} \cup DOMAIN ns
  BY <1>1 DEF Stable, Whole, Descending
<1>3. \A h \in DOMAIN ns : ns[h] \in Node /\ ns[h].id \in Nat
  <2>1. \A h \in DOMAIN ns : ns[h] \in Node
    BY <1>2
  <2> QED BY <2>1 DEF Node
<1>4. SUFFICES ASSUME NEW c \in DOMAIN ns, c \notin visited
               PROVE  FALSE
  BY <1>1
<1>5. PICK left : left = DOMAIN ns \ visited
  OBVIOUS
<1>6. PICK ids : ids = {ns[h].id : h \in left}
  OBVIOUS
<1>7. ids \in SUBSET Nat /\ ids # {}
  BY <1>3, <1>4, <1>5, <1>6
<1>8. PICK least \in ids : \A id \in ids : least <= id
  BY <1>7, LeastElement
<1>9. PICK h \in left : ns[h].id = least
  BY <1>6, <1>8
<1>10. ns[h].parent \in DOMAIN ns /\ ns[h].parent # NoNode /\ ns[h].parent \in left
  BY <1>1, <1>2, <1>5, <1>9
<1>11. ns[ns[h].parent].id < ns[h].id
  BY <1>2, <1>5, <1>9, <1>10 DEF Hangs
<1>12. least <= ns[ns[h].parent].id
  BY <1>6, <1>8, <1>10
<1>13. ns[ns[h].parent].id \in Nat /\ ns[h].id \in Nat
  BY <1>3, <1>5, <1>9, <1>10
<1> QED BY <1>9, <1>11, <1>12, <1>13

-----------------------------------------------------------------------------
(***************************************************************************)
(* apply collects the changes.                                             *)
(***************************************************************************)
\* What is the same in a call that has changed nothing yet.
LEMMA NothingChanged ==
    ASSUME CallsInv, SameCache, Stable(before)
    PROVE  /\ DOMAIN before.nodes = DOMAIN objects /\ before.nodes \in Seq(Node)
           /\ \A h \in DOMAIN objects : SameFields(before.nodes[h], objects[h])
           /\ DOMAIN UpIn(before) = DOMAIN objects
           /\ \A h \in DOMAIN objects : UpIn(before)[h] = objects[h].parent
           /\ NoNode \notin DOMAIN UpIn(before) /\ DOMAIN UpIn(before) \subseteq Nat
<1>1. Now.nodes = before.nodes /\ objects \in Seq(Object)
  BY DEF SameCache, CallsInv, Typed
<1>2. PICK ns : ns = before.nodes
  OBVIOUS
<1>3. /\ ns \in Seq(Node) /\ DOMAIN ns = DOMAIN objects
      /\ \A h \in DOMAIN objects : SameFields(ns[h], objects[h])
  BY <1>1, <1>2, NowNodes
<1>4. NoNode \notin DOMAIN objects /\ DOMAIN objects \subseteq Nat
  BY <1>1, ObjectFields
<1> QED BY <1>2, <1>3, <1>4 DEF UpIn, SameFields

LEMMA KeptElements ==
    ASSUME NEW objs, NEW list, NEW h, Keeps(objs, list, h)
    PROVE  Elements(list) = {c \in DOMAIN objs : objs[c].parent = h} /\ Rising(list)
BY DEF Keeps, Elements

LEMMA EmptyLists ==
    /\ Lists(<< >>, {}) /\ Follows(<< >>, << >>) /\ OrderOf(<< >>, {})
BY EmptySeq DEF Lists, Follows, OrderOf, InOrder

LEMMA WalkBeginsEmpty ==
    ASSUME NEW s \in Seq(Nat), NEW d, d = [NoCall EXCEPT !.at = "collect", !.stack = s]
    PROVE  /\ d.at = "collect" /\ d.stack = s
           /\ d.created = << >> /\ d.modified = << >> /\ d.deleted = << >>
           /\ d.temporaryToPersistent = << >> /\ d.assignedIds = << >>
BY DEF NoCall

LEMMA ApplyBegins ==
    ASSUME CallsInv, Stable(Seen), Apply
    PROVE  Stable(Seen)' /\ Progress' /\ UNCHANGED Atomic!vars
<1>1. /\ objects \in Seq(Object) /\ rootList \in Seq(Nat) /\ Owned(objects, rootList)
      /\ Keeps(objects, rootList, NoNode)
      /\ \A h \in DOMAIN objects : objects[h].parent \in {NoNode} \cup DOMAIN objects
  BY DEF CallsInv, Typed, Owned, VectorOf
<1>2. /\ Idle /\ before' = Now
      /\ call' = [NoCall EXCEPT !.at = "collect", !.stack = rootList]
      /\ UNCHANGED <<objects, rootList, index, nextTemporaryId, records, nextId>>
  BY DEF Apply, Begin, cacheVars, dbVars
<1>3. /\ call'.at = "collect" /\ call'.stack = rootList
      /\ call'.created = << >> /\ call'.modified = << >> /\ call'.deleted = << >>
      /\ NothingAssigned'
  BY <1>1, <1>2, WalkBeginsEmpty DEF NothingAssigned
<1>4. Stable(Seen)' /\ UNCHANGED Atomic!vars
  BY <1>2, <1>3, Begins
<1>5. Now' = Now
  BY <1>2 DEF Now
<1>6. SameDatabase' /\ SameCache'
  BY <1>2, <1>5, NowOutside DEF SameDatabase, SameCache
<1>7. PICK ns : ns = Now.nodes
  OBVIOUS
<1>8. /\ ns \in Seq(Node) /\ DOMAIN ns = DOMAIN objects
      /\ \A h \in DOMAIN objects : SameFields(ns[h], objects[h])
  BY <1>7, NowNodes
<1>9. Room'
  <2>1. WithStatus(before, "New")' = {h \in DOMAIN objects : objects[h].status = "New"}
    BY <1>2, <1>7, <1>8 DEF WithStatus, SameFields
  <2>2. before'.nextId = nextId
    BY <1>2, NowOutside
  <2>3. nextId + Cardinality({h \in DOMAIN objects : objects[h].status = "New"}) <= MaxId + 1
    BY DEF Apply
  <2> QED BY <2>1, <2>2, <2>3 DEF Room
<1>10. PICK up : up = UpIn(before)'
  OBVIOUS
<1>11. up = [h \in DOMAIN ns |-> ns[h].parent]
  BY <1>2, <1>7, <1>10 DEF UpIn
<1>12. DOMAIN up = DOMAIN objects /\ \A h \in DOMAIN up : up[h] = objects[h].parent
  BY <1>8, <1>11 DEF SameFields
<1>13. WalkOrder(up, {}, rootList)
  <2>1. NoNode \notin DOMAIN up /\ DOMAIN up \subseteq Nat
    BY <1>1, <1>12, ObjectFields
  <2>2. PICK R : R = Elements(rootList)
    OBVIOUS
  <2>3. R = {c \in DOMAIN up : up[c] = NoNode} /\ Rising(rootList)
    <3>1. R = {c \in DOMAIN objects : objects[c].parent = NoNode} /\ Rising(rootList)
      BY <1>1, <2>2, KeptElements
    <3> QED BY <1>12, <3>1
  <2>4. PICK list \in Seq(Nat) : list = rootList
    BY <1>1
  <2>5. WalkOrder(up, {}, list)
    BY <2>1, <2>2, <2>3, <2>4, WalkOrderBegins
  <2> QED BY <2>4, <2>5
<1>14. (Lists(<< >>, {}) /\ Follows(<< >>, << >>) /\ OrderOf(<< >>, {}))'
  BY EmptyLists, PTL
<1>15. Collecting({}, << >>)'
  BY <1>3, <1>6, <1>9, <1>10, <1>13, <1>14 DEF Collecting
<1>16. Progress'
  <2>1. << >> \in Seq(DOMAIN before'.nodes) /\ {} \in SUBSET DOMAIN before'.nodes
    BY EmptySeq
  <2> QED BY <1>3, <1>15, <2>1 DEF Progress
<1> QED BY <1>4, <1>16

LEMMA OrderGrows ==
    ASSUME NEW S, NEW order, OrderOf(order, S), NEW x, x \notin S,
           \A v \in S : Precedes(UpIn(before), v, x), NEW grown, grown = Append(order, x)
    PROVE  OrderOf(grown, S \cup {x}) /\ Len(grown) = Len(order) + 1
<1>1. PICK T : T = S \cup {x}
  OBVIOUS
<1>2. order \in Seq(T) /\ x \in T
  BY <1>1 DEF OrderOf
<1>3. /\ grown \in Seq(T) /\ Len(grown) = Len(order) + 1 /\ Len(order) \in Nat
      /\ DOMAIN grown = 1..(Len(order) + 1) /\ DOMAIN order = 1..Len(order)
      /\ \A i \in DOMAIN order : grown[i] = order[i] /\ order[i] \in S
      /\ grown[Len(order) + 1] = x
  BY <1>2, AppendProperties DEF OrderOf
<1>4. \A h \in T : \E i \in DOMAIN grown : grown[i] = h
  BY <1>1, <1>3 DEF OrderOf
<1>5. ASSUME NEW i \in DOMAIN grown, NEW j \in DOMAIN grown
      PROVE  /\ grown[i] = grown[j] => i = j
             /\ i < j => Precedes(UpIn(before), grown[i], grown[j])
  <2>1. CASE i \in DOMAIN order /\ j \in DOMAIN order
    BY <1>3, <2>1 DEF OrderOf, InOrder
  <2>2. CASE i \in DOMAIN order /\ j = Len(order) + 1
    BY <1>3, <2>2
  <2>3. CASE i = Len(order) + 1 /\ j \in DOMAIN order
    BY <1>3, <2>3
  <2>4. CASE i = Len(order) + 1 /\ j = Len(order) + 1
    BY <1>3, <2>4
  <2> QED BY <1>3, <2>1, <2>2, <2>3, <2>4
<1> QED BY <1>1, <1>3, <1>4, <1>5 DEF OrderOf, InOrder

LEMMA FollowsGrows ==
    ASSUME NEW list \in Seq(Change), NEW S, NEW order \in Seq(S), Follows(list, order),
           NEW x \in S, NEW change \in Change, change = ChangeOf(before.nodes[x])
    PROVE  Follows(Append(list, change), Append(order, x))
<1>1. PICK l2, o2 : l2 = Append(list, change) /\ o2 = Append(order, x)
  OBVIOUS
<1>2. Len(list) = Len(order) /\ Len(order) \in Nat
  BY DEF Follows
<1>3. /\ Len(l2) = Len(list) + 1 /\ l2[Len(list) + 1] = change
      /\ \A i \in 1..Len(list) : l2[i] = list[i]
  BY <1>1, AppendProperties
<1>4. /\ Len(o2) = Len(order) + 1 /\ o2[Len(order) + 1] = x
      /\ DOMAIN o2 = 1..(Len(order) + 1) /\ DOMAIN order = 1..Len(order)
      /\ \A i \in 1..Len(order) : o2[i] = order[i]
  BY <1>1, AppendProperties
<1>5. ASSUME NEW i \in DOMAIN o2
      PROVE  l2[i] = ChangeOf(before.nodes[o2[i]])
  <2>1. CASE i \in 1..Len(order)
    BY <1>2, <1>3, <1>4, <2>1 DEF Follows
  <2>2. CASE i = Len(order) + 1
    BY <1>2, <1>3, <1>4, <2>2
  <2> QED BY <1>2, <1>4, <2>1, <2>2
<1> QED BY <1>1, <1>2, <1>3, <1>4, <1>5 DEF Follows

LEMMA ListsOneMore ==
    ASSUME NEW list \in Seq(Change), NEW S, Lists(list, S), NEW x,
           NEW change \in Change, change = ChangeOf(before.nodes[x])
    PROVE  Lists(Append(list, change), S \cup {x})
<1>1. PICK l2 : l2 = Append(list, change)
  OBVIOUS
<1>2. /\ DOMAIN l2 = DOMAIN list \cup {Len(list) + 1} /\ l2[Len(list) + 1] = change
      /\ \A i \in DOMAIN list : l2[i] = list[i]
  BY <1>1
<1> QED BY <1>1, <1>2 DEF Lists

\* The frame after a node has been collected.
LEMMA ListsAfter ==
    ASSUME NEW c \in Frame, NEW d, NEW cr \in Seq(Change), NEW mo \in Seq(Change),
           NEW de \in Seq(Change), NEW s \in Seq(Nat), d = WithLists(c, cr, mo, de, s)
    PROVE  /\ d.at = c.at /\ d.stack = s
           /\ d.created = cr /\ d.modified = mo /\ d.deleted = de
           /\ d.temporaryToPersistent = c.temporaryToPersistent
           /\ d.assignedIds = c.assignedIds
BY DEF Frame, WithLists

LEMMA CollectContinues ==
    ASSUME CallsInv, Stable(Seen), Progress, CollectChanges
    PROVE  Stable(Seen)' /\ Progress' /\ UNCHANGED Atomic!vars
<1> DEFINE node == objects[Head(call.stack)]
           change == [id |-> node.id, parentId |-> node.parentId, payload |-> node.payload]
           grown(status, list) == IF node.status = status THEN Append(list, change) ELSE list
<1>1. /\ call.at = "collect" /\ call.stack # << >>
      /\ UNCHANGED <<objects, rootList, index, nextTemporaryId, records, nextId, before>>
      /\ objects \in Seq(Object) /\ Owned(objects, rootList) /\ call \in Frame
      /\ \A i \in DOMAIN call.stack : call.stack[i] \in DOMAIN objects
  BY DEF CollectChanges, cacheVars, dbVars, CallsInv, Typed, WalkOK
<1>2. /\ call.stack \in Seq(Nat) /\ call.created \in Seq(Change)
      /\ call.modified \in Seq(Change) /\ call.deleted \in Seq(Change)
  BY <1>1 DEF Frame
<1>3. PICK x : x = Head(call.stack)
  OBVIOUS
<1>4. x \in DOMAIN objects /\ Descend \in Seq(Nat)
      /\ Descend = objects[x].children \o Tail(call.stack)
  BY <1>1, <1>3, WalkGoesDown DEF Descend
<1>5. PICK visited \in SUBSET DOMAIN before.nodes, order \in Seq(DOMAIN before.nodes) :
          Collecting(visited, order)
  BY <1>1 DEF Progress
<1>6. Stable(before)
  BY <1>1, SeenInside
<1>7. SameCache /\ SameDatabase /\ Room /\ NothingAssigned
  BY <1>5 DEF Collecting
<1>8. PICK ns, up : ns = before.nodes /\ up = UpIn(before)
  OBVIOUS
<1>9. /\ DOMAIN ns = DOMAIN objects /\ ns \in Seq(Node)
      /\ \A h \in DOMAIN objects : SameFields(ns[h], objects[h])
      /\ DOMAIN up = DOMAIN objects
      /\ \A h \in DOMAIN objects : up[h] = objects[h].parent
      /\ NoNode \notin DOMAIN up /\ DOMAIN up \subseteq Nat
  BY <1>6, <1>7, <1>8, NothingChanged
<1>10. /\ WalkOrder(up, visited, call.stack)
       /\ OrderOf(order, visited \cap WithStatus(before, "New"))
       /\ Follows(call.created, order)
       /\ Lists(call.modified, visited \cap WithStatus(before, "Modified"))
       /\ Lists(call.deleted, visited \cap WithStatus(before, "Deleted"))
  BY <1>5, <1>8 DEF Collecting
<1>11. /\ WalkOrder(up, visited \cup {x}, Descend)
       /\ x \notin visited
       /\ \A v \in visited : Precedes(up, v, x)
  <2>1. PICK stack \in Seq(Nat) : stack = call.stack
    BY <1>2
  <2>2. PICK rest : rest = Tail(stack)
    OBVIOUS
  <2>3. PICK kids \in Seq(Nat) : kids = objects[x].children
    BY <1>1, <1>4, ObjectFields
  <2>4. Elements(kids) = {c \in DOMAIN objects : objects[c].parent = x} /\ Rising(kids)
    <3>1. Keeps(objects, kids, x)
      <4>1. x # NoNode
        BY <1>4, <1>9
      <4> QED BY <1>1, <1>4, <2>3, <4>1 DEF Owned, VectorOf
    <3> QED BY <3>1, KeptElements
  <2>5. Elements(kids) = {c \in DOMAIN up : up[c] = x}
    BY <1>9, <2>4
  <2>6. PICK below : below = Descend
    OBVIOUS
  <2>7. Walks(up, visited, stack, x, rest, kids, below)
    <3>1. visited \in SUBSET DOMAIN up
      BY <1>8, <1>9
    <3>2. below = kids \o rest
      BY <1>4, <2>1, <2>2, <2>3, <2>6
    <3> QED BY <1>1, <1>3, <1>9, <1>10, <2>1, <2>2, <2>4, <2>5, <3>1, <3>2 DEF Walks
  <2> QED BY <2>6, <2>7, WalkOrderStep
<1>12. change \in Change /\ change = ChangeOf(ns[x]) /\ ns[x].status = node.status
  <2>1. node \in Object /\ SameFields(ns[x], node)
    BY <1>1, <1>3, <1>4, <1>9, ObjectFields
  <2> QED BY <2>1 DEF Object, Change, ChangeOf, SameFields
<1> HIDE DEF change
<1>13. call' = WithLists(call, grown("New", call.created), grown("Modified", call.modified),
                         grown("Deleted", call.deleted), Descend)
  BY DEF CollectChanges, change, WithLists
<1>14. /\ grown("New", call.created) \in Seq(Change)
       /\ grown("Modified", call.modified) \in Seq(Change)
       /\ grown("Deleted", call.deleted) \in Seq(Change)
  BY <1>2, <1>12, AppendProperties
<1>15. PICK cr \in Seq(Change), mo \in Seq(Change), de \in Seq(Change), below \in Seq(Nat) :
           /\ cr = grown("New", call.created) /\ mo = grown("Modified", call.modified)
           /\ de = grown("Deleted", call.deleted) /\ below = Descend
  BY <1>4, <1>14
<1>16. /\ call'.at = "collect" /\ call'.stack = below
       /\ call'.created = cr /\ call'.modified = mo /\ call'.deleted = de
       /\ NothingAssigned'
  <2>1. call' = WithLists(call, cr, mo, de, below)
    BY <1>13, <1>15
  <2> QED BY <1>1, <1>7, <2>1, ListsAfter DEF NothingAssigned
<1>17. PICK seen : seen = visited \cup {x}
  OBVIOUS
<1>18. \A status : seen \cap WithStatus(before, status) =
           IF node.status = status THEN (visited \cap WithStatus(before, status)) \cup {x}
           ELSE visited \cap WithStatus(before, status)
  BY <1>4, <1>8, <1>9, <1>12, <1>17 DEF WithStatus
<1>19. PICK order2 : order2 = IF node.status = "New" THEN Append(order, x) ELSE order
  OBVIOUS
<1>20. /\ order2 \in Seq(DOMAIN ns) /\ Follows(cr, order2)
       /\ OrderOf(order2, seen \cap WithStatus(before, "New"))
  <2>1. CASE node.status = "New"
    <3>1. cr = Append(call.created, change) /\ order2 = Append(order, x)
      BY <1>15, <1>19, <2>1
    <3>2. PICK S : S = visited \cap WithStatus(before, "New")
      OBVIOUS
    <3>3. OrderOf(order, S) /\ x \notin S /\ \A v \in S : Precedes(UpIn(before), v, x)
      BY <1>8, <1>10, <1>11, <3>2
    <3>4. OrderOf(order2, S \cup {x})
      BY <3>1, <3>3, OrderGrows
    <3>5. seen \cap WithStatus(before, "New") = S \cup {x}
      BY <1>18, <2>1, <3>2
    <3>6. order \in Seq(DOMAIN ns) /\ x \in DOMAIN ns
      BY <1>4, <1>5, <1>8, <1>9
    <3>7. Follows(cr, order2)
      <4>1. PICK entry \in Change : entry = change
        BY <1>12
      <4>2. PICK list \in Seq(Change) : list = call.created
        BY <1>2
      <4>3. Follows(list, order) /\ entry = ChangeOf(before.nodes[x])
        BY <1>8, <1>10, <1>12, <4>1, <4>2
      <4>4. Follows(Append(list, entry), Append(order, x))
        BY <3>6, <4>3, FollowsGrows
      <4> QED BY <3>1, <4>1, <4>2, <4>4
    <3> QED BY <3>1, <3>4, <3>5, <3>6, <3>7, AppendProperties
  <2>2. CASE node.status # "New"
    BY <1>5, <1>8, <1>10, <1>15, <1>18, <1>19, <2>2
  <2> QED BY <2>1, <2>2
<1>21. ASSUME NEW list \in Seq(Change), NEW status,
              Lists(list, visited \cap WithStatus(before, status))
       PROVE  Lists(grown(status, list), seen \cap WithStatus(before, status))
  <2>1. CASE node.status = status
    <3>1. PICK entry \in Change : entry = change
      BY <1>12
    <3>2. PICK S : S = visited \cap WithStatus(before, status)
      OBVIOUS
    <3>3. Lists(list, S) /\ entry = ChangeOf(before.nodes[x])
      BY <1>8, <1>12, <1>21, <3>1, <3>2
    <3>4. Lists(Append(list, entry), S \cup {x})
      BY <3>3, ListsOneMore
    <3>5. seen \cap WithStatus(before, status) = S \cup {x}
      BY <1>18, <2>1, <3>2
    <3>6. grown(status, list) = Append(list, entry)
      BY <2>1, <3>1
    <3> QED BY <3>4, <3>5, <3>6
  <2>2. CASE node.status # status
    <3>1. grown(status, list) = list
          /\ seen \cap WithStatus(before, status) = visited \cap WithStatus(before, status)
      BY <1>18, <2>2
    <3> QED BY <1>21, <3>1
  <2> QED BY <2>1, <2>2
<1> HIDE DEF grown, node
<1>22. /\ Lists(mo, seen \cap WithStatus(before, "Modified"))
       /\ Lists(de, seen \cap WithStatus(before, "Deleted"))
  BY <1>2, <1>10, <1>15, <1>21
<1>23. Collecting(seen, order2)'
  <2>1. /\ SameDatabase' /\ Room' /\ UpIn(before)' = up
        /\ \A status : WithStatus(before, status)' = WithStatus(before, status)
    BY <1>1, <1>7, <1>8 DEF SameDatabase, Room, UpIn, WithStatus
  <2>2. SameCache'
    <3>1. Now' = Now
      BY <1>1 DEF Now
    <3> QED BY <1>1, <1>7, <3>1 DEF SameCache
  <2>3. seen \subseteq DOMAIN before'.nodes
    BY <1>1, <1>4, <1>8, <1>9, <1>17
  <2>4. WalkOrder(up, seen, below)
    BY <1>11, <1>15, <1>17
  <2>5. /\ OrderOf(order2, seen \cap WithStatus(before, "New"))'
        /\ Follows(cr, order2)'
    BY <1>1, <1>20 DEF OrderOf, InOrder, UpIn, Follows, WithStatus
  <2>6. /\ Lists(mo, seen \cap WithStatus(before, "Modified"))'
        /\ Lists(de, seen \cap WithStatus(before, "Deleted"))'
    BY <1>1, <1>22 DEF Lists, WithStatus
  <2> QED BY <1>16, <2>1, <2>2, <2>3, <2>4, <2>5, <2>6 DEF Collecting
<1>24. Progress'
  <2>1. order2 \in Seq(DOMAIN before'.nodes) /\ seen \in SUBSET DOMAIN before'.nodes
    BY <1>1, <1>4, <1>8, <1>9, <1>17, <1>20
  <2> QED BY <1>16, <1>23, <2>1 DEF Progress
<1> QED BY <1>1, <1>16, <1>24, Continues

-----------------------------------------------------------------------------
(***************************************************************************)
(* apply inserts the new elements, in the order of the walk.               *)
(***************************************************************************)
LEMMA DistinctIds ==
    ASSUME Stable(before), NEW g \in DOMAIN before.nodes, NEW h \in DOMAIN before.nodes,
           before.nodes[g].id = before.nodes[h].id
    PROVE  g = h
BY DEF Stable, Whole, Exact

\* What an order of the new nodes is.
LEMMA OrderLists ==
    ASSUME Stable(before), NEW order, Ordered(order)
    PROVE  /\ order \in Seq(DOMAIN before.nodes)
           /\ Len(order) \in Nat /\ DOMAIN order = 1..Len(order)
           /\ \A i \in 1..Len(order) : /\ order[i] \in DOMAIN before.nodes
                                       /\ before.nodes[order[i]].status = "New"
           /\ \A i, j \in 1..Len(order) :
                 before.nodes[order[i]].id = before.nodes[order[j]].id => i = j
           /\ \A h \in DOMAIN before.nodes :
                 before.nodes[h].status = "New" => \E i \in 1..Len(order) : order[i] = h
<1>1. PICK S : S = WithStatus(before, "New")
  OBVIOUS
<1>2. OrderOf(order, S) /\ S \subseteq DOMAIN before.nodes
      /\ (\A h \in S : before.nodes[h].status = "New")
      /\ (\A h \in DOMAIN before.nodes : before.nodes[h].status = "New" => h \in S)
  BY <1>1 DEF Ordered, WithStatus
<1>3. order \in Seq(S) /\ Len(order) \in Nat /\ DOMAIN order = 1..Len(order)
      /\ (\A i \in 1..Len(order) : order[i] \in S)
      /\ (\A i, j \in DOMAIN order : order[i] = order[j] => i = j)
      /\ (\A h \in S : \E i \in DOMAIN order : order[i] = h)
  BY <1>2 DEF OrderOf
<1>4. order \in Seq(DOMAIN before.nodes)
  BY <1>2, <1>3, SeqMonotonic
<1>5. ASSUME NEW i \in 1..Len(order), NEW j \in 1..Len(order),
             before.nodes[order[i]].id = before.nodes[order[j]].id
      PROVE  i = j
  <2>1. order[i] = order[j]
    BY <1>2, <1>3, <1>5, DistinctIds
  <2> QED BY <1>3, <2>1
<1>6. \A i \in 1..Len(order) : order[i] \in DOMAIN before.nodes
                               /\ before.nodes[order[i]].status = "New"
  BY <1>2, <1>3
<1>7. \A h \in DOMAIN before.nodes :
          before.nodes[h].status = "New" => \E i \in 1..Len(order) : order[i] = h
  BY <1>2, <1>3
<1> QED BY <1>3, <1>4, <1>5, <1>6, <1>7

\* The rows and the assignments depend on what was there before the call.
LEMMA RowsStay ==
    ASSUME before' = before
    PROVE  /\ \A s : WithStatus(before, s)' = WithStatus(before, s)
           /\ \A order : Ordered(order)' <=> Ordered(order)
           /\ \A order, id : CreatedRow(order, id)' = CreatedRow(order, id)
           /\ \A order, id : ModifiedRow(order, id)' = ModifiedRow(order, id)
           /\ \A order, marked, id : DeletedRow(order, marked, id)' = DeletedRow(order, marked, id)
           /\ \A order, j : AssignmentOf(order, j)' = AssignmentOf(order, j)
<1>1. \A s : WithStatus(before, s)' = WithStatus(before, s)
  BY DEF WithStatus
<1>2. \A order : Ordered(order)' <=> Ordered(order)
  BY <1>1 DEF Ordered, Room, OrderOf, InOrder, UpIn
<1>3. \A order, id : CreatedRow(order, id)' = CreatedRow(order, id)
  BY DEF CreatedRow, ParentOf
<1>4. \A id : (id \in IdsWith("Modified"))' <=> id \in IdsWith("Modified")
  BY <1>1 DEF IdsWith
<1>5. \A id : TextFor(id)' = TextFor(id)
  BY DEF TextFor, WithStatus
<1>6. \A order, id : ModifiedRow(order, id)' = ModifiedRow(order, id)
  BY <1>3, <1>4, <1>5 DEF ModifiedRow
<1>7. \A order, marked, id : DeletedRow(order, marked, id)' = DeletedRow(order, marked, id)
  BY <1>6 DEF DeletedRow
<1>8. \A order, j : AssignmentOf(order, j)' = AssignmentOf(order, j)
  BY DEF AssignmentOf
<1> QED BY <1>1, <1>2, <1>3, <1>6, <1>7, <1>8

LEMMA PlaceOnly ==
    ASSUME NEW c \in Frame, NEW d, NEW a \in {"insert", "modify", "delete", "reassign"},
           d = [c EXCEPT !.at = a]
    PROVE  /\ d.at = a /\ d.stack = c.stack /\ d.created = c.created
           /\ d.modified = c.modified /\ d.deleted = c.deleted
           /\ d.temporaryToPersistent = c.temporaryToPersistent
           /\ d.assignedIds = c.assignedIds
BY DEF Frame

\* The walk is over: it has visited every node.
LEMMA ProceedsToInsert ==
    ASSUME CallsInv, Stable(Seen), Progress, call.at = "collect", call.stack = << >>,
           call' = [call EXCEPT !.at = "insert"], UNCHANGED <<cacheVars, dbVars, before>>
    PROVE  Stable(Seen)' /\ Progress' /\ UNCHANGED Atomic!vars
<1>1. /\ UNCHANGED <<objects, rootList, index, nextTemporaryId, records, nextId, before>>
      /\ call \in Frame /\ nextId \in 1..(MaxId + 1) /\ records \in [1..(nextId - 1) -> Record]
  BY DEF cacheVars, dbVars, CallsInv, Typed, DbTypeOK
<1>2. PICK visited \in SUBSET DOMAIN before.nodes, order \in Seq(DOMAIN before.nodes) :
          Collecting(visited, order)
  BY DEF Progress
<1>3. Stable(before) /\ SameCache /\ SameDatabase /\ Room /\ NothingAssigned
  BY <1>2, SeenInside DEF Collecting
<1>4. PICK ns : ns = before.nodes
  OBVIOUS
<1>5. /\ WalkOrder(UpIn(before), visited, << >>)
      /\ OrderOf(order, visited \cap WithStatus(before, "New"))
      /\ Follows(call.created, order)
      /\ Lists(call.modified, visited \cap WithStatus(before, "Modified"))
      /\ Lists(call.deleted, visited \cap WithStatus(before, "Deleted"))
  BY <1>2 DEF Collecting
<1>6. visited = DOMAIN ns
  <2>1. ASSUME NEW c \in DOMAIN ns, ns[c].parent \in visited \cup {NoNode}
        PROVE  c \in visited
    <3>1. c \in visited \cup Elements(<< >>)
      BY <1>4, <1>5, <2>1 DEF WalkOrder, UpIn
    <3>2. Elements(<< >>) = {}
      BY DEF Elements
    <3> QED BY <3>1, <3>2
  <2> QED BY <1>3, <1>4, <2>1, WalkReachesAll
<1>7. \A status : visited \cap WithStatus(before, status) = WithStatus(before, status)
  BY <1>4, <1>6 DEF WithStatus
<1>8. Ordered(order)
  BY <1>3, <1>5, <1>7 DEF Ordered
<1>9. /\ call'.at = "insert" /\ call'.stack = << >> /\ call'.created = call.created
      /\ call'.modified = call.modified /\ call'.deleted = call.deleted
      /\ call'.temporaryToPersistent = << >> /\ call'.assignedIds = << >>
  BY <1>1, <1>3, PlaceOnly DEF NothingAssigned
<1>10. nextId = before.nextId /\ nextId \in Int /\ nextId - nextId = 0 /\ nextId + 0 = nextId
  BY <1>1, <1>3 DEF SameDatabase
<1>11. \A id \in DOMAIN records : records[id] = CreatedRow(order, id)
  <2>1. \A id \in DOMAIN records : id < nextId
    BY <1>1
  <2> QED BY <1>3, <1>10, <2>1 DEF CreatedRow, SameDatabase
<1>12. Len(order) \in Nat /\ DOMAIN order = 1..Len(order)
  BY <1>3, <1>8, OrderLists
<1>13. Inserting(order, 0)'
  <2>1. SameCache'
    <3>1. Now' = Now
      BY <1>1 DEF Now
    <3> QED BY <1>1, <1>3, <3>1 DEF SameCache
  <2>2. Ordered(order)' /\ (\A id \in DOMAIN records : records[id] = CreatedRow(order, id))'
    BY <1>1, <1>8, <1>11, RowsStay
  <2>3. 0 \in 0..Len(order) /\ nextId' = before'.nextId + 0
    BY <1>1, <1>10, <1>12
  <2>4. Len(call'.created) = Len(order) - 0
    BY <1>5, <1>9, <1>12 DEF Follows
  <2>5. \A i \in 1..(Len(order) - 0) : call'.created[i] = ChangeOf(before'.nodes[order[0 + i]])
    <3>1. \A i \in 1..(Len(order) - 0) : 0 + i = i /\ i \in DOMAIN order
      BY <1>12
    <3> QED BY <1>1, <1>5, <1>9, <3>1 DEF Follows
  <2>6. (Lists(call.modified, WithStatus(before, "Modified"))
         /\ Lists(call.deleted, WithStatus(before, "Deleted")))'
    <3>1. /\ Lists(call.modified, WithStatus(before, "Modified"))
          /\ Lists(call.deleted, WithStatus(before, "Deleted"))
      BY <1>5, <1>7
    <3>2. /\ WithStatus(before, "Modified")' = WithStatus(before, "Modified")
          /\ WithStatus(before, "Deleted")' = WithStatus(before, "Deleted")
      BY <1>1, RowsStay
    <3> QED BY <1>1, <1>9, <3>1, <3>2 DEF Lists
  <2>7. 1..0 = {} /\ DOMAIN call'.temporaryToPersistent = {} /\ Len(call'.assignedIds) = 0
    BY <1>9
  <2> QED BY <1>9, <2>1, <2>2, <2>3, <2>4, <2>5, <2>6, <2>7
           DEF Inserting, FirstAssigned, LeftCreated, Maps
<1>14. Progress'
  <2>1. order \in Seq(DOMAIN before'.nodes) /\ nextId' - before'.nextId = 0
    BY <1>1, <1>2, <1>10
  <2> QED BY <1>9, <1>13, <2>1 DEF Progress
<1> QED BY <1>1, <1>9, <1>14, Continues

\* What a call takes from the head of a list.
LEMMA CreatedRest ==
    ASSUME NEW order, Len(order) \in Nat, NEW done \in Nat, NEW list \in Seq(Change), list # << >>,
           LeftCreated(list, order, done)
    PROVE  /\ done + 1 \in 1..Len(order)
           /\ Head(list) = ChangeOf(before.nodes[order[done + 1]])
           /\ LeftCreated(Tail(list), order, done + 1)
<1>1. PICK rest : rest = Tail(list)
  OBVIOUS
<1>2. /\ Len(list) \in Nat /\ Len(list) # 0 /\ Len(rest) = Len(list) - 1
      /\ \A i \in 1..(Len(list) - 1) : rest[i] = list[i + 1]
      /\ Head(list) = list[1]
  BY <1>1, EmptySeq, HeadTailProperties
<1>3. Len(list) = Len(order) - done /\ done + 1 \in 1..Len(order)
      /\ Len(rest) = Len(order) - (done + 1)
  BY <1>2 DEF LeftCreated
<1>4. ASSUME NEW i \in 1..(Len(order) - (done + 1))
      PROVE  rest[i] = ChangeOf(before.nodes[order[(done + 1) + i]])
  <2>1. i \in 1..(Len(list) - 1) /\ i + 1 \in 1..(Len(order) - done)
        /\ done + (i + 1) = (done + 1) + i
    BY <1>3
  <2> QED BY <1>2, <2>1 DEF LeftCreated
<1>5. Head(list) = ChangeOf(before.nodes[order[done + 1]])
  <2>1. 1 \in 1..(Len(order) - done)
    BY <1>3
  <2> QED BY <1>2, <2>1 DEF LeftCreated
<1> QED BY <1>1, <1>3, <1>4, <1>5 DEF LeftCreated

\* The parent that is found in the table is MappedParent.
LEMMA TableGivesParent ==
    ASSUME Stable(before), NEW order, Ordered(order), NEW done \in Nat, done + 1 \in 1..Len(order),
           NEW table, Maps(table, order, done), NEW given,
           given = before.nodes[order[done + 1]].parentId, NEW found,
           found = IF given \in DOMAIN table THEN table[given] ELSE given
    PROVE  found = ParentOf(order, done + 1)
<1>1. /\ Len(order) \in Nat
      /\ \A i, j \in 1..Len(order) :
            before.nodes[order[i]].id = before.nodes[order[j]].id => i = j
  BY OrderLists
<1>2. PICK earlier : earlier = {j \in 1..done : before.nodes[order[j]].id = given}
  OBVIOUS
<1>3. ParentOf(order, done + 1) =
          IF earlier = {} THEN given
          ELSE before.nextId + (CHOOSE j \in earlier : \A k \in earlier : j <= k) - 1
  <2>1. (done + 1) - 1 = done
    OBVIOUS
  <2> QED BY <1>2, <2>1 DEF ParentOf
<1>4. CASE given \in DOMAIN table
  <2>1. PICK j \in 1..done : before.nodes[order[j]].id = given
    BY <1>4 DEF Maps
  <2>2. earlier = {j}
    <3>1. \A k \in 1..done : k \in 1..Len(order)
      BY <1>1
    <3> QED BY <1>1, <1>2, <2>1, <3>1
  <2>3. (CHOOSE k \in earlier : \A l \in earlier : k <= l) = j
    BY <2>1, <2>2
  <2>4. table[given] = before.nextId + j - 1
    BY <2>1 DEF Maps
  <2> QED BY <1>3, <1>4, <2>2, <2>3, <2>4
<1>5. CASE given \notin DOMAIN table
  <2>1. earlier = {}
    BY <1>2, <1>5 DEF Maps
  <2> QED BY <1>3, <1>5, <2>1
<1> QED BY <1>4, <1>5

LEMMA MapsOneMore ==
    ASSUME Stable(before), NEW order, Ordered(order), NEW done \in Nat, done + 1 \in 1..Len(order),
           NEW table, Maps(table, order, done), NEW id, id = before.nodes[order[done + 1]].id,
           NEW grown, grown = Emplace(table, id, before.nextId + done)
    PROVE  Maps(grown, order, done + 1)
<1>1. /\ Len(order) \in Nat
      /\ \A i, j \in 1..Len(order) :
            before.nodes[order[i]].id = before.nodes[order[j]].id => i = j
  BY OrderLists
<1>2. 1..(done + 1) = 1..done \cup {done + 1} /\ done + 1 \notin 1..done
      /\ (\A j \in 1..done : j \in 1..Len(order)) /\ before.nextId \in Int
  BY <1>1 DEF Stable, Whole
<1>3. id \notin DOMAIN table
  BY <1>1, <1>2 DEF Maps
<1>4. DOMAIN grown = DOMAIN table \cup {id} /\ grown[id] = before.nextId + done
      /\ \A k \in DOMAIN table : grown[k] = table[k]
  BY <1>3 DEF Emplace
<1>5. DOMAIN grown = {before.nodes[order[j]].id : j \in 1..(done + 1)}
  BY <1>2, <1>4 DEF Maps
<1>6. ASSUME NEW j \in 1..(done + 1)
      PROVE  grown[before.nodes[order[j]].id] = before.nextId + j - 1
  <2>1. CASE j \in 1..done
    BY <1>4, <2>1 DEF Maps
  <2>2. CASE j = done + 1
    <3>1. before.nextId + j - 1 = before.nextId + done
      BY <1>2, <2>2
    <3> QED BY <1>4, <2>2, <3>1
  <2> QED BY <1>2, <2>1, <2>2
<1> QED BY <1>5, <1>6 DEF Maps

LEMMA AssignedOneMore ==
    ASSUME NEW order, NEW done \in Nat, NEW list \in Seq(Assignment),
           FirstAssigned(list, order, done), NEW entry \in Assignment,
           entry = AssignmentOf(order, done + 1)
    PROVE  FirstAssigned(Append(list, entry), order, done + 1)
<1>1. PICK grown : grown = Append(list, entry)
  OBVIOUS
<1>2. /\ Len(grown) = Len(list) + 1 /\ grown[Len(list) + 1] = entry
      /\ \A i \in 1..Len(list) : grown[i] = list[i]
  BY <1>1, AppendProperties
<1>3. Len(list) = done /\ \A j \in 1..(done + 1) : j \in 1..done \/ j = done + 1
  BY DEF FirstAssigned
<1> QED BY <1>1, <1>2, <1>3 DEF FirstAssigned

LEMMA InsertedFields ==
    ASSUME NEW c \in Frame, NEW d, NEW table \in Table, NEW created \in Seq(Change),
           NEW assigned \in Seq(Assignment), d = WithInserted(c, table, assigned, created)
    PROVE  /\ d.at = c.at /\ d.created = created /\ d.assignedIds = assigned
           /\ d.temporaryToPersistent = table
           /\ d.stack = c.stack /\ d.modified = c.modified /\ d.deleted = c.deleted
BY DEF Frame, WithInserted, Assignment

LEMMA InsertContinues ==
    ASSUME CallsInv, Stable(Seen), Progress, InsertCreated
    PROVE  Stable(Seen)' /\ Progress' /\ UNCHANGED Atomic!vars
<1> DEFINE first    == Head(call.created)
           mapped   == call.temporaryToPersistent
           parentId == IF first.parentId \in DOMAIN mapped THEN mapped[first.parentId]
                       ELSE first.parentId
           entry    == [temporaryId |-> first.id, persistentId |-> nextId]
<1>1. /\ UNCHANGED <<objects, rootList, index, nextTemporaryId, before>>
      /\ call.at = "insert" /\ call.created # << >> /\ call \in Frame
      /\ records' = Emplace(records, nextId, [parentId |-> parentId, payload |-> first.payload,
                                              deleted |-> FALSE])
      /\ nextId' = nextId + 1
      /\ nextId \in 1..(MaxId + 1) /\ records \in [1..(nextId - 1) -> Record]
  BY DEF InsertCreated, InsertRecord, cacheVars, CallsInv, Typed, DbTypeOK
<1>2. call' = WithInserted(call, Emplace(mapped, first.id, nextId),
                           Append(call.assignedIds, entry), Tail(call.created))
  BY DEF InsertCreated, WithInserted
<1>3. /\ call.created \in Seq(Change) /\ mapped \in Table
      /\ call.assignedIds \in Seq(Assignment)
  BY <1>1 DEF Frame, Assignment
<1>4. first \in Change /\ Tail(call.created) \in Seq(Change)
  BY <1>1, <1>3, HeadTailProperties
<1>5. first.id \in Nat /\ first.parentId \in Nat
  BY <1>4 DEF Change
<1>6. entry \in Assignment /\ entry.temporaryId = first.id /\ nextId \in Nat
  <2>1. nextId \in Nat
    BY <1>1, DatabaseAssumption DEF DatabaseAssumption
  <2> QED BY <1>5, <2>1 DEF Assignment
<1>7. Stable(before)
  BY <1>1, SeenInside
<1>8. PICK order \in Seq(DOMAIN before.nodes) : Inserting(order, nextId - before.nextId)
  BY <1>1 DEF Progress
<1>9. PICK done : done = nextId - before.nextId
  OBVIOUS
<1>10. /\ SameCache /\ call.stack = << >>
       /\ Ordered(order) /\ done \in 0..Len(order) /\ nextId = before.nextId + done
       /\ LeftCreated(call.created, order, done)
       /\ Lists(call.modified, WithStatus(before, "Modified"))
       /\ Lists(call.deleted, WithStatus(before, "Deleted"))
       /\ Maps(mapped, order, done)
       /\ FirstAssigned(call.assignedIds, order, done)
       /\ \A id \in DOMAIN records : records[id] = CreatedRow(order, id)
  BY <1>8, <1>9 DEF Inserting
<1>11. Len(order) \in Nat /\ done \in Nat /\ before.nextId \in Nat /\ before.nextId >= 1
  <2>1. Len(order) \in Nat
    BY <1>7, <1>10, OrderLists
  <2>2. before.nextId \in 1..(MaxId + 1)
    BY <1>7 DEF Stable, Whole
  <2> QED BY <1>10, <2>1, <2>2, DatabaseAssumption DEF DatabaseAssumption
<1>12. PICK list \in Seq(Change), table \in Table, assigned \in Seq(Assignment) :
           list = call.created /\ table = mapped /\ assigned = call.assignedIds
  BY <1>3
<1>13. /\ done + 1 \in 1..Len(order)
       /\ first = ChangeOf(before.nodes[order[done + 1]])
       /\ LeftCreated(Tail(call.created), order, done + 1)
  <2>1. LeftCreated(list, order, done) /\ list # << >>
    BY <1>1, <1>10, <1>12
  <2> QED BY <1>11, <1>12, <2>1, CreatedRest
<1>14. /\ first.id = before.nodes[order[done + 1]].id
       /\ first.parentId = before.nodes[order[done + 1]].parentId
       /\ first.payload = before.nodes[order[done + 1]].payload
  BY <1>13 DEF ChangeOf
<1> HIDE DEF entry, parentId, first, mapped
<1>15. parentId = ParentOf(order, done + 1)
  <2>1. PICK given, found : /\ given = first.parentId
                            /\ found = IF given \in DOMAIN table THEN table[given] ELSE given
    OBVIOUS
  <2>2. /\ Stable(before) /\ Ordered(order) /\ done \in Nat /\ done + 1 \in 1..Len(order)
        /\ Maps(table, order, done) /\ given = before.nodes[order[done + 1]].parentId
    BY <1>7, <1>10, <1>11, <1>12, <1>13, <1>14, <2>1
  <2>3. found = IF given \in DOMAIN table THEN table[given] ELSE given
    BY <2>1
  <2>4. found = ParentOf(order, done + 1)
    BY <2>2, <2>3, TableGivesParent
  <2>5. table = mapped
    BY <1>12
  <2> QED BY <2>1, <2>4, <2>5 DEF parentId
<1>16. PICK row : row = [parentId |-> parentId, payload |-> first.payload, deleted |-> FALSE]
  OBVIOUS
<1>17. row = CreatedRow(order, nextId)
  <2>1. nextId - before.nextId + 1 = done + 1 /\ ~(nextId < before.nextId)
    BY <1>10, <1>11
  <2> QED BY <1>14, <1>15, <1>16, <2>1 DEF CreatedRow
<1>18. ASSUME NEW id \in DOMAIN records'
       PROVE  records'[id] = CreatedRow(order, id)
  <2>1. nextId \notin DOMAIN records
    BY <1>1, <1>6
  <2>2. records' = Emplace(records, nextId, row)
    BY <1>1, <1>16
  <2>3. id \in DOMAIN records \/ id = nextId
    BY <2>2 DEF Emplace
  <2>4. CASE id \in DOMAIN records
    BY <1>10, <2>2, <2>4 DEF Emplace
  <2>5. CASE id = nextId
    BY <1>17, <2>1, <2>2, <2>5 DEF Emplace
  <2> QED BY <2>3, <2>4, <2>5
<1>19. entry = AssignmentOf(order, done + 1)
  <2>1. before.nextId + (done + 1) - 1 = nextId
    BY <1>10, <1>11
  <2> QED BY <1>14, <2>1 DEF AssignmentOf, entry
<1>20. FirstAssigned(Append(call.assignedIds, entry), order, done + 1)
  <2>1. FirstAssigned(assigned, order, done)
    BY <1>10, <1>12
  <2>2. PICK one \in Assignment : one = entry
    BY <1>6
  <2>3. FirstAssigned(Append(assigned, one), order, done + 1)
    BY <1>11, <1>19, <2>1, <2>2, AssignedOneMore
  <2> QED BY <1>12, <2>2, <2>3
<1>21. Emplace(mapped, first.id, nextId) \in Table
       /\ Append(call.assignedIds, entry) \in Seq(Assignment)
  BY <1>3, <1>5, <1>6, EmplaceType, AppendProperties
<1>22. Maps(Emplace(mapped, first.id, nextId), order, done + 1)
  <2>1. PICK grown : grown = Emplace(table, first.id, before.nextId + done)
    OBVIOUS
  <2>2. PICK key : key = first.id
    OBVIOUS
  <2>3. Maps(table, order, done) /\ key = before.nodes[order[done + 1]].id
        /\ grown = Emplace(table, key, before.nextId + done)
    BY <1>10, <1>12, <1>14, <2>1, <2>2
  <2>4. Maps(grown, order, done + 1)
    BY <1>7, <1>10, <1>11, <1>13, <2>3, MapsOneMore
  <2> QED BY <1>10, <1>12, <2>1, <2>4
<1>23. PICK table2 \in Table, created2 \in Seq(Change), assigned2 \in Seq(Assignment) :
           /\ table2 = Emplace(mapped, first.id, nextId) /\ created2 = Tail(call.created)
           /\ assigned2 = Append(call.assignedIds, entry)
  BY <1>4, <1>21
<1>24. /\ call'.at = "insert" /\ call'.created = created2 /\ call'.assignedIds = assigned2
       /\ call'.temporaryToPersistent = table2
       /\ call'.stack = << >>
       /\ call'.modified = call.modified /\ call'.deleted = call.deleted
  <2>1. call' = WithInserted(call, table2, assigned2, created2)
    BY <1>2, <1>23
  <2> QED BY <1>1, <1>10, <2>1, InsertedFields
<1>25. nextId' = before'.nextId + (done + 1) /\ nextId' - before'.nextId = done + 1
  <2>1. PICK start \in Nat : start = before.nextId
    BY <1>11
  <2>2. before'.nextId = start /\ nextId' = (start + done) + 1
    BY <1>1, <1>10, <2>1
  <2>3. PICK now, was : now = nextId' /\ was = before'.nextId
    OBVIOUS
  <2>4. now = (start + done) + 1 /\ was = start
    BY <2>2, <2>3
  <2>5. now = was + (done + 1) /\ now - was = done + 1
    BY <1>11, <2>4
  <2> QED BY <2>3, <2>5
<1>26. Inserting(order, done + 1)'
  <2>1. SameCache'
    BY <1>1, <1>10 DEF SameCache, Now
  <2>2. Ordered(order)' /\ (\A id \in DOMAIN records : records[id] = CreatedRow(order, id))'
    BY <1>1, <1>10, <1>18, RowsStay
  <2>3. done + 1 \in 0..Len(order) /\ nextId' = before'.nextId + (done + 1)
    BY <1>11, <1>13, <1>25
  <2>4. (Lists(call.modified, WithStatus(before, "Modified"))
         /\ Lists(call.deleted, WithStatus(before, "Deleted")))'
    <3>1. /\ WithStatus(before, "Modified")' = WithStatus(before, "Modified")
          /\ WithStatus(before, "Deleted")' = WithStatus(before, "Deleted")
      BY <1>1, RowsStay
    <3> QED BY <1>1, <1>10, <1>24, <3>1 DEF Lists
  <2>5. LeftCreated(created2, order, done + 1)' /\ Maps(table2, order, done + 1)'
    BY <1>1, <1>13, <1>22, <1>23 DEF LeftCreated, Maps
  <2>6. FirstAssigned(assigned2, order, done + 1)'
    BY <1>1, <1>20, <1>23, RowsStay DEF FirstAssigned
  <2>7. (LeftCreated(call.created, order, done + 1) /\ Maps(call.temporaryToPersistent, order, done + 1)
         /\ FirstAssigned(call.assignedIds, order, done + 1))'
    BY <1>24, <2>5, <2>6
  <2> QED BY <1>24, <2>1, <2>2, <2>3, <2>4, <2>7 DEF Inserting
<1>27. Progress'
  <2>1. order \in Seq(DOMAIN before'.nodes) /\ nextId' - before'.nextId = done + 1
    BY <1>1, <1>8, <1>25
  <2> QED BY <1>24, <1>26, <2>1 DEF Progress
<1> QED BY <1>1, <1>24, <1>27, Continues

-----------------------------------------------------------------------------
(***************************************************************************)
(* apply changes the texts.                                                *)
(***************************************************************************)
\* What ParentOf may be.
LEMMA ParentCases ==
    ASSUME Stable(before), NEW order, Ordered(order), NEW i \in 1..Len(order), NEW given,
           given = before.nodes[order[i]].parentId
    PROVE  \/ /\ ParentOf(order, i) = given
              /\ \A j \in 1..(i - 1) : before.nodes[order[j]].id # given
           \/ \E j \in 1..(i - 1) : /\ before.nodes[order[j]].id = given
                                    /\ ParentOf(order, i) = before.nextId + j - 1
<1>1. /\ Len(order) \in Nat
      /\ \A j, k \in 1..Len(order) :
            before.nodes[order[j]].id = before.nodes[order[k]].id => j = k
  BY OrderLists
<1>2. PICK earlier : earlier = {j \in 1..(i - 1) : before.nodes[order[j]].id = given}
  OBVIOUS
<1>3. ParentOf(order, i) =
          IF earlier = {} THEN given
          ELSE before.nextId + (CHOOSE j \in earlier : \A k \in earlier : j <= k) - 1
  BY <1>2 DEF ParentOf
<1>4. CASE earlier = {}
  BY <1>2, <1>3, <1>4
<1>5. CASE earlier # {}
  <2>1. PICK j \in earlier : TRUE
    BY <1>5
  <2>2. j \in 1..(i - 1) /\ before.nodes[order[j]].id = given /\ \A k \in earlier : k = j
    <3>1. \A k \in 1..(i - 1) : k \in 1..Len(order)
      BY <1>1
    <3> QED BY <1>1, <1>2, <2>1, <3>1
  <2>3. (CHOOSE k \in earlier : \A l \in earlier : k <= l) = j
    BY <2>1, <2>2
  <2> QED BY <1>3, <1>5, <2>2, <2>3
<1> QED BY <1>4, <1>5

LEMMA CreatedIsRecord ==
    ASSUME Stable(before), NEW order, Ordered(order),
           NEW next, next = before.nextId + Len(order), NEW id \in 1..(next - 1)
    PROVE  CreatedRow(order, id) \in Record
<1>1. /\ before.nextId \in 1..(MaxId + 1) /\ before.nodes \in Seq(Node)
      /\ before.records \in [1..(before.nextId - 1) -> Record]
  BY DEF Stable, Whole
<1>2. before.nextId \in Nat /\ before.nextId >= 1 /\ id \in Nat /\ id >= 1
  BY <1>1, DatabaseAssumption DEF DatabaseAssumption
<1>3. CASE id < before.nextId
  <2>1. id \in 1..(before.nextId - 1)
    BY <1>2, <1>3
  <2> QED BY <1>1, <1>3, <2>1 DEF CreatedRow
<1>4. CASE ~(id < before.nextId)
  <2>1. PICK i : i = id - before.nextId + 1
    OBVIOUS
  <2>2. /\ Len(order) \in Nat
        /\ \A k \in 1..Len(order) : order[k] \in DOMAIN before.nodes
    BY OrderLists
  <2>3. i \in 1..Len(order)
    BY <1>2, <1>4, <2>1, <2>2
  <2>4. PICK n \in Node : n = before.nodes[order[i]]
    BY <1>1, <2>2, <2>3, ElementOfSeq
  <2>5. n.parentId \in Nat /\ n.payload \in Payload
    BY <2>4 DEF Node
  <2>6. ParentOf(order, i) \in Nat
    <3>1. CASE ParentOf(order, i) = n.parentId
      BY <2>5, <3>1
    <3>2. CASE \E j \in 1..(i - 1) : ParentOf(order, i) = before.nextId + j - 1
      BY <1>2, <2>3, <3>2
    <3> QED BY <2>3, <2>4, <3>1, <3>2, ParentCases
  <2>7. CreatedRow(order, id) = [parentId |-> ParentOf(order, i), payload |-> n.payload,
                                 deleted |-> FALSE]
    BY <1>4, <2>1, <2>4 DEF CreatedRow
  <2> QED BY <2>5, <2>6, <2>7 DEF Record
<1> QED BY <1>3, <1>4

\* The insertions are over.
LEMMA ProceedsToModify ==
    ASSUME CallsInv, Stable(Seen), Progress, call.at = "insert", call.created = << >>,
           call' = [call EXCEPT !.at = "modify"], UNCHANGED <<cacheVars, dbVars, before>>
    PROVE  Stable(Seen)' /\ Progress' /\ UNCHANGED Atomic!vars
<1>1. /\ UNCHANGED <<objects, rootList, index, nextTemporaryId, records, nextId, before>>
      /\ call \in Frame
  BY DEF cacheVars, dbVars, CallsInv, Typed
<1>2. PICK order \in Seq(DOMAIN before.nodes) : Inserting(order, nextId - before.nextId)
  BY DEF Progress
<1>3. PICK done : done = nextId - before.nextId
  OBVIOUS
<1>4. /\ SameCache /\ call.stack = << >> /\ Ordered(order)
      /\ done \in 0..Len(order) /\ nextId = before.nextId + done
      /\ LeftCreated(call.created, order, done)
      /\ Lists(call.modified, WithStatus(before, "Modified"))
      /\ Lists(call.deleted, WithStatus(before, "Deleted"))
      /\ FirstAssigned(call.assignedIds, order, done)
      /\ \A id \in DOMAIN records : records[id] = CreatedRow(order, id)
  BY <1>2, <1>3 DEF Inserting
<1>5. Stable(before)
  BY SeenInside
<1>6. Len(order) \in Nat /\ done = Len(order)
  <2>1. Len(order) \in Nat
    BY <1>4, <1>5, OrderLists
  <2>2. Len(call.created) = 0 /\ Len(call.created) = Len(order) - done
    BY <1>4 DEF LeftCreated
  <2> QED BY <1>4, <2>1, <2>2
<1>7. /\ call'.at = "modify" /\ call'.stack = << >>
      /\ call'.modified = call.modified /\ call'.deleted = call.deleted
      /\ call'.assignedIds = call.assignedIds
  BY <1>1, <1>4, PlaceOnly
<1>8. LeftAssigned(call.assignedIds, order, 0)
  <2>1. Len(order) - 0 = Len(order) /\ \A i \in 1..Len(order) : 0 + i = i
    BY <1>6
  <2> QED BY <1>4, <1>6, <2>1 DEF FirstAssigned, LeftAssigned
<1>9. ASSUME NEW id \in DOMAIN records
      PROVE  \/ records[id] = ModifiedRow(order, id)
             \/ /\ records[id] = CreatedRow(order, id)
                /\ \E i \in DOMAIN call.modified : call.modified[i].id = id
  <2>1. CASE id \in IdsWith("Modified")
    <3>1. PICK h \in WithStatus(before, "Modified") : before.nodes[h].id = id
      BY <2>1 DEF IdsWith
    <3>2. PICK i \in DOMAIN call.modified : call.modified[i] = ChangeOf(before.nodes[h])
      BY <1>4, <3>1 DEF Lists
    <3>3. call.modified[i].id = id
      BY <3>1, <3>2 DEF ChangeOf
    <3> QED BY <1>4, <3>3
  <2>2. CASE id \notin IdsWith("Modified")
    BY <1>4, <2>2 DEF ModifiedRow
  <2> QED BY <2>1, <2>2
<1>10. Modifying(order)'
  <2>1. SameCache'
    BY <1>1, <1>4 DEF SameCache, Now
  <2>2. Inserted(order)'
    <3>1. Ordered(order)' /\ nextId' = before'.nextId + Len(order)
      BY <1>1, <1>4, <1>6, RowsStay
    <3>2. LeftAssigned(call.assignedIds, order, 0)'
      BY <1>1, <1>7, <1>8, RowsStay DEF LeftAssigned
    <3> QED BY <3>1, <3>2 DEF Inserted
  <2>3. /\ WithStatus(before, "Modified")' = WithStatus(before, "Modified")
        /\ WithStatus(before, "Deleted")' = WithStatus(before, "Deleted")
    BY <1>1, RowsStay
  <2>4. /\ \A i \in DOMAIN call'.modified : \E h \in WithStatus(before, "Modified")' :
              call'.modified[i] = ChangeOf(before'.nodes[h])
        /\ Lists(call.deleted, WithStatus(before, "Deleted"))'
    BY <1>1, <1>4, <1>7, <2>3 DEF Lists
  <2>5. \A id \in DOMAIN records' :
            \/ records'[id] = ModifiedRow(order, id)'
            \/ /\ records'[id] = CreatedRow(order, id)'
               /\ \E i \in DOMAIN call'.modified : call'.modified[i].id = id
    BY <1>1, <1>7, <1>9, RowsStay
  <2> QED BY <1>7, <2>1, <2>2, <2>4, <2>5 DEF Modifying
<1>11. Progress'
  BY <1>1, <1>2, <1>7, <1>10 DEF Progress
<1> QED BY <1>1, <1>7, <1>11, Continues

\* A row that gets its text again.
LEMMA TextTwice ==
    ASSUME NEW row \in Record, NEW text \in Payload, NEW target,
           target = IF ~row.deleted THEN [row EXCEPT !.payload = text] ELSE row,
           NEW old \in {row, target}
    PROVE  (IF ~old.deleted THEN [old EXCEPT !.payload = text] ELSE old) = target
BY DEF Record

LEMMA ModifiedText ==
    ASSUME Stable(before), NEW h \in WithStatus(before, "Modified")
    PROVE  TextFor(before.nodes[h].id) = before.nodes[h].payload
<1>1. \A g \in WithStatus(before, "Modified") :
          before.nodes[g].id = before.nodes[h].id => g = h
  BY DistinctIds DEF WithStatus
<1>2. (CHOOSE g \in WithStatus(before, "Modified") : before.nodes[g].id = before.nodes[h].id) = h
  BY <1>1
<1> QED BY <1>2 DEF TextFor

LEMMA ModifyFields ==
    ASSUME NEW c \in Frame, NEW d, NEW mo \in Seq(Change), d = [c EXCEPT !.modified = mo]
    PROVE  /\ d.at = c.at /\ d.stack = c.stack /\ d.modified = mo /\ d.deleted = c.deleted
           /\ d.assignedIds = c.assignedIds
BY DEF Frame

LEMMA ModifyContinues ==
    ASSUME CallsInv, Stable(Seen), Progress, ModifyRecord
    PROVE  Stable(Seen)' /\ Progress' /\ UNCHANGED Atomic!vars
<1> DEFINE first == Head(call.modified)
<1>1. /\ UNCHANGED <<objects, rootList, index, nextTemporaryId, nextId, before>>
      /\ call.at = "modify" /\ call.modified # << >> /\ call \in Frame
      /\ call' = [call EXCEPT !.modified = Tail(call.modified)]
      /\ records \in [1..(nextId - 1) -> Record]
  BY DEF ModifyRecord, cacheVars, CallsInv, Typed, DbTypeOK
<1>2. PICK list \in Seq(Change) : list = call.modified
  BY <1>1 DEF Frame
<1>3. PICK rest : rest = Tail(list)
  OBVIOUS
<1>4. /\ rest \in Seq(Change) /\ 1 \in DOMAIN list /\ first = list[1] /\ first \in Change
      /\ \A i \in DOMAIN rest : i + 1 \in DOMAIN list /\ rest[i] = list[i + 1]
      /\ \A i \in DOMAIN list : i # 1 => \E k \in DOMAIN rest : i = k + 1
  <2>1. /\ rest \in Seq(Change) /\ 1 \in DOMAIN list /\ Head(list) = list[1]
        /\ Head(list) \in Change
        /\ \A i \in DOMAIN rest : i + 1 \in DOMAIN list /\ rest[i] = list[i + 1]
    BY <1>1, <1>2, <1>3, RestOf
  <2>2. Len(list) \in Nat /\ Len(list) # 0 /\ Len(rest) = Len(list) - 1
    BY <1>1, <1>2, <1>3, EmptySeq, HeadTailProperties
  <2>3. ASSUME NEW i \in DOMAIN list, i # 1
        PROVE  \E k \in DOMAIN rest : i = k + 1
    <3>1. DOMAIN list = 1..Len(list) /\ DOMAIN rest = 1..Len(rest)
      BY <2>1
    <3>2. i - 1 \in DOMAIN rest /\ i = (i - 1) + 1
      BY <2>2, <2>3, <3>1
    <3> QED BY <3>2
  <2> QED BY <1>2, <2>1, <2>3
<1>5. Stable(before)
  BY <1>1, SeenInside
<1>6. PICK order \in Seq(DOMAIN before.nodes) : Modifying(order)
  BY <1>1 DEF Progress
<1>7. /\ SameCache /\ call.stack = << >> /\ Inserted(order)
      /\ \A i \in DOMAIN list :
            \E h \in WithStatus(before, "Modified") : list[i] = ChangeOf(before.nodes[h])
      /\ Lists(call.deleted, WithStatus(before, "Deleted"))
      /\ \A id \in DOMAIN records :
            \/ records[id] = ModifiedRow(order, id)
            \/ /\ records[id] = CreatedRow(order, id)
               /\ \E i \in DOMAIN list : list[i].id = id
  BY <1>2, <1>6 DEF Modifying
<1>8. /\ call'.at = "modify" /\ call'.stack = << >> /\ call'.modified = rest
      /\ call'.deleted = call.deleted /\ call'.assignedIds = call.assignedIds
  <2>1. PICK tail \in Seq(Change) : tail = rest
    BY <1>4
  <2>2. call \in Frame /\ call' = [call EXCEPT !.modified = tail]
    BY <1>1, <1>2, <1>3, <2>1
  <2>3. /\ call'.at = call.at /\ call'.stack = call.stack /\ call'.modified = tail
        /\ call'.deleted = call.deleted /\ call'.assignedIds = call.assignedIds
    BY <2>2, ModifyFields
  <2> QED BY <1>1, <1>7, <2>1, <2>3
<1>9. PICK h \in WithStatus(before, "Modified") : first = ChangeOf(before.nodes[h])
  BY <1>4, <1>7
<1>10. PICK key, text : key = first.id /\ text = first.payload
  OBVIOUS
<1>11. /\ key = before.nodes[h].id /\ text = before.nodes[h].payload /\ text \in Payload
       /\ key \in IdsWith("Modified") /\ TextFor(key) = text
  <2>1. key = before.nodes[h].id /\ text = before.nodes[h].payload /\ text \in Payload
    BY <1>4, <1>9, <1>10 DEF ChangeOf, Change
  <2>2. TextFor(before.nodes[h].id) = before.nodes[h].payload
    BY <1>5, ModifiedText
  <2> QED BY <2>1, <2>2 DEF IdsWith
<1>12. records' = IF key \in DOMAIN records /\ ~records[key].deleted
                  THEN [records EXCEPT ![key].payload = text] ELSE records
  BY <1>10 DEF ModifyRecord
<1> HIDE DEF first
<1>13. DOMAIN records' = DOMAIN records
       /\ \A id \in DOMAIN records : id # key => records'[id] = records[id]
  BY <1>12
<1>14. ASSUME key \in DOMAIN records
       PROVE  records'[key] = ModifiedRow(order, key)
  <2>1. PICK row : row = CreatedRow(order, key)
    OBVIOUS
  <2>2. row \in Record
    <3>1. Ordered(order) /\ nextId = before.nextId + Len(order) /\ key \in 1..(nextId - 1)
      BY <1>1, <1>7, <1>14 DEF Inserted
    <3> QED BY <1>5, <2>1, <3>1, CreatedIsRecord
  <2>3. ModifiedRow(order, key) = IF ~row.deleted THEN [row EXCEPT !.payload = text] ELSE row
    BY <1>11, <2>1 DEF ModifiedRow
  <2>4. PICK target : target = ModifiedRow(order, key)
    OBVIOUS
  <2>5. PICK old : old = records[key]
    OBVIOUS
  <2>6. old \in {row, target}
    BY <1>7, <1>14, <2>1, <2>4, <2>5
  <2>7. (IF ~old.deleted THEN [old EXCEPT !.payload = text] ELSE old) = target
    BY <1>11, <2>2, <2>3, <2>4, <2>6, TextTwice
  <2>8. records'[key] = IF ~old.deleted THEN [old EXCEPT !.payload = text] ELSE old
    BY <1>12, <1>14, <2>5
  <2> QED BY <2>4, <2>7, <2>8
<1>15. ASSUME NEW id \in DOMAIN records
       PROVE  \/ records'[id] = ModifiedRow(order, id)
              \/ /\ records'[id] = CreatedRow(order, id)
                 /\ \E i \in DOMAIN rest : rest[i].id = id
  <2>1. CASE id = key
    BY <1>14, <2>1
  <2>2. CASE id # key
    <3>1. CASE records[id] = ModifiedRow(order, id)
      BY <1>13, <2>2, <3>1
    <3>2. CASE records[id] = CreatedRow(order, id) /\ \E i \in DOMAIN list : list[i].id = id
      <4>1. PICK i \in DOMAIN list : list[i].id = id
        BY <3>2
      <4>2. i # 1
        BY <1>4, <1>10, <2>2, <4>1
      <4>3. PICK k \in DOMAIN rest : i = k + 1
        BY <1>4, <4>2
      <4> QED BY <1>4, <1>13, <2>2, <3>2, <4>1, <4>3
    <3> QED BY <1>7, <3>1, <3>2
  <2> QED BY <2>1, <2>2
<1>16. Modifying(order)'
  <2>1. SameCache'
    BY <1>1, <1>7 DEF SameCache, Now
  <2>2. Inserted(order)'
    <3>1. Ordered(order)' /\ nextId' = before'.nextId + Len(order)
      BY <1>1, <1>7, RowsStay DEF Inserted
    <3>2. LeftAssigned(call.assignedIds, order, 0)'
      BY <1>1, <1>7, <1>8, RowsStay DEF Inserted, LeftAssigned
    <3> QED BY <3>1, <3>2 DEF Inserted
  <2>3. /\ WithStatus(before, "Modified")' = WithStatus(before, "Modified")
        /\ WithStatus(before, "Deleted")' = WithStatus(before, "Deleted")
    BY <1>1, RowsStay
  <2>4. /\ \A i \in DOMAIN call'.modified : \E g \in WithStatus(before, "Modified")' :
              call'.modified[i] = ChangeOf(before'.nodes[g])
        /\ Lists(call.deleted, WithStatus(before, "Deleted"))'
    <3>1. \A i \in DOMAIN rest :
              \E g \in WithStatus(before, "Modified") : rest[i] = ChangeOf(before.nodes[g])
      BY <1>4, <1>7
    <3>2. Lists(call.deleted, WithStatus(before, "Deleted"))'
      BY <1>1, <1>7, <1>8, <2>3 DEF Lists
    <3> QED BY <1>1, <1>8, <2>3, <3>1, <3>2
  <2>5. \A id \in DOMAIN records' :
            \/ records'[id] = ModifiedRow(order, id)'
            \/ /\ records'[id] = CreatedRow(order, id)'
               /\ \E i \in DOMAIN call'.modified : call'.modified[i].id = id
    <3>1. \A id : /\ ModifiedRow(order, id)' = ModifiedRow(order, id)
                  /\ CreatedRow(order, id)' = CreatedRow(order, id)
      BY <1>1, RowsStay
    <3> QED BY <1>8, <1>13, <1>15, <3>1
  <2> QED BY <1>8, <2>1, <2>2, <2>4, <2>5 DEF Modifying
<1>17. Progress'
  BY <1>1, <1>6, <1>8, <1>16 DEF Progress
<1> QED BY <1>1, <1>8, <1>17, Continues

-----------------------------------------------------------------------------
(***************************************************************************)
(* apply marks the records.                                                *)
(***************************************************************************)
LEMMA MarkedRows ==
    ASSUME NEW row \in Record
    PROVE  /\ \A doomed : doomed = FALSE => [row EXCEPT !.deleted = @ \/ doomed] = row
           /\ \A one, two \in BOOLEAN :
                 [row EXCEPT !.deleted = @ \/ (one \/ two)] =
                    [[row EXCEPT !.deleted = @ \/ one] EXCEPT !.deleted = @ \/ two]
           /\ [row EXCEPT !.deleted = TRUE] = [row EXCEPT !.deleted = @ \/ TRUE]
BY DEF Record

LEMMA ProceedsToDelete ==
    ASSUME CallsInv, Stable(Seen), Progress, call.at = "modify", call.modified = << >>,
           call' = [call EXCEPT !.at = "delete"], UNCHANGED <<cacheVars, dbVars, before>>
    PROVE  Stable(Seen)' /\ Progress' /\ UNCHANGED Atomic!vars
<1>1. /\ UNCHANGED <<objects, rootList, index, nextTemporaryId, records, nextId, before>>
      /\ call \in Frame /\ records \in [1..(nextId - 1) -> Record]
  BY DEF cacheVars, dbVars, CallsInv, Typed, DbTypeOK
<1>2. PICK order \in Seq(DOMAIN before.nodes) : Modifying(order)
  BY DEF Progress
<1>3. /\ SameCache /\ call.stack = << >> /\ Inserted(order)
      /\ Lists(call.deleted, WithStatus(before, "Deleted"))
      /\ \A id \in DOMAIN records : records[id] = ModifiedRow(order, id)
  BY <1>2 DEF Modifying
<1>4. /\ call'.at = "delete" /\ call'.stack = << >> /\ call'.deleted = call.deleted
      /\ call'.assignedIds = call.assignedIds
  BY <1>1, <1>3, PlaceOnly
<1>5. \A id \in DOMAIN records : records[id] = DeletedRow(order, {}, id)
  <2>1. ASSUME NEW id \in DOMAIN records
        PROVE  records[id] = DeletedRow(order, {}, id)
    <3>1. PICK row \in Record : row = ModifiedRow(order, id)
      BY <1>1, <1>3
    <3>2. [row EXCEPT !.deleted = @ \/ FALSE] = row
      BY MarkedRows
    <3>3. id \in {} <=> FALSE
      OBVIOUS
    <3> QED BY <1>3, <3>1, <3>2, <3>3 DEF DeletedRow
  <2> QED BY <2>1
<1>6. IdsOf(call.deleted) = IdsWith("Deleted")
  <2>1. ASSUME NEW i \in DOMAIN call.deleted
        PROVE  call.deleted[i].id \in IdsWith("Deleted")
    <3>1. PICK h \in WithStatus(before, "Deleted") : call.deleted[i] = ChangeOf(before.nodes[h])
      BY <1>3 DEF Lists
    <3> QED BY <3>1 DEF IdsWith, ChangeOf
  <2>2. ASSUME NEW id \in IdsWith("Deleted")
        PROVE  id \in IdsOf(call.deleted)
    <3>1. PICK h \in WithStatus(before, "Deleted") : before.nodes[h].id = id
      BY DEF IdsWith
    <3>2. PICK i \in DOMAIN call.deleted : call.deleted[i] = ChangeOf(before.nodes[h])
      BY <1>3 DEF Lists
    <3> QED BY <3>1, <3>2 DEF ChangeOf, IdsOf
  <2> QED BY <2>1, <2>2 DEF IdsOf
<1>7. IdsWith("Deleted")' = IdsWith("Deleted")
  BY <1>1, RowsStay DEF IdsWith
<1>8. Deleting(order, {})'
  <2>1. SameCache'
    BY <1>1, <1>3 DEF SameCache, Now
  <2>2. Inserted(order)'
    <3>1. Ordered(order)' /\ nextId' = before'.nextId + Len(order)
      BY <1>1, <1>3, RowsStay DEF Inserted
    <3>2. LeftAssigned(call.assignedIds, order, 0)'
      BY <1>1, <1>3, <1>4, RowsStay DEF Inserted, LeftAssigned
    <3> QED BY <3>1, <3>2 DEF Inserted
  <2>3. IdsOf(call'.deleted) = IdsWith("Deleted")'
    BY <1>4, <1>6, <1>7
  <2>4. \A id \in DOMAIN records' : records'[id] = DeletedRow(order, {}, id)'
    BY <1>1, <1>5, RowsStay
  <2>5. Elements(call'.stack) = {}
    BY <1>4 DEF Elements
  <2>6. Reached(records, IdsWith("Deleted"), {}, Elements(call.stack), IdsOf(call.deleted))'
    BY <2>3, <2>5 DEF Reached
  <2> QED BY <2>1, <2>2, <2>3, <2>4, <2>6 DEF Deleting
<1>9. Progress'
  <2>1. {} \in SUBSET DOMAIN records' /\ order \in Seq(DOMAIN before'.nodes)
    BY <1>1, <1>2
  <2> QED BY <1>4, <1>8, <2>1 DEF Progress
<1> QED BY <1>1, <1>4, <1>9, Continues

LEMMA ReachedNext ==
    ASSUME NEW rows, NEW ids, NEW marked, NEW waiting, NEW x \in ids, NEW others,
           waiting \subseteq others \cup {x}, Reached(rows, ids, marked, {}, waiting)
    PROVE  Reached(rows, ids, marked, {x}, others)
<1>1. PICK up : up = ParentIn(rows)
  OBVIOUS
<1>2. x \in DOMAIN rows => x \in Below(up, ids)
  BY <1>1 DEF ParentIn, Below, ClosedAbove
<1> QED BY <1>1, <1>2 DEF Reached

LEMMA ReachedPops ==
    ASSUME NEW rows, NEW ids, NEW marked, NEW rest, NEW waiting, NEW x, x \notin DOMAIN rows,
           Reached(rows, ids, marked, {x} \cup rest, waiting)
    PROVE  Reached(rows, ids, marked, rest, waiting)
BY DEF Reached

LEMMA ReachedMarks ==
    ASSUME NEW rows, NEW ids, NEW marked, NEW rest, NEW waiting, NEW x \in DOMAIN rows,
           Reached(rows, ids, marked, {x} \cup rest, waiting),
           NEW kids, kids = {c \in DOMAIN rows : rows[c].parentId = x},
           NEW rows2, DOMAIN rows2 = DOMAIN rows,
           \A c \in DOMAIN rows : rows2[c].parentId = rows[c].parentId
    PROVE  Reached(rows2, ids, marked \cup {x}, kids \cup rest, waiting)
<1>1. PICK up : up = ParentIn(rows)
  OBVIOUS
<1>2. ParentIn(rows2) = up
  BY <1>1 DEF ParentIn
<1>3. x \in Below(up, ids)
  BY <1>1 DEF Reached
<1>4. DOMAIN up = DOMAIN rows /\ \A c \in kids : c \in DOMAIN up /\ up[c] = x
  BY <1>1 DEF ParentIn
<1>5. kids \subseteq Below(up, ids)
  BY <1>3, <1>4, BelowClosed
<1>6. (marked \cup {x} \cup rest) \cap DOMAIN rows \subseteq Below(up, ids)
  BY <1>1 DEF Reached
<1> QED BY <1>2, <1>5, <1>6 DEF Reached

LEMMA ReachedAll ==
    ASSUME NEW rows, NEW ids, NEW marked, Reached(rows, ids, marked, {}, {})
    PROVE  marked = Below(ParentIn(rows), ids)
<1>1. PICK up : up = ParentIn(rows)
  OBVIOUS
<1>2. DOMAIN up = DOMAIN rows /\ \A c \in DOMAIN up : up[c] = rows[c].parentId
  BY <1>1 DEF ParentIn
<1>3. Below(up, ids) \subseteq marked
  BY <1>2, BelowLeast DEF Reached
<1>4. marked \subseteq Below(up, ids)
  BY <1>1 DEF Reached
<1> QED BY <1>1, <1>3, <1>4

WithRest(c, s, de) == [c EXCEPT !.stack = s, !.deleted = de]

LEMMA DeletedFields ==
    ASSUME NEW c \in Frame, NEW d, NEW de \in Seq(Change), NEW s \in Seq(Nat),
           d = WithRest(c, s, de)
    PROVE  d.at = c.at /\ d.stack = s /\ d.deleted = de /\ d.assignedIds = c.assignedIds
BY DEF Frame, WithRest

LEMMA InsertedStays ==
    ASSUME NEW order, Inserted(order), UNCHANGED <<before, nextId>>,
           call'.assignedIds = call.assignedIds
    PROVE  Inserted(order)'
<1>1. Ordered(order)' /\ nextId' = before'.nextId + Len(order)
  BY RowsStay DEF Inserted
<1>2. LeftAssigned(call.assignedIds, order, 0)'
  BY RowsStay DEF Inserted, LeftAssigned
<1> QED BY <1>1, <1>2 DEF Inserted

LEMMA DeleteNextContinues ==
    ASSUME CallsInv, Stable(Seen), Progress, DeleteNext
    PROVE  Stable(Seen)' /\ Progress' /\ UNCHANGED Atomic!vars
<1>1. /\ UNCHANGED <<objects, rootList, index, nextTemporaryId, records, nextId, before>>
      /\ call.at = "delete" /\ call.stack = << >> /\ call.deleted # << >> /\ call \in Frame
  BY DEF DeleteNext, cacheVars, dbVars, CallsInv, Typed
<1>2. PICK list \in Seq(Change) : list = call.deleted
  BY <1>1 DEF Frame
<1>3. PICK rest, x : rest = Tail(list) /\ x = Head(list).id
  OBVIOUS
<1>4. /\ rest \in Seq(Change) /\ 1 \in DOMAIN list /\ x = list[1].id /\ x \in Nat
      /\ \A i \in DOMAIN rest : i + 1 \in DOMAIN list /\ rest[i] = list[i + 1]
      /\ \A i \in DOMAIN list : i # 1 => \E k \in DOMAIN rest : i = k + 1
  <2>1. /\ rest \in Seq(Change) /\ 1 \in DOMAIN list /\ Head(list) = list[1]
        /\ Head(list) \in Change
        /\ \A i \in DOMAIN rest : i + 1 \in DOMAIN list /\ rest[i] = list[i + 1]
    BY <1>1, <1>2, <1>3, RestOf
  <2>2. Len(list) \in Nat /\ Len(list) # 0 /\ Len(rest) = Len(list) - 1
    BY <1>1, <1>2, <1>3, EmptySeq, HeadTailProperties
  <2>3. ASSUME NEW i \in DOMAIN list, i # 1
        PROVE  \E k \in DOMAIN rest : i = k + 1
    <3>1. DOMAIN list = 1..Len(list) /\ DOMAIN rest = 1..Len(rest)
      BY <2>1
    <3>2. i - 1 \in DOMAIN rest /\ i = (i - 1) + 1
      BY <2>2, <2>3, <3>1
    <3> QED BY <3>2
  <2>4. x \in Nat
    BY <1>3, <2>1 DEF Change
  <2> QED BY <1>3, <2>1, <2>3, <2>4
<1>5. IdsOf(list) = IdsOf(rest) \cup {x}
  <2>1. ASSUME NEW i \in DOMAIN list
        PROVE  list[i].id \in IdsOf(rest) \cup {x}
    <3>1. CASE i = 1
      BY <1>4, <3>1
    <3>2. CASE i # 1
      <4>1. PICK k \in DOMAIN rest : i = k + 1
        BY <1>4, <3>2
      <4>2. rest[k] = list[i]
        BY <1>4, <4>1
      <4> QED BY <4>2 DEF IdsOf
    <3> QED BY <3>1, <3>2
  <2>2. ASSUME NEW i \in DOMAIN rest
        PROVE  rest[i].id \in IdsOf(list)
    BY <1>4 DEF IdsOf
  <2>3. x \in IdsOf(list)
    BY <1>4 DEF IdsOf
  <2> QED BY <2>1, <2>2, <2>3 DEF IdsOf
<1>6. PICK order \in Seq(DOMAIN before.nodes), marked \in SUBSET DOMAIN records :
          Deleting(order, marked)
  BY <1>1 DEF Progress
<1>7. /\ SameCache /\ Inserted(order)
      /\ IdsOf(list) \subseteq IdsWith("Deleted")
      /\ \A id \in DOMAIN records : records[id] = DeletedRow(order, marked, id)
      /\ Reached(records, IdsWith("Deleted"), marked, {}, IdsOf(list))
  <2>1. Elements(call.stack) = {}
    BY <1>1 DEF Elements
  <2> QED BY <1>2, <1>6, <2>1 DEF Deleting
<1>8. /\ call'.at = "delete" /\ call'.stack = <<x>> /\ call'.deleted = rest
      /\ call'.assignedIds = call.assignedIds
  <2>4. <<x>> \in Seq(Nat)
    BY <1>4
  <2>1. PICK tail \in Seq(Change), s \in Seq(Nat) : tail = rest /\ s = <<x>>
    BY <1>4, <2>4
  <2>5. PICK next : next = call'
    OBVIOUS
  <2>2. call \in Frame /\ next = WithRest(call, s, tail)
    BY <1>1, <1>2, <1>3, <2>1, <2>5 DEF DeleteNext, WithRest
  <2>3. /\ next.at = call.at /\ next.stack = s /\ next.deleted = tail
        /\ next.assignedIds = call.assignedIds
    BY <2>2, DeletedFields
  <2> QED BY <1>1, <2>1, <2>3, <2>5
<1>9. Reached(records, IdsWith("Deleted"), marked, {x}, IdsOf(rest))
  <2>1. x \in IdsWith("Deleted")
    BY <1>5, <1>7
  <2> QED BY <1>5, <1>7, <2>1, ReachedNext
<1>10. Elements(<<x>>) = {x}
  <2>1. DOMAIN <<x>> = {1} /\ <<x>>[1] = x
    OBVIOUS
  <2> QED BY <2>1 DEF Elements
<1>11. Deleting(order, marked)'
  <2>1. SameCache'
    BY <1>1, <1>7 DEF SameCache, Now
  <2>2. Inserted(order)'
    BY <1>1, <1>7, <1>8, InsertedStays
  <2>3. IdsWith("Deleted")' = IdsWith("Deleted")
    BY <1>1, RowsStay DEF IdsWith
  <2>4. IdsOf(call'.deleted) \subseteq IdsWith("Deleted")'
    BY <1>5, <1>7, <1>8, <2>3
  <2>5. \A id \in DOMAIN records' : records'[id] = DeletedRow(order, marked, id)'
    BY <1>1, <1>7, RowsStay
  <2>6. Reached(records', IdsWith("Deleted")', marked, Elements(call'.stack), IdsOf(call'.deleted))
    BY <1>1, <1>8, <1>9, <1>10, <2>3
  <2> QED BY <2>1, <2>2, <2>4, <2>5, <2>6 DEF Deleting
<1>12. Progress'
  BY <1>1, <1>6, <1>8, <1>11 DEF Progress
<1> QED BY <1>1, <1>8, <1>12, Continues

LEMMA ModifiedIsRecord ==
    ASSUME Stable(before), NEW order, Ordered(order),
           NEW next, next = before.nextId + Len(order), NEW id \in 1..(next - 1)
    PROVE  ModifiedRow(order, id) \in Record
<1>1. PICK row \in Record : row = CreatedRow(order, id)
  BY CreatedIsRecord
<1>2. CASE id \in IdsWith("Modified") /\ ~row.deleted
  <2>1. PICK h \in WithStatus(before, "Modified") : before.nodes[h].id = id
    BY <1>2 DEF IdsWith
  <2>2. before.nodes \in Seq(Node) /\ h \in DOMAIN before.nodes
    BY DEF Stable, Whole, WithStatus
  <2>3. before.nodes[h] \in Node
    BY <2>2
  <2>4. TextFor(id) \in Payload
    BY <2>1, <2>3, ModifiedText DEF Node
  <2>5. ModifiedRow(order, id) = [row EXCEPT !.payload = TextFor(id)]
    BY <1>1, <1>2 DEF ModifiedRow
  <2> QED BY <2>4, <2>5 DEF Record
<1>3. CASE ~(id \in IdsWith("Modified") /\ ~row.deleted)
  BY <1>1, <1>3 DEF ModifiedRow
<1> QED BY <1>2, <1>3

LEMMA MarkedTwice ==
    ASSUME NEW row \in Record, NEW one \in BOOLEAN, NEW old,
           old = [row EXCEPT !.deleted = @ \/ one]
    PROVE  [old EXCEPT !.deleted = TRUE] = [row EXCEPT !.deleted = @ \/ TRUE]
BY DEF Record

LEMMA StackOnly ==
    ASSUME NEW c \in Frame, NEW d, NEW s \in Seq(Nat), d = [c EXCEPT !.stack = s]
    PROVE  d.at = c.at /\ d.stack = s /\ d.deleted = c.deleted /\ d.assignedIds = c.assignedIds
BY DEF Frame

LEMMA MarkRecordContinues ==
    ASSUME CallsInv, Stable(Seen), Progress, MarkRecord
    PROVE  Stable(Seen)' /\ Progress' /\ UNCHANGED Atomic!vars
<1>1. /\ UNCHANGED <<objects, rootList, index, nextTemporaryId, nextId, before>>
      /\ call.at = "delete" /\ call.stack # << >> /\ call \in Frame
      /\ records \in [1..(nextId - 1) -> Record] /\ nextId \in 1..(MaxId + 1)
  BY DEF MarkRecord, cacheVars, CallsInv, Typed, DbTypeOK
<1>2. PICK stack \in Seq(Nat) : stack = call.stack
  BY <1>1 DEF Frame
<1>3. PICK rest, x : rest = Tail(stack) /\ x = Head(stack)
  OBVIOUS
<1>4. /\ Elements(stack) = {x} \cup Elements(rest)
      /\ rest \in Seq(Nat) /\ x \in Nat
  BY <1>1, <1>2, <1>3, ElementsOfStack
<1>5. PICK order \in Seq(DOMAIN before.nodes), marked \in SUBSET DOMAIN records :
          Deleting(order, marked)
  BY <1>1 DEF Progress
<1>6. Stable(before)
  BY <1>1, SeenInside
<1>7. PICK ids, waiting : ids = IdsWith("Deleted") /\ waiting = IdsOf(call.deleted)
  OBVIOUS
<1>8. /\ SameCache /\ Inserted(order) /\ waiting \subseteq ids
      /\ \A id \in DOMAIN records : records[id] = DeletedRow(order, marked, id)
      /\ Reached(records, ids, marked, {x} \cup Elements(rest), waiting)
  BY <1>2, <1>4, <1>5, <1>7 DEF Deleting
<1>9. ASSUME NEW s \in Seq(Nat), call' = [call EXCEPT !.stack = s],
             NEW marked2 \in SUBSET DOMAIN records', NEW rows2, rows2 = records',
             \A id \in DOMAIN rows2 : rows2[id] = DeletedRow(order, marked2, id),
             Reached(rows2, ids, marked2, Elements(s), waiting)
      PROVE  Stable(Seen)' /\ Progress' /\ UNCHANGED Atomic!vars
  <2>1. /\ call'.at = "delete" /\ call'.stack = s /\ call'.deleted = call.deleted
        /\ call'.assignedIds = call.assignedIds
    BY <1>1, <1>9, StackOnly
  <2>2. SameCache'
    BY <1>1, <1>8 DEF SameCache, Now
  <2>3. Inserted(order)'
    BY <1>1, <1>8, <2>1, InsertedStays
  <2>4. IdsWith("Deleted")' = ids
    BY <1>1, <1>7, RowsStay DEF IdsWith
  <2>5. IdsOf(call'.deleted) = waiting
    BY <1>7, <2>1
  <2>6. \A id \in DOMAIN records' : records'[id] = DeletedRow(order, marked2, id)'
    BY <1>1, <1>9, RowsStay
  <2>7. Deleting(order, marked2)'
    BY <1>8, <1>9, <2>1, <2>2, <2>3, <2>4, <2>5, <2>6 DEF Deleting
  <2>8. Progress'
    BY <1>1, <1>5, <1>9, <2>1, <2>7 DEF Progress
  <2> QED BY <1>1, <2>1, <2>8, Continues
<1>10. CASE x \notin DOMAIN records
  <2>1. call' = [call EXCEPT !.stack = rest] /\ records' = records
    BY <1>2, <1>3, <1>10 DEF MarkRecord
  <2>2. Reached(records, ids, marked, Elements(rest), waiting)
    BY <1>8, <1>10, ReachedPops
  <2>3. PICK s \in Seq(Nat) : s = rest
    BY <1>4
  <2>4. PICK rows2 : rows2 = records'
    OBVIOUS
  <2> QED BY <1>8, <1>9, <2>1, <2>2, <2>3, <2>4
<1>11. CASE x \in DOMAIN records
  <2>1. PICK kids : kids = {c \in DOMAIN records : records[c].parentId = x}
    OBVIOUS
  <2>2. /\ records' = [records EXCEPT ![x].deleted = TRUE]
        /\ \E childIds \in Orders(kids) : call' = [call EXCEPT !.stack = childIds \o rest]
    BY <1>2, <1>3, <1>11, <2>1 DEF MarkRecord
  <2>3. PICK childIds \in Orders(kids) : call' = [call EXCEPT !.stack = childIds \o rest]
    BY <2>2
  <2>4. IsFiniteSet(kids) /\ kids \subseteq Nat
    <3>1. kids \subseteq 1..(nextId - 1)
      BY <1>1, <2>1
    <3>2. IsFiniteSet(1..(nextId - 1)) /\ 1..(nextId - 1) \subseteq Nat
      <4>1. nextId - 1 \in Nat
        BY <1>1, DatabaseAssumption DEF DatabaseAssumption
      <4> QED BY <4>1, FS_Interval
    <3> QED BY <3>1, <3>2, FS_Subset
  <2>5. /\ Cardinality(kids) \in Nat
        /\ childIds \in [1..Cardinality(kids) -> kids]
        /\ \A c \in kids : \E i \in 1..Cardinality(kids) : childIds[i] = c
    BY <2>4, FS_CardinalityType, OrdersType
  <2>6. childIds \in Seq(Nat)
    <3>1. childIds \in Seq(kids)
      BY <2>5
    <3> QED BY <2>4, <3>1, SeqMonotonic
  <2>7. Elements(childIds) = kids
    BY <2>5 DEF Elements
  <2>8. PICK s : s = childIds \o rest
    OBVIOUS
  <2>9. s \in Seq(Nat) /\ Elements(s) = kids \cup Elements(rest)
    <3>1. PICK f \in Seq(Nat), r \in Seq(Nat) : f = childIds /\ r = rest
      BY <1>4, <2>6
    <3>2. s = f \o r
      BY <2>8, <3>1
    <3>3. s \in Seq(Nat)
      BY <3>2, ConcatProperties
    <3> QED BY <2>7, <3>1, <3>2, <3>3, ElementsOfBoth
  <2>10. PICK rows2 : rows2 = records'
    OBVIOUS
  <2>11. /\ DOMAIN rows2 = DOMAIN records
         /\ \A id \in DOMAIN records : id # x => rows2[id] = records[id]
         /\ rows2[x] = [records[x] EXCEPT !.deleted = TRUE]
    BY <1>11, <2>2, <2>10
  <2>12. \A c \in DOMAIN records : rows2[c].parentId = records[c].parentId
    <3>1. records[x] \in Record
      BY <1>1, <1>11
    <3>2. rows2[x].parentId = records[x].parentId
      BY <2>11, <3>1 DEF Record
    <3> QED BY <2>11, <3>2
  <2>13. PICK marked2 : marked2 = marked \cup {x}
    OBVIOUS
  <2>14. Reached(rows2, ids, marked2, Elements(s), waiting)
    <3>1. PICK left : left = Elements(rest)
      OBVIOUS
    <3>2. Reached(records, ids, marked, {x} \cup left, waiting)
      BY <1>8, <3>1
    <3>3. PICK rows : rows = records
      OBVIOUS
    <3>4. Reached(rows2, ids, marked \cup {x}, kids \cup left, waiting)
      BY <1>11, <2>1, <2>11, <2>12, <3>2, <3>3, ReachedMarks
    <3> QED BY <2>9, <2>13, <3>1, <3>4
  <2>15. ASSUME NEW id \in DOMAIN rows2
         PROVE  rows2[id] = DeletedRow(order, marked2, id)
    <3>1. records[id] = DeletedRow(order, marked, id)
      BY <1>8, <2>11
    <3>2. CASE id # x
      <4>1. (id \in marked2) = (id \in marked)
        BY <2>13, <3>2
      <4> QED BY <2>11, <3>1, <3>2, <4>1 DEF DeletedRow
    <3>3. CASE id = x
      <4>1. PICK row \in Record : row = ModifiedRow(order, x)
        <5>1. Ordered(order) /\ nextId = before.nextId + Len(order) /\ x \in 1..(nextId - 1)
          BY <1>1, <1>8, <1>11 DEF Inserted
        <5> QED BY <1>6, <5>1, ModifiedIsRecord
      <4>2. PICK one \in BOOLEAN : one <=> x \in marked
        <5>1. (x \in marked) \in BOOLEAN
          OBVIOUS
        <5> QED BY <5>1
      <4>3. PICK old : old = [row EXCEPT !.deleted = @ \/ one]
        OBVIOUS
      <4>4. records[x] = old
        BY <3>1, <3>3, <4>1, <4>2, <4>3 DEF DeletedRow
      <4>5. [old EXCEPT !.deleted = TRUE] = [row EXCEPT !.deleted = @ \/ TRUE]
        BY <4>3, MarkedTwice
      <4>6. DeletedRow(order, marked2, x) = [row EXCEPT !.deleted = @ \/ TRUE]
        <5>1. (x \in marked2) = TRUE
          BY <2>13
        <5> QED BY <4>1, <5>1 DEF DeletedRow
      <4> QED BY <2>11, <3>3, <4>4, <4>5, <4>6
    <3> QED BY <3>2, <3>3
  <2>16. marked2 \in SUBSET DOMAIN records'
    BY <1>11, <2>10, <2>11, <2>13
  <2> QED BY <1>9, <2>3, <2>8, <2>9, <2>10, <2>14, <2>15, <2>16
<1> QED BY <1>10, <1>11

\* The deletions are over: the records below those ids are marked.
LEMMA ProceedsToReassign ==
    ASSUME CallsInv, Stable(Seen), Progress, call.at = "delete", call.stack = << >>,
           call.deleted = << >>,
           call' = [call EXCEPT !.at = "reassign"], UNCHANGED <<cacheVars, dbVars, before>>
    PROVE  Stable(Seen)' /\ Progress' /\ UNCHANGED Atomic!vars
<1>1. /\ UNCHANGED <<objects, rootList, index, nextTemporaryId, records, nextId, before>>
      /\ call \in Frame /\ records \in [1..(nextId - 1) -> Record]
  BY DEF cacheVars, dbVars, CallsInv, Typed, DbTypeOK
<1>2. PICK order \in Seq(DOMAIN before.nodes), marked \in SUBSET DOMAIN records :
          Deleting(order, marked)
  BY DEF Progress
<1>3. /\ SameCache /\ Inserted(order)
      /\ \A id \in DOMAIN records : records[id] = DeletedRow(order, marked, id)
      /\ Reached(records, IdsWith("Deleted"), marked, {}, {})
  <2>1. Elements(call.stack) = {} /\ IdsOf(call.deleted) = {}
    BY DEF Elements, IdsOf
  <2> QED BY <1>2, <2>1 DEF Deleting
<1>4. call'.at = "reassign" /\ call'.assignedIds = call.assignedIds
  BY <1>1, PlaceOnly
<1>5. Stable(before)
  BY SeenInside
<1>6. marked = Below(ParentIn(records), IdsWith("Deleted"))
  BY <1>3, ReachedAll
<1>7. Len(order) \in Nat /\ Len(call.assignedIds) = Len(order) - 0
      /\ Ordered(order) /\ LeftAssigned(call.assignedIds, order, 0)
  BY <1>3, <1>5, OrderLists DEF Inserted, LeftAssigned
<1>8. Written(order)'
  <2>1. Ordered(order)' /\ nextId' = before'.nextId + Len(order)
    BY <1>1, <1>3, RowsStay DEF Inserted
  <2>2. \A id \in DOMAIN records : records[id] = DeletedRow(order, marked, id)'
    BY <1>1, <1>3, RowsStay
  <2>3. marked = Below(ParentIn(records), IdsWith("Deleted"))'
    <3>1. IdsWith("Deleted")' = IdsWith("Deleted") /\ ParentIn(records)' = ParentIn(records)
      BY <1>1, RowsStay DEF IdsWith, ParentIn
    <3> QED BY <1>6, <3>1
  <2> QED BY <1>1, <2>1, <2>2, <2>3 DEF Written
<1>9. PICK ns : ns = before.nodes
  OBVIOUS
<1>10. /\ DOMAIN objects = DOMAIN ns /\ nextTemporaryId = before.nextTemporaryId
       /\ \A h \in DOMAIN objects : SameFields(ns[h], objects[h])
  BY <1>3, <1>5, <1>9, NothingChanged DEF SameCache
<1>11. Reassigning(order, 0)'
  <2>1. \A h \in DOMAIN objects' :
            /\ objects'[h].id = before'.nodes[h].id /\ objects'[h].parentId = before'.nodes[h].parentId
            /\ objects'[h].payload = before'.nodes[h].payload
            /\ objects'[h].status = before'.nodes[h].status
            /\ objects'[h].hasUnloadedChildren = before'.nodes[h].hasUnloadedChildren
            /\ objects'[h].parent = before'.nodes[h].parent
    BY <1>1, <1>9, <1>10 DEF SameFields
  <2>2. \A h \in DOMAIN objects' :
            (Kept(h, {"parentId", "payload", "hasUnloadedChildren", "parent"})
             /\ Kept(h, {"id"}) /\ Kept(h, {"status"}))'
    BY <2>1 DEF Kept
  <2>3. Renaming(order, 0)'
    <3>1. 1..0 = {}
      OBVIOUS
    <3> QED BY <1>1, <1>9, <1>10, <2>2, <3>1 DEF Renaming
  <2>4. LeftAssigned(call.assignedIds, order, 0)'
    BY <1>1, <1>4, <1>7, RowsStay DEF LeftAssigned
  <2> QED BY <1>7, <1>8, <2>2, <2>3, <2>4 DEF Reassigning
<1>12. Progress'
  <2>1. Len(order) - Len(call'.assignedIds) = 0 /\ order \in Seq(DOMAIN before'.nodes)
    BY <1>1, <1>2, <1>4, <1>7
  <2> QED BY <1>4, <1>11, <2>1 DEF Progress
<1> QED BY <1>1, <1>4, <1>12, Continues

-----------------------------------------------------------------------------
(***************************************************************************)
(* apply gives the new nodes their ids.                                    *)
(***************************************************************************)
LEMMA WrittenStays ==
    ASSUME NEW order, Written(order), UNCHANGED <<before, records, nextId>>
    PROVE  Written(order)'
<1>1. Ordered(order)' /\ nextId' = before'.nextId + Len(order)
  BY RowsStay DEF Written
<1>2. PICK marked : marked = Below(ParentIn(records), IdsWith("Deleted"))
  OBVIOUS
<1>3. \A id \in DOMAIN records : records[id] = DeletedRow(order, marked, id)
  BY <1>2 DEF Written
<1>4. \A id \in DOMAIN records' : records'[id] = DeletedRow(order, marked, id)'
  BY <1>3, RowsStay
<1>5. marked = Below(ParentIn(records), IdsWith("Deleted"))'
  <2>1. IdsWith("Deleted")' = IdsWith("Deleted") /\ ParentIn(records)' = ParentIn(records)
    BY RowsStay DEF IdsWith, ParentIn
  <2> QED BY <1>2, <2>1
<1> QED BY <1>1, <1>4, <1>5 DEF Written

\* One object gets another id, and keeps the rest.
OneId(objs, objs2, h, id) ==
    /\ DOMAIN objs2 = DOMAIN objs
    /\ \A g \in DOMAIN objs :
          /\ objs2[g].id = IF g = h THEN id ELSE objs[g].id
          /\ objs2[g].parentId = objs[g].parentId
          /\ objs2[g].payload = objs[g].payload
          /\ objs2[g].hasUnloadedChildren = objs[g].hasUnloadedChildren
          /\ objs2[g].parent = objs[g].parent
          /\ objs2[g].status = objs[g].status

LEMMA IdOfOne ==
    ASSUME NEW objs \in Seq(Object), NEW objs2, NEW h \in DOMAIN objs, NEW id \in Nat,
           objs2 = [objs EXCEPT ![h].id = id]
    PROVE  OneId(objs, objs2, h, id)
<1>1. objs[h] \in Object /\ DOMAIN objs = 1..Len(objs)
  BY ObjectFields
<1>2. PICK o : o = [objs[h] EXCEPT !.id = id]
  OBVIOUS
<1>3. /\ o.id = id /\ o.parentId = objs[h].parentId /\ o.payload = objs[h].payload
      /\ o.hasUnloadedChildren = objs[h].hasUnloadedChildren
      /\ o.parent = objs[h].parent /\ o.status = objs[h].status
  BY <1>1, <1>2 DEF Object
<1>4. objs2 = [objs EXCEPT ![h] = o]
  BY <1>2
<1>5. DOMAIN objs2 = DOMAIN objs /\ \A g \in DOMAIN objs : objs2[g] = IF g = h THEN o ELSE objs[g]
  BY <1>4
<1> QED BY <1>3, <1>5 DEF OneId

LEMMA AssignedRest ==
    ASSUME NEW order, Len(order) \in Nat, NEW done \in Nat, NEW list \in Seq(Assignment),
           list # << >>, LeftAssigned(list, order, done)
    PROVE  /\ done + 1 \in 1..Len(order) /\ done + 1 = Len(order) - Len(Tail(list))
           /\ Head(list) = AssignmentOf(order, done + 1)
           /\ LeftAssigned(Tail(list), order, done + 1)
<1>1. PICK rest : rest = Tail(list)
  OBVIOUS
<1>2. /\ Len(list) \in Nat /\ Len(list) # 0 /\ Len(rest) = Len(list) - 1
      /\ \A i \in 1..(Len(list) - 1) : rest[i] = list[i + 1]
      /\ Head(list) = list[1]
  BY <1>1, EmptySeq, HeadTailProperties
<1>3. Len(list) = Len(order) - done /\ done + 1 \in 1..Len(order)
      /\ Len(rest) = Len(order) - (done + 1) /\ done + 1 = Len(order) - Len(rest)
  BY <1>2 DEF LeftAssigned
<1>4. ASSUME NEW i \in 1..(Len(order) - (done + 1))
      PROVE  rest[i] = AssignmentOf(order, (done + 1) + i)
  <2>1. i \in 1..(Len(list) - 1) /\ i + 1 \in 1..(Len(order) - done)
        /\ done + (i + 1) = (done + 1) + i
    BY <1>3
  <2> QED BY <1>2, <2>1 DEF LeftAssigned
<1>5. Head(list) = AssignmentOf(order, done + 1)
  <2>1. 1 \in 1..(Len(order) - done)
    BY <1>3
  <2> QED BY <1>2, <2>1 DEF LeftAssigned
<1> QED BY <1>1, <1>3, <1>4, <1>5 DEF LeftAssigned

LEMMA AssignedFields ==
    ASSUME NEW c \in Frame, NEW d, NEW assigned \in Seq(Assignment),
           d = [c EXCEPT !.assignedIds = assigned]
    PROVE  d.at = c.at /\ d.stack = c.stack /\ d.assignedIds = assigned
BY DEF Frame, Assignment

\* One more of the new nodes has its new id.
LEMMA RenamedOneMore ==
    ASSUME CallsInv, Stable(before), before' = before, nextTemporaryId' = nextTemporaryId,
           NEW order, Ordered(order), NEW done \in Nat, done + 1 \in 1..Len(order),
           Renaming(order, done), NEW h, h = order[done + 1], NEW id,
           id = before.nextId + (done + 1) - 1, OneId(objects, objects', h, id)
    PROVE  Renaming(order, done + 1)'
<1>1. /\ Len(order) \in Nat
      /\ \A i, j \in 1..Len(order) :
            before.nodes[order[i]].id = before.nodes[order[j]].id => i = j
  BY OrderLists
<1>2. /\ done + 1 \in 1..(done + 1) /\ \A j \in 1..done : j \in 1..(done + 1)
      /\ \A j \in 1..(done + 1) : j \in 1..done \/ j = done + 1
      /\ \A j \in 1..done : j # done + 1 /\ j \in 1..Len(order)
  BY <1>1
<1>3. /\ nextTemporaryId = before.nextTemporaryId /\ DOMAIN objects = DOMAIN before.nodes
      /\ DOMAIN objects' = DOMAIN objects
  BY DEF Renaming, OneId
<1>4. ASSUME NEW g \in DOMAIN objects
      PROVE  /\ Kept(g, {"parentId", "payload", "hasUnloadedChildren", "parent"})'
             /\ (\A j \in 1..(done + 1) : order[j] # g) => Kept(g, {"id"})'
  <2>1. /\ Kept(g, {"parentId", "payload", "hasUnloadedChildren", "parent"})
        /\ (\A j \in 1..done : order[j] # g) => Kept(g, {"id"})
    BY <1>4 DEF Renaming
  <2>2. /\ objects'[g].id = IF g = h THEN id ELSE objects[g].id
        /\ objects'[g].parentId = objects[g].parentId
        /\ objects'[g].payload = objects[g].payload
        /\ objects'[g].hasUnloadedChildren = objects[g].hasUnloadedChildren
        /\ objects'[g].parent = objects[g].parent
    BY <1>4 DEF OneId
  <2>3. Kept(g, {"parentId", "payload", "hasUnloadedChildren", "parent"})'
    BY <2>1, <2>2 DEF Kept
  <2>4. ASSUME \A j \in 1..(done + 1) : order[j] # g
        PROVE  Kept(g, {"id"})'
    <3>1. g # h /\ \A j \in 1..done : order[j] # g
      BY <1>2, <2>4
    <3> QED BY <2>1, <2>2, <3>1 DEF Kept
  <2> QED BY <2>3, <2>4
<1>5. ASSUME NEW j \in 1..(done + 1)
      PROVE  objects'[order[j]].id = before.nextId + j - 1
  <2>1. order[j] \in DOMAIN objects
    <3>1. j \in 1..Len(order)
      BY <1>2
    <3> QED BY <1>3, <3>1, OrderLists
  <2>2. CASE j = done + 1
    BY <2>1, <2>2 DEF OneId
  <2>3. CASE j # done + 1
    <3>1. j \in 1..done /\ order[j] # h
      BY <1>1, <1>2, <2>3
    <3>2. objects[order[j]].id = before.nextId + j - 1
      BY <3>1 DEF Renaming
    <3> QED BY <2>1, <3>1, <3>2 DEF OneId
  <2> QED BY <2>2, <2>3
<1> QED BY <1>3, <1>4, <1>5 DEF Renaming

LEMMA ReassignContinues ==
    ASSUME CallsInv, Stable(Seen), Progress, ReassignId
    PROVE  Stable(Seen)' /\ Progress' /\ UNCHANGED Atomic!vars
<1>1. /\ UNCHANGED <<rootList, nextTemporaryId, records, nextId, before>>
      /\ call.at = "reassign" /\ call.assignedIds # << >> /\ call \in Frame
      /\ objects \in Seq(Object) /\ Exact(objects, index)
  BY DEF ReassignId, dbVars, CallsInv, Typed
<1>2. PICK list \in Seq(Assignment) : list = call.assignedIds
  BY <1>1 DEF Frame, Assignment
<1>3. Stable(before)
  BY <1>1, SeenInside
<1>4. PICK order \in Seq(DOMAIN before.nodes) : Reassigning(order, Len(order) - Len(list))
  BY <1>1, <1>2 DEF Progress
<1>5. PICK done : done = Len(order) - Len(list)
  OBVIOUS
<1>6. /\ Written(order) /\ Ordered(order) /\ done \in 0..Len(order)
      /\ LeftAssigned(list, order, done) /\ Renaming(order, done)
      /\ \A h \in DOMAIN objects : Kept(h, {"status"})
  BY <1>2, <1>4, <1>5 DEF Reassigning, Written
<1>7. /\ Len(order) \in Nat
      /\ \A i \in 1..Len(order) : order[i] \in DOMAIN before.nodes
      /\ \A i, j \in 1..Len(order) :
            before.nodes[order[i]].id = before.nodes[order[j]].id => i = j
  BY <1>3, <1>6, OrderLists
<1>8. done \in Nat
  BY <1>6, <1>7
<1>9. /\ done + 1 \in 1..Len(order) /\ done + 1 = Len(order) - Len(Tail(list))
      /\ Head(list) = AssignmentOf(order, done + 1)
      /\ LeftAssigned(Tail(list), order, done + 1)
  BY <1>1, <1>2, <1>6, <1>7, <1>8, AssignedRest
<1>10. PICK rest \in Seq(Assignment) : rest = Tail(list)
  BY <1>1, <1>2, HeadTailProperties
<1>11. PICK h : h = order[done + 1]
  OBVIOUS
<1>12. h \in DOMAIN before.nodes /\ DOMAIN objects = DOMAIN before.nodes
  BY <1>6, <1>7, <1>9, <1>11 DEF Renaming
<1>13. objects[h].id = before.nodes[h].id
  <2>1. \A j \in 1..done : j \in 1..Len(order) /\ j # done + 1
    BY <1>7, <1>8, <1>9
  <2>2. \A j \in 1..done : order[j] # h
    BY <1>7, <1>9, <1>11, <2>1
  <2> QED BY <1>6, <1>12, <2>2 DEF Renaming, Kept
<1>14. PICK id : id = before.nextId + (done + 1) - 1
  OBVIOUS
<1>15. id \in Nat
  <2>1. before.nextId \in 1..(MaxId + 1)
    BY <1>3 DEF Stable, Whole
  <2>2. before.nextId \in Nat
    BY <2>1, DatabaseAssumption DEF DatabaseAssumption
  <2> QED BY <1>8, <1>14, <2>2
<1>16. Head(list).temporaryId = objects[h].id /\ Head(list).persistentId = id
  BY <1>9, <1>11, <1>13, <1>14 DEF AssignmentOf
<1>17. FindNode(objects[h].id) = h /\ h # NoNode
  BY <1>1, <1>12, ObjectFields DEF Exact, FindNode, NoNode
<1>18. objects' = [objects EXCEPT ![h].id = id]
  BY <1>2, <1>16, <1>17 DEF ReassignId
<1>19. OneId(objects, objects', h, id)
  <2>1. PICK objs2 : objs2 = objects'
    OBVIOUS
  <2> QED BY <1>1, <1>12, <1>15, <1>18, <2>1, IdOfOne
<1>20. Renaming(order, done + 1)'
  BY <1>1, <1>3, <1>6, <1>8, <1>9, <1>11, <1>14, <1>19, RenamedOneMore
<1>21. call'.at = "reassign" /\ call'.assignedIds = rest
  <2>1. call' = [call EXCEPT !.assignedIds = rest]
    BY <1>2, <1>10 DEF ReassignId
  <2>2. PICK next : next = call'
    OBVIOUS
  <2> QED BY <1>1, <2>1, <2>2, AssignedFields
<1>22. \A g \in DOMAIN objects' : Kept(g, {"status"})'
  BY <1>1, <1>6, <1>19 DEF OneId, Kept
<1>23. LeftAssigned(call.assignedIds, order, done + 1)'
  <2>1. LeftAssigned(rest, order, done + 1)
    BY <1>9, <1>10
  <2> QED BY <1>1, <1>21, <2>1, RowsStay DEF LeftAssigned
<1>24. Reassigning(order, done + 1)'
  <2>1. Written(order)'
    BY <1>1, <1>6, WrittenStays
  <2>2. done + 1 \in 0..Len(order)
    BY <1>7, <1>9
  <2> QED BY <1>20, <1>22, <1>23, <2>1, <2>2 DEF Reassigning
<1>25. Progress'
  <2>1. done + 1 = Len(order) - Len(call'.assignedIds) /\ order \in Seq(DOMAIN before'.nodes)
    BY <1>1, <1>4, <1>9, <1>10, <1>21
  <2> QED BY <1>21, <1>24, <2>1 DEF Progress
<1> QED BY <1>1, <1>21, <1>25, Continues

LEMMA SyncWalkBegins ==
    \A c \in Frame, s \in Seq(Nat) :
        LET d == [c EXCEPT !.at = "sync", !.stack = s]
        IN  d.at = "sync" /\ d.stack = s
BY DEF Frame

\* Every new node has its id.
LEMMA ProceedsToSync ==
    ASSUME CallsInv, Stable(Seen), Progress, call.at = "reassign", call.assignedIds = << >>,
           call' = [call EXCEPT !.at = "sync", !.stack = rootList],
           UNCHANGED <<cacheVars, dbVars, before>>
    PROVE  Stable(Seen)' /\ Progress' /\ UNCHANGED Atomic!vars
<1>1. /\ UNCHANGED <<objects, rootList, index, nextTemporaryId, records, nextId, before>>
      /\ call \in Frame /\ rootList \in Seq(Nat) /\ Owned(objects, rootList)
  BY DEF cacheVars, dbVars, CallsInv, Typed
<1>2. call'.at = "sync" /\ call'.stack = rootList
  <2>1. PICK s \in Seq(Nat), old \in Frame : s = rootList /\ old = call
    BY <1>1
  <2>2. PICK next : next = [old EXCEPT !.at = "sync", !.stack = s]
    OBVIOUS
  <2>3. next.at = "sync" /\ next.stack = s
    BY <2>2, SyncWalkBegins
  <2>4. call' = next
    BY <2>1, <2>2
  <2> QED BY <2>1, <2>3, <2>4
<1>3. PICK order \in Seq(DOMAIN before.nodes) : Reassigning(order, Len(order) - Len(call.assignedIds))
  BY DEF Progress
<1>4. Stable(before)
  BY SeenInside
<1>5. Ordered(order)
  BY <1>3 DEF Reassigning, Written
<1>6. Len(order) - Len(call.assignedIds) = Len(order)
  <2>1. Len(order) \in Nat /\ Len(call.assignedIds) = 0
    BY <1>4, <1>5, OrderLists
  <2> QED BY <2>1
<1>7. /\ Written(order) /\ Renaming(order, Len(order))
      /\ \A h \in DOMAIN objects : Kept(h, {"status"})
  BY <1>3, <1>6 DEF Reassigning
<1>8. Elements(rootList) = {c \in DOMAIN objects : objects[c].parent = NoNode}
  <2>1. Keeps(objects, rootList, NoNode)
    BY <1>1 DEF Owned, VectorOf
  <2> QED BY <2>1, KeptElements
<1>9. Marked(order, {})'
  <2>1. Written(order)'
    BY <1>1, <1>7, WrittenStays
  <2>2. Renaming(order, Len(order))'
    BY <1>1, <1>7 DEF Renaming, Kept
  <2>3. ASSUME NEW h \in DOMAIN objects
        PROVE  /\ objects'[h].status = before'.nodes[h].status
               /\ objects'[h].parent = NoNode => h \in Elements(call'.stack)
    BY <1>1, <1>2, <1>7, <1>8 DEF Kept
  <2> QED BY <1>1, <2>1, <2>2, <2>3 DEF Marked
<1>10. Progress'
  <2>1. {} \in SUBSET DOMAIN before'.nodes /\ order \in Seq(DOMAIN before'.nodes)
    BY <1>1, <1>3
  <2> QED BY <1>2, <1>9, <2>1 DEF Progress
<1> QED BY <1>1, <1>2, <1>10, Continues

-----------------------------------------------------------------------------
(***************************************************************************)
(* apply marks the nodes synchronised.                                     *)
(***************************************************************************)
LEMMA ReconciledTwice ==
    ASSUME NEW status
    PROVE  /\ Reconciled(Reconciled(status)) = Reconciled(status)
           /\ status \in {"New", "Modified", "Deleted", "Unchanged"} =>
                 Reconciled(status) \in {"New", "Modified", "Deleted", "Unchanged"}
BY DEF Reconciled

LEMMA MarkSyncedContinues ==
    ASSUME CallsInv, Stable(Seen), Progress, MarkSynced
    PROVE  Stable(Seen)' /\ Progress' /\ UNCHANGED Atomic!vars
<1>1. /\ call.at = "sync" /\ call.stack # << >>
      /\ call' = [call EXCEPT !.stack = Descend]
      /\ UNCHANGED <<rootList, index, nextTemporaryId, records, nextId, before>>
      /\ objects \in Seq(Object)
  BY DEF MarkSynced, dbVars, CallsInv, Typed
<1>2. PICK visited \in SUBSET DOMAIN before.nodes, order \in Seq(DOMAIN before.nodes) :
          Marked(order, visited)
  BY <1>1 DEF Progress
<1>3. PICK x : x = Head(call.stack)
  OBVIOUS
<1>4. PICK rest : rest = Elements(Tail(call.stack))
  OBVIOUS
<1>5. /\ x \in DOMAIN objects
      /\ Elements(call.stack) = {x} \cup rest
      /\ Elements(call'.stack) = {c \in DOMAIN objects : objects[c].parent = x} \cup rest
      /\ call'.at = "sync"
  BY <1>1, <1>3, <1>4, WalkGoesDown
<1>6. PICK new : new = Reconciled(objects[x].status)
  OBVIOUS
<1>7. OneStatus(objects, objects', x, new)
  <2>1. new \in {"New", "Modified", "Deleted", "Unchanged"}
    <3>1. objects[x] \in Object
      BY <1>1, <1>5, ObjectFields
    <3> QED BY <1>6, <3>1, ReconciledTwice DEF Object
  <2>2. PICK objs2 : objs2 = objects'
    OBVIOUS
  <2>3. objs2 = [objects EXCEPT ![x].status = new]
    BY <1>3, <1>6, <2>2 DEF MarkSynced, Reconciled
  <2>4. PICK s \in {"New", "Modified", "Deleted", "Unchanged"} : s = new
    BY <2>1
  <2>5. objs2 = [objects EXCEPT ![x].status = s]
    BY <2>3, <2>4
  <2>6. OneStatus(objects, objs2, x, s)
    BY <1>1, <1>5, <2>5, StatusOfOne
  <2> QED BY <2>2, <2>4, <2>6
<1>8. /\ Written(order) /\ Renaming(order, Len(order))
      /\ DOMAIN objects = DOMAIN before.nodes
      /\ \A h \in DOMAIN objects :
            /\ objects[h].status = IF h \in visited THEN Reconciled(before.nodes[h].status)
                                   ELSE before.nodes[h].status
            /\ objects[h].parent \in visited \cup {NoNode} => h \in visited \cup {x} \cup rest
  BY <1>2, <1>5 DEF Marked, Renaming
<1>9. new = Reconciled(before.nodes[x].status)
  BY <1>5, <1>6, <1>8, ReconciledTwice
<1>10. PICK visited2 : visited2 = visited \cup {x}
  OBVIOUS
<1>11. visited2 \in SUBSET DOMAIN before.nodes
  BY <1>5, <1>8, <1>10
<1>12. ASSUME NEW h \in DOMAIN objects
       PROVE  /\ objects'[h].status = IF h \in visited2 THEN Reconciled(before.nodes[h].status)
                                      ELSE before.nodes[h].status
              /\ objects'[h].parent \in visited2 \cup {NoNode} =>
                    h \in visited2 \cup Elements(call'.stack)
  <2>1. /\ objects'[h].parent = objects[h].parent
        /\ objects'[h].status = IF h = x THEN new ELSE objects[h].status
    BY <1>7 DEF OneStatus
  <2>2. objects'[h].parent \in visited2 \cup {NoNode} =>
            h \in visited2 \cup Elements(call'.stack)
    BY <1>5, <1>8, <1>10, <2>1
  <2>3. objects'[h].status = IF h \in visited2 THEN Reconciled(before.nodes[h].status)
                             ELSE before.nodes[h].status
    BY <1>8, <1>9, <1>10, <2>1
  <2> QED BY <2>2, <2>3
<1>13. Renaming(order, Len(order))'
  <2>1. /\ nextTemporaryId' = before'.nextTemporaryId
        /\ DOMAIN objects' = DOMAIN before'.nodes
    BY <1>1, <1>7, <1>8 DEF Renaming, OneStatus
  <2>2. ASSUME NEW h \in DOMAIN objects
        PROVE  /\ Kept(h, {"parentId", "payload", "hasUnloadedChildren", "parent"})'
               /\ (\A j \in 1..Len(order) : order[j] # h) => Kept(h, {"id"})'
               /\ objects'[h].id = objects[h].id
    <3>1. /\ objects'[h].id = objects[h].id /\ objects'[h].parentId = objects[h].parentId
          /\ objects'[h].payload = objects[h].payload
          /\ objects'[h].hasUnloadedChildren = objects[h].hasUnloadedChildren
          /\ objects'[h].parent = objects[h].parent
      BY <1>7 DEF OneStatus
    <3>2. /\ Kept(h, {"parentId", "payload", "hasUnloadedChildren", "parent"})
          /\ (\A j \in 1..Len(order) : order[j] # h) => Kept(h, {"id"})
      BY <1>8 DEF Renaming
    <3> QED BY <1>1, <3>1, <3>2 DEF Kept
  <2>3. ASSUME NEW j \in 1..Len(order)
        PROVE  objects'[order[j]].id = before'.nextId + j - 1
    <3>1. order[j] \in DOMAIN objects
      <4>1. Stable(before) /\ Ordered(order)
        BY <1>1, <1>8, SeenInside DEF Written
      <4> QED BY <1>8, <4>1, OrderLists
    <3> QED BY <1>1, <1>8, <2>2, <3>1 DEF Renaming
  <2> QED BY <1>1, <1>8, <2>1, <2>2, <2>3 DEF Renaming
<1>14. Marked(order, visited2)'
  <2>1. Written(order)'
    BY <1>1, <1>8, WrittenStays
  <2>2. DOMAIN objects' = DOMAIN objects
    BY <1>7 DEF OneStatus
  <2> QED BY <1>1, <1>8, <1>11, <1>12, <1>13, <2>1, <2>2 DEF Marked
<1>15. Progress'
  BY <1>1, <1>2, <1>5, <1>11, <1>14 DEF Progress
<1> QED BY <1>1, <1>5, <1>15, Continues

-----------------------------------------------------------------------------
(***************************************************************************)
(* apply returns: what it has done is what Apply of SyncService does.      *)
(***************************************************************************)
\* A new node hangs under a node that is inserted before it, or is in the
\* database already.
LEMMA NewUnder ==
    ASSUME Stable(before), NEW order, Ordered(order), NEW i \in 1..Len(order),
           NEW ns, ns = before.nodes, NEW p, p = ns[order[i]].parent
    PROVE  /\ p \in DOMAIN ns /\ p # NoNode /\ ns[order[i]].parentId = ns[p].id
           /\ \/ \E j \in 1..(i - 1) : order[j] = p
              \/ ns[p].status # "New" /\ ns[p].id \in 1..(before.nextId - 1)
<1>1. /\ Len(order) \in Nat /\ DOMAIN order = 1..Len(order)
      /\ \A k \in 1..Len(order) : order[k] \in DOMAIN ns /\ ns[order[k]].status = "New"
      /\ \A h \in DOMAIN ns : ns[h].status = "New" => \E k \in 1..Len(order) : order[k] = h
  BY OrderLists
<1>2. PICK h : h = order[i]
  OBVIOUS
<1>3. /\ h \in DOMAIN ns /\ ns[h].status = "New" /\ Hangs(ns, h)
      /\ ns[h].parent \in {NoNode} \cup DOMAIN ns
      /\ ns \in Seq(Node) /\ Exact(ns, before.index)
      /\ GivenOnce(before.index, before.nextId, before.nextTemporaryId)
  BY <1>1, <1>2 DEF Stable, Whole, Descending
<1>4. /\ p \in DOMAIN ns /\ p # NoNode /\ ns[h].parentId = ns[p].id
      /\ ns[p].id < ns[h].id /\ ns[p].status # "Deleted"
  BY <1>2, <1>3 DEF Hangs
<1>5. CASE ns[p].status = "New"
  <2>1. PICK j \in 1..Len(order) : order[j] = p
    BY <1>1, <1>4, <1>5
  <2>2. j # i
    <3>1. ns[p] \in Node
      BY <1>3, <1>4
    <3> QED BY <1>2, <1>4, <2>1, <3>1 DEF Node
  <2>3. ~(i < j)
    <3>1. PICK up : up = UpIn(before)
      OBVIOUS
    <3>2. /\ DOMAIN up = DOMAIN ns /\ up[h] = p
          /\ \A k, l \in DOMAIN order : k < l => Precedes(up, order[k], order[l])
      BY <1>3, <1>2, <3>1 DEF UpIn, Ordered, OrderOf, InOrder
    <3>3. p \in Path(up, h)
      BY <1>3, <1>4, <3>2, PathContains, PathClosed
    <3>4. ~Precedes(up, h, p)
      BY <3>3 DEF Precedes
    <3> QED BY <1>1, <1>2, <2>1, <3>2, <3>4
  <2>4. j \in 1..(i - 1)
    BY <1>1, <2>2, <2>3
  <2> QED BY <1>2, <1>4, <2>1, <2>4
<1>6. CASE ns[p].status # "New"
  <2>1. ns[p] \in Node
    BY <1>3, <1>4
  <2>2. ns[p].status \in {"Unchanged", "Modified"} /\ ns[p].id \in Nat
    BY <1>4, <1>6, <2>1 DEF Node
  <2>3. ns[p].id < TempBase
    <3>1. Hangs(ns, p)
      BY <1>4 DEF Stable, Descending
    <3> QED BY <2>2, <3>1 DEF Hangs
  <2>4. ns[p].id \in DOMAIN before.index
    BY <1>3, <1>4 DEF Exact
  <2>5. ns[p].id \in 1..(before.nextId - 1)
    BY <1>3, <2>2, <2>3, <2>4, CallsAssumption DEF GivenOnce, CallsAssumption
  <2> QED BY <1>2, <1>4, <1>6, <2>5
<1> QED BY <1>5, <1>6

LEMMA ParentIsEarlier ==
    ASSUME Stable(before), NEW order, Ordered(order), NEW i \in 1..Len(order)
    PROVE  ParentOf(order, i) < before.nextId + i - 1
<1>1. PICK ns : ns = before.nodes
  OBVIOUS
<1>2. PICK p, given, first : /\ p = ns[order[i]].parent /\ given = ns[order[i]].parentId
                             /\ first = before.nextId
  OBVIOUS
<1>3. /\ given = ns[p].id
      /\ \/ \E j \in 1..(i - 1) : order[j] = p
         \/ ns[p].id \in 1..(first - 1)
  BY <1>1, <1>2, NewUnder
<1>4. first \in Nat /\ i \in Nat /\ i >= 1
  <2>1. Len(order) \in Nat
    BY OrderLists
  <2> QED BY <1>2, <2>1, DatabaseAssumption DEF Stable, Whole, DatabaseAssumption
<1>5. CASE ParentOf(order, i) = given /\ \A j \in 1..(i - 1) : ns[order[j]].id # given
  <2>1. given \in 1..(first - 1)
    BY <1>3, <1>5
  <2>2. given < first + i - 1
    BY <1>4, <2>1
  <2> QED BY <1>2, <1>5, <2>2
<1>6. CASE \E j \in 1..(i - 1) : ParentOf(order, i) = first + j - 1
  <2>1. PICK j \in 1..(i - 1) : ParentOf(order, i) = first + j - 1
    BY <1>6
  <2>2. first + j - 1 < first + i - 1
    BY <1>4, <2>1
  <2> QED BY <1>2, <2>1, <2>2
<1> QED BY <1>1, <1>2, <1>5, <1>6, ParentCases

LEMMA SameCardinality == \A S : Atomic!Cardinality(S) = Cardinality(S)
BY DEF Atomic!Cardinality, Cardinality

\* The order of the creations is the one of SyncService.
LEMMA OrderIsCreation ==
    ASSUME Stable(before), Seen = before, NEW order, Ordered(order)
    PROVE  /\ order \in Atomic!CreationOrders
           /\ Atomic!Cardinality(Atomic!NodesIn("New")) = Len(order)
<1>1. PICK S, n : S = WithStatus(before, "New") /\ n = Len(order)
  OBVIOUS
<1>2. Atomic!NodesIn("New") = S /\ Atomic!Up = UpIn(before)
  BY <1>1 DEF Atomic!NodesIn, WithStatus, Atomic!Up, UpIn
<1>3. /\ order \in Seq(S) /\ n \in Nat /\ DOMAIN order = 1..n
      /\ (\A i, j \in DOMAIN order : order[i] = order[j] => i = j)
      /\ (\A h \in S : \E i \in DOMAIN order : order[i] = h)
      /\ InOrder(UpIn(before), order)
  BY <1>1 DEF Ordered, OrderOf
<1>4. order \in [1..n -> S]
  BY <1>1, <1>3
<1>5. order \in Bijection(1..n, S)
  BY <1>3, <1>4 DEF Bijection, Injection, Surjection, IsInjective
<1>6. Cardinality(S) = n
  <2>1. ExistsBijection(1..n, S)
    BY <1>5 DEF ExistsBijection
  <2> QED BY <1>3, <2>1, FS_CountingElements
<1>7. order \in Atomic!Bijection(1..n, S)
  BY <1>3, <1>4 DEF Atomic!Bijection, Atomic!Injection, Atomic!Surjection, Atomic!IsInjective
<1>8. ASSUME NEW i \in DOMAIN order, NEW j \in DOMAIN order, i < j
      PROVE  Atomic!VisitedBefore(order[i], order[j])
  <2>1. PICK up : up = UpIn(before)
    OBVIOUS
  <2>2. PICK a, b : a = order[i] /\ b = order[j]
    OBVIOUS
  <2>3. Precedes(up, a, b)
    BY <1>3, <1>8, <2>1, <2>2 DEF InOrder
  <2>4. \A x : Atomic!Path(up, x) = Path(up, x)
    BY DEF Atomic!Path, Path
  <2>5. \A x, y : /\ x \in Path(up, a) => before.nodes[x].parent = up[x]
                  /\ y \in Path(up, b) => before.nodes[y].parent = up[y]
    BY <2>1 DEF Path, UpIn
  <2>6. Atomic!VisitedBefore(a, b)
    BY <1>2, <2>1, <2>3, <2>4, <2>5 DEF Atomic!VisitedBefore, Precedes
  <2> QED BY <2>2, <2>6
<1>9. order \in Atomic!CreationOrders
  <2>1. Atomic!CreationOrders =
            {o \in Atomic!Bijection(1..n, S) :
                \A i, j \in DOMAIN o : i < j => Atomic!VisitedBefore(o[i], o[j])}
    BY <1>2, <1>6, SameCardinality DEF Atomic!CreationOrders
  <2>2. \A i, j \in DOMAIN order : i < j => Atomic!VisitedBefore(order[i], order[j])
    BY <1>8
  <2> QED BY <1>7, <2>1, <2>2
<1> QED BY <1>1, <1>2, <1>6, <1>9, SameCardinality

\* The change set.
Changes(changes, order) ==
    /\ DOMAIN changes.created = DOMAIN order /\ Len(changes.created) = Len(order)
    /\ \A i \in DOMAIN order : changes.created[i] = ChangeOf(before.nodes[order[i]])
    /\ DOMAIN changes.modified = IdsWith("Modified")
    /\ \A id \in IdsWith("Modified") : changes.modified[id] = TextFor(id)
    /\ changes.deleted = IdsWith("Deleted")

LEMMA CollectedChanges ==
    ASSUME Stable(before), Seen = before, NEW order, Ordered(order)
    PROVE  Changes(Atomic!CollectChanges(order), order)
<1>1. /\ Atomic!IdsIn("Modified") = IdsWith("Modified")
      /\ Atomic!IdsIn("Deleted") = IdsWith("Deleted")
      /\ Atomic!NodesIn("Modified") = WithStatus(before, "Modified")
  BY DEF Atomic!IdsIn, IdsWith, Atomic!NodesIn, WithStatus
<1>2. PICK list : list = [i \in DOMAIN order |-> Atomic!NewNodeChange(order[i])]
  OBVIOUS
<1>3. PICK texts : texts = [id \in IdsWith("Modified") |-> TextFor(id)]
  OBVIOUS
<1>4. Atomic!CollectChanges(order) = [created |-> list, modified |-> texts,
                                      deleted |-> IdsWith("Deleted")]
  <2>1. ASSUME NEW id \in IdsWith("Modified")
        PROVE  Seen.nodes[CHOOSE h \in Atomic!NodesIn("Modified") : Seen.nodes[h].id = id].payload
               = TextFor(id)
    <3>1. PICK h \in WithStatus(before, "Modified") : before.nodes[h].id = id
      BY DEF IdsWith
    <3>2. \A g \in Atomic!NodesIn("Modified") : Seen.nodes[g].id = id => g = h
      BY <1>1, <3>1, DistinctIds DEF WithStatus
    <3>3. (CHOOSE g \in Atomic!NodesIn("Modified") : Seen.nodes[g].id = id) = h
      BY <1>1, <3>1, <3>2
    <3>4. TextFor(id) = before.nodes[h].payload
      BY <3>1, ModifiedText
    <3> QED BY <3>3, <3>4
  <2>2. PICK f : f = [id \in Atomic!IdsIn("Modified") |->
            Seen.nodes[CHOOSE h \in Atomic!NodesIn("Modified") : Seen.nodes[h].id = id].payload]
    OBVIOUS
  <2>3. f = texts
    BY <1>1, <1>3, <2>1, <2>2
  <2>4. Atomic!CollectChanges(order) =
            [created  |-> [i \in DOMAIN order |-> Atomic!NewNodeChange(order[i])],
             modified |-> f, deleted  |-> Atomic!IdsIn("Deleted")]
    BY <2>2 DEF Atomic!CollectChanges
  <2> QED BY <1>1, <1>2, <2>3, <2>4
<1>5. \A i \in DOMAIN order : list[i] = ChangeOf(before.nodes[order[i]])
  BY <1>2 DEF Atomic!NewNodeChange, ChangeOf
<1>6. Len(list) = Len(order)
  <2>1. PICK n \in Nat : n = Len(order) /\ DOMAIN order = 1..n
    BY OrderLists
  <2>2. PICK S : S = {list[i] : i \in 1..n}
    OBVIOUS
  <2>3. list \in [1..n -> S]
    BY <1>2, <2>1, <2>2
  <2>4. list \in Seq(S)
    BY <2>3
  <2>5. DOMAIN list = 1..Len(list) /\ Len(list) \in Nat
    BY <2>4
  <2>6. 1..Len(list) = 1..n
    BY <2>3, <2>5
  <2> QED BY <2>1, <2>5, <2>6, SameLength
<1>7. DOMAIN list = DOMAIN order
  BY <1>2
<1>8. PICK changes : changes = Atomic!CollectChanges(order)
  OBVIOUS
<1>9. changes.created = list /\ changes.modified = texts /\ changes.deleted = IdsWith("Deleted")
  BY <1>4, <1>8
<1>10. DOMAIN texts = IdsWith("Modified") /\ \A id \in IdsWith("Modified") : texts[id] = TextFor(id)
  BY <1>3
<1> QED BY <1>5, <1>6, <1>7, <1>8, <1>9, <1>10 DEF Changes

LEMMA ChangedFields ==
    ASSUME NEW n
    PROVE  /\ ChangeOf(n).id = n.id /\ ChangeOf(n).parentId = n.parentId
           /\ ChangeOf(n).payload = n.payload
BY DEF ChangeOf

LEMMA SameParent ==
    ASSUME Seen = before, NEW order, NEW changes, Changes(changes, order), DOMAIN order = 1..Len(order),
           Len(order) \in Nat, NEW i \in 1..Len(order)
    PROVE  Atomic!MappedParent(changes, i) = ParentOf(order, i)
<1>1. PICK given : given = before.nodes[order[i]].parentId
  OBVIOUS
<1>2. ASSUME NEW j \in DOMAIN order
      PROVE  /\ changes.created[j].id = before.nodes[order[j]].id
             /\ changes.created[j].parentId = before.nodes[order[j]].parentId
  BY ChangedFields DEF Changes
<1>3. \A j \in 1..(i - 1) : j \in DOMAIN order
  OBVIOUS
<1>4. PICK earlier : earlier = {j \in 1..(i - 1) : before.nodes[order[j]].id = given}
  OBVIOUS
<1>5. earlier = {j \in 1..(i - 1) : changes.created[j].id = given}
  BY <1>2, <1>3, <1>4
<1>6. ParentOf(order, i) =
          IF earlier = {} THEN given
          ELSE before.nextId + (CHOOSE j \in earlier : \A k \in earlier : j <= k) - 1
  BY <1>1, <1>4 DEF ParentOf
<1>7. Atomic!MappedParent(changes, i) =
          IF earlier = {} THEN given
          ELSE before.nextId + (CHOOSE j \in earlier : \A k \in earlier : j <= k) - 1
  <2>1. changes.created[i].parentId = given
    BY <1>1, <1>2
  <2> QED BY <1>5, <2>1 DEF Atomic!MappedParent, Atomic!PersistentId
<1> QED BY <1>6, <1>7

\* The three loops of the database.
LEMMA CreationRows ==
    ASSUME Stable(before), Seen = before, NEW order, Ordered(order), NEW changes,
           Changes(changes, order), NEW next, next = before.nextId + Len(order)
    PROVE  Atomic!AfterCreation(before.records, changes) =
               [id \in 1..(next - 1) |-> CreatedRow(order, id)]
<1>1. PICK first, n : first = before.nextId /\ n = Len(order)
  OBVIOUS
<1>2. /\ first \in Nat /\ first >= 1 /\ n \in Nat /\ next = first + n
      /\ before.records \in [1..(first - 1) -> Record]
      /\ DOMAIN order = 1..n
  BY <1>1, OrderLists, DatabaseAssumption DEF Stable, Whole, DatabaseAssumption
<1>3. DOMAIN before.records = 1..(first - 1)
  BY <1>2
<1>4. PICK entered : entered = {first + i - 1 : i \in 1..n}
  OBVIOUS
<1>5. 1..(first - 1) \cup entered = 1..(next - 1)
  <2>1. \A i \in 1..n : first + i - 1 \in 1..(next - 1)
    BY <1>2
  <2>2. \A id \in 1..(next - 1) : id \notin 1..(first - 1) =>
            id - first + 1 \in 1..n /\ id = first + (id - first + 1) - 1
    BY <1>2
  <2>3. \A id \in 1..(first - 1) : id \in 1..(next - 1)
    BY <1>2
  <2> QED BY <1>4, <2>1, <2>2, <2>3
<1>6. {Atomic!PersistentId(i) : i \in DOMAIN changes.created} = entered
  BY <1>1, <1>2, <1>4 DEF Atomic!PersistentId, Changes
<1>7. ASSUME NEW id \in 1..(next - 1)
      PROVE  (IF id \in 1..(first - 1) THEN before.records[id]
              ELSE [parentId |-> Atomic!MappedParent(changes, id - first + 1),
                    payload  |-> changes.created[id - first + 1].payload,
                    deleted  |-> FALSE]) = CreatedRow(order, id)
  <2>1. CASE id \in 1..(first - 1)
    <3>1. id < first
      BY <1>2, <2>1
    <3> QED BY <1>1, <2>1, <3>1 DEF CreatedRow
  <2>2. CASE id \notin 1..(first - 1)
    <3>1. ~(id < first)
      BY <1>2, <2>2
    <3>2. PICK i : i = id - first + 1
      OBVIOUS
    <3>3. i \in 1..n
      BY <1>2, <2>2, <3>2
    <3>4. Atomic!MappedParent(changes, i) = ParentOf(order, i)
      BY <1>1, <1>2, <3>3, SameParent
    <3>5. changes.created[i].payload = before.nodes[order[i]].payload
      <4>1. changes.created[i] = ChangeOf(before.nodes[order[i]])
        BY <1>2, <3>3 DEF Changes
      <4> QED BY <4>1, ChangedFields
    <3> QED BY <1>1, <2>2, <3>1, <3>2, <3>4, <3>5 DEF CreatedRow
  <2> QED BY <2>1, <2>2
<1>8. Atomic!AfterCreation(before.records, changes) =
          [id \in 1..(next - 1) |->
              IF id \in 1..(first - 1) THEN before.records[id]
              ELSE [parentId |-> Atomic!MappedParent(changes, id - first + 1),
                    payload  |-> changes.created[id - first + 1].payload,
                    deleted  |-> FALSE]]
  BY <1>1, <1>3, <1>5, <1>6 DEF Atomic!AfterCreation
<1> QED BY <1>7, <1>8

LEMMA ModificationRows ==
    ASSUME NEW order, NEW changes, Changes(changes, order), NEW rows, NEW S,
           rows = [id \in S |-> CreatedRow(order, id)]
    PROVE  Atomic!AfterModification(rows, changes) = [id \in S |-> ModifiedRow(order, id)]
<1>1. DOMAIN rows = S /\ \A id \in S : rows[id] = CreatedRow(order, id)
  OBVIOUS
<1>2. ASSUME NEW id \in S
      PROVE  (IF id \in DOMAIN changes.modified /\ ~rows[id].deleted
              THEN [rows[id] EXCEPT !.payload = changes.modified[id]] ELSE rows[id])
             = ModifiedRow(order, id)
  BY <1>1 DEF Changes, ModifiedRow
<1>3. Atomic!AfterModification(rows, changes) =
          [id \in S |-> IF id \in DOMAIN changes.modified /\ ~rows[id].deleted
                        THEN [rows[id] EXCEPT !.payload = changes.modified[id]] ELSE rows[id]]
  BY <1>1 DEF Atomic!AfterModification
<1> QED BY <1>2, <1>3

LEMMA DeletionRows ==
    ASSUME NEW order, NEW changes, Changes(changes, order), NEW rows, NEW S,
           rows = [id \in S |-> ModifiedRow(order, id)],
           NEW marked, marked = Below(ParentIn(rows), IdsWith("Deleted"))
    PROVE  Atomic!AfterDeletion(rows, changes) = [id \in S |-> DeletedRow(order, marked, id)]
<1>1. DOMAIN rows = S /\ \A id \in S : rows[id] = ModifiedRow(order, id)
  OBVIOUS
<1>2. Atomic!Doomed(rows, changes.deleted) = marked
  BY DEF Atomic!Doomed, Atomic!ParentIn, ParentIn, Atomic!Below, Below, Atomic!ClosedAbove,
         ClosedAbove, Changes
<1>3. \A id \in S : [rows[id] EXCEPT !.deleted = @ \/ id \in marked] = DeletedRow(order, marked, id)
  BY <1>1 DEF DeletedRow
<1>4. Atomic!AfterDeletion(rows, changes) =
          [id \in S |-> [rows[id] EXCEPT !.deleted = @ \/ id \in marked]]
  BY <1>1, <1>2 DEF Atomic!AfterDeletion
<1> QED BY <1>3, <1>4

LEMMA RecordsApplied ==
    ASSUME Stable(before), Seen = before, NEW order, Written(order),
           records \in [1..(nextId - 1) -> Record]
    PROVE  LET changes == Atomic!CollectChanges(order)
           IN  /\ records = Atomic!AfterDeletion(Atomic!AfterModification(
                                Atomic!AfterCreation(before.records, changes), changes), changes)
               /\ nextId = before.nextId + Len(changes.created)
<1>1. PICK changes : changes = Atomic!CollectChanges(order)
  OBVIOUS
<1>2. Ordered(order) /\ nextId = before.nextId + Len(order)
  BY DEF Written
<1>3. Changes(changes, order)
  BY <1>1, <1>2, CollectedChanges
<1>4. PICK S, next : S = 1..(next - 1) /\ next = nextId
  OBVIOUS
<1>5. PICK marked : marked = Below(ParentIn(records), IdsWith("Deleted"))
  OBVIOUS
<1>6. \A id \in S : records[id] = DeletedRow(order, marked, id)
  BY <1>4, <1>5 DEF Written
<1>7. PICK rows : rows = [id \in S |-> ModifiedRow(order, id)]
  OBVIOUS
<1>8. ASSUME NEW id \in S
      PROVE  rows[id].parentId = records[id].parentId
  <2>1. id \in 1..(next - 1)
    BY <1>4
  <2>2. PICK row \in Record : row = ModifiedRow(order, id)
    BY <1>2, <1>4, <2>1, ModifiedIsRecord
  <2>3. records[id] = [row EXCEPT !.deleted = @ \/ id \in marked]
    BY <1>6, <2>2 DEF DeletedRow
  <2> QED BY <1>7, <2>2, <2>3 DEF Record
<1>9. ParentIn(rows) = ParentIn(records)
  BY <1>4, <1>7, <1>8 DEF ParentIn
<1>10. Atomic!AfterCreation(before.records, changes) = [id \in S |-> CreatedRow(order, id)]
  BY <1>2, <1>3, <1>4, CreationRows
<1>11. PICK made : made = [id \in S |-> CreatedRow(order, id)]
  OBVIOUS
<1>12. Atomic!AfterModification(made, changes) = rows
  BY <1>3, <1>7, <1>11, ModificationRows
<1>13. Atomic!AfterDeletion(rows, changes) = [id \in S |-> DeletedRow(order, marked, id)]
  BY <1>3, <1>5, <1>7, <1>9, DeletionRows
<1>14. records = [id \in S |-> DeletedRow(order, marked, id)]
  BY <1>4, <1>6
<1>15. Len(changes.created) = Len(order)
  BY <1>3 DEF Changes
<1> QED BY <1>1, <1>2, <1>10, <1>11, <1>12, <1>13, <1>14, <1>15

\* The assignments.
LEMMA AssignedOnes ==
    ASSUME Stable(before), Seen = before, NEW order, Ordered(order), NEW assigned,
           assigned = Atomic!AssignedIds(Atomic!CollectChanges(order))
    PROVE  /\ DOMAIN assigned = 1..Len(order)
           /\ \A i \in 1..Len(order) :
                 /\ assigned[i].temporaryId = before.nodes[order[i]].id
                 /\ assigned[i].persistentId = before.nextId + i - 1
<1>1. PICK changes : changes = Atomic!CollectChanges(order)
  OBVIOUS
<1>2. Changes(changes, order) /\ DOMAIN order = 1..Len(order)
  BY <1>1, CollectedChanges, OrderLists
<1>3. \A i \in 1..Len(order) : changes.created[i].id = before.nodes[order[i]].id
  <2>1. \A i \in 1..Len(order) : changes.created[i] = ChangeOf(before.nodes[order[i]])
    BY <1>2 DEF Changes
  <2> QED BY <2>1, ChangedFields
<1>4. assigned = [i \in 1..Len(order) |-> [temporaryId |-> changes.created[i].id,
                                           persistentId |-> before.nextId + i - 1]]
  BY <1>1, <1>2 DEF Atomic!AssignedIds, Atomic!PersistentId, Changes
<1> QED BY <1>3, <1>4

LEMMA NewIds ==
    ASSUME Stable(before), Seen = before, NEW order, Ordered(order), Renaming(order, Len(order)),
           NEW assigned, assigned = Atomic!AssignedIds(Atomic!CollectChanges(order)),
           NEW h \in DOMAIN before.nodes
    PROVE  objects[h].id = Atomic!ReassignedNodeId(assigned, h)
<1>1. PICK n, ns : n = Len(order) /\ ns = before.nodes
  OBVIOUS
<1>2. /\ n \in Nat
      /\ \A i \in 1..n : order[i] \in DOMAIN ns /\ ns[order[i]].status = "New"
      /\ \A i, j \in 1..n : ns[order[i]].id = ns[order[j]].id => i = j
  BY <1>1, OrderLists
<1>3. /\ DOMAIN assigned = 1..n
      /\ \A i \in 1..n : /\ assigned[i].temporaryId = ns[order[i]].id
                         /\ assigned[i].persistentId = before.nextId + i - 1
  BY <1>1, AssignedOnes
<1>4. Exact(ns, before.index)
  BY <1>1 DEF Stable, Whole
<1>5. ASSUME NEW i \in 1..n
      PROVE  Atomic!FindNode(assigned[i].temporaryId) = order[i]
  BY <1>2, <1>3, <1>4 DEF Atomic!FindNode, Exact
<1> DEFINE given == {i \in DOMAIN assigned : Atomic!FindNode(assigned[i].temporaryId) = h}
<1>6. Atomic!ReassignedNodeId(assigned, h) =
          IF given = {} THEN Seen.nodes[h].id
          ELSE assigned[CHOOSE i \in given : TRUE].persistentId
  BY DEF Atomic!ReassignedNodeId
<1>7. \A i : i \in given <=> i \in 1..n /\ order[i] = h
  BY <1>3, <1>5
<1> HIDE DEF given
<1>9. CASE given = {}
  <2>1. \A i \in 1..n : order[i] # h
    BY <1>7, <1>9
  <2> QED BY <1>1, <1>6, <1>9, <2>1 DEF Renaming, Kept
<1>10. CASE given # {}
  <2>1. PICK i \in given : i = CHOOSE k \in given : TRUE
    BY <1>10
  <2>2. i \in 1..n /\ order[i] = h
    BY <1>7
  <2> QED BY <1>1, <1>3, <1>6, <1>10, <2>1, <2>2 DEF Renaming
<1> QED BY <1>9, <1>10

LEMMA NewIndex ==
    ASSUME Stable(before), Seen = before, NEW order, Ordered(order), Renaming(order, Len(order)),
           Exact(objects, index), index \in Table,
           NEW assigned, assigned = Atomic!AssignedIds(Atomic!CollectChanges(order))
    PROVE  index = Atomic!ReassignedIndex(assigned)
<1>1. PICK n, ns, old, first :
          n = Len(order) /\ ns = before.nodes /\ old = before.index /\ first = before.nextId
  OBVIOUS
<1>2. /\ n \in Nat
      /\ \A i \in 1..n : order[i] \in DOMAIN ns /\ ns[order[i]].status = "New"
      /\ \A h \in DOMAIN ns : ns[h].status = "New" => \E i \in 1..n : order[i] = h
      /\ \A i, j \in 1..n : ns[order[i]].id = ns[order[j]].id => i = j
  BY <1>1, OrderLists
<1>3. /\ DOMAIN assigned = 1..n
      /\ \A i \in 1..n : /\ assigned[i].temporaryId = ns[order[i]].id
                         /\ assigned[i].persistentId = first + i - 1
  BY <1>1, AssignedOnes
<1>4. Exact(ns, old) /\ first \in Nat
  BY <1>1, DatabaseAssumption DEF Stable, Whole, DatabaseAssumption
<1>5. /\ DOMAIN objects = DOMAIN ns
      /\ \A h \in DOMAIN ns : (\A j \in 1..n : order[j] # h) => objects[h].id = ns[h].id
      /\ \A j \in 1..n : objects[order[j]].id = first + j - 1
  BY <1>1 DEF Renaming, Kept
<1> DEFINE found   == {i \in DOMAIN assigned : assigned[i].temporaryId \in DOMAIN Seen.index}
           kept    == DOMAIN Seen.index \ {assigned[i].temporaryId : i \in found}
           entered == {assigned[i].persistentId : i \in found}
           entry(id) == IF id \in kept THEN Seen.index[id]
                        ELSE Seen.index[assigned[CHOOSE i \in found :
                                            assigned[i].persistentId = id].temporaryId]
<1>6. Atomic!ReassignedIndex(assigned) = [id \in kept \cup entered |-> entry(id)]
  BY DEF Atomic!ReassignedIndex
<1>7. found = 1..n
  <2>1. ASSUME NEW i \in 1..n
        PROVE  assigned[i].temporaryId \in DOMAIN Seen.index
    <3>1. order[i] \in DOMAIN ns /\ assigned[i].temporaryId = ns[order[i]].id
      BY <1>2, <1>3
    <3>2. ns[order[i]].id \in DOMAIN old
      BY <1>4, <3>1 DEF Exact
    <3> QED BY <1>1, <3>1, <3>2
  <2> QED BY <1>3, <2>1
<1> HIDE DEF found
<1>8. \A id : id \in kept <=> id \in DOMAIN old /\ \A i \in 1..n : ns[order[i]].id # id
  BY <1>1, <1>3, <1>7
<1>9. \A id : id \in entered <=> \E i \in 1..n : id = first + i - 1
  BY <1>3, <1>7
<1> HIDE DEF kept, entered
<1>10. ASSUME NEW id \in kept
       PROVE  id \in DOMAIN index /\ index[id] = entry(id)
  <2>1. PICK h : h = old[id]
    OBVIOUS
  <2>2. h \in DOMAIN ns /\ ns[h].id = id
    BY <1>4, <1>8, <2>1 DEF Exact
  <2>3. \A j \in 1..n : order[j] # h
    BY <1>8, <2>2
  <2>4. id \in DOMAIN index /\ index[id] = h
    BY <1>5, <2>2, <2>3 DEF Exact
  <2> QED BY <1>1, <2>1, <2>4
<1>11. ASSUME NEW id \in entered, id \notin kept
       PROVE  id \in DOMAIN index /\ index[id] = entry(id)
  <2>1. PICK j \in 1..n : id = first + j - 1
    BY <1>9
  <2>2. \A i \in 1..n : assigned[i].persistentId = id => i = j
    BY <1>3, <1>4, <2>1
  <2>3. (CHOOSE i \in found : assigned[i].persistentId = id) = j
    BY <1>3, <1>7, <2>1, <2>2
  <2>4. old[assigned[j].temporaryId] = order[j]
    BY <1>2, <1>3, <1>4 DEF Exact
  <2>5. order[j] \in DOMAIN objects /\ objects[order[j]].id = id
    BY <1>2, <1>5, <2>1
  <2>6. id \in DOMAIN index /\ index[id] = order[j]
    BY <2>5 DEF Exact
  <2> QED BY <1>1, <1>11, <2>3, <2>4, <2>6
<1>12. ASSUME NEW id \in DOMAIN index
       PROVE  id \in kept \cup entered
  <2>1. PICK h \in DOMAIN ns : objects[h].id = id
    BY <1>5 DEF Exact
  <2>2. CASE \E j \in 1..n : order[j] = h
    BY <1>5, <1>9, <2>1, <2>2
  <2>3. CASE \A j \in 1..n : order[j] # h
    <3>1. ns[h].id = id /\ id \in DOMAIN old /\ old[id] = h
      BY <1>4, <1>5, <2>1, <2>3 DEF Exact
    <3>2. \A j \in 1..n : ns[order[j]].id # id
      BY <1>2, <1>4, <2>3, <3>1 DEF Exact
    <3> QED BY <1>8, <3>1, <3>2
  <2> QED BY <2>2, <2>3
<1>13. DOMAIN index = kept \cup entered
  BY <1>10, <1>11, <1>12
<1>14. index = [id \in DOMAIN index |-> index[id]]
  BY DEF Table
<1>15. \A id \in kept \cup entered : index[id] = entry(id)
  BY <1>10, <1>11
<1> HIDE DEF entry
<1> QED BY <1>6, <1>13, <1>14, <1>15

\* The nodes after the walks of apply.
Reconciles(ns, ns2, order) ==
    /\ DOMAIN ns2 = DOMAIN ns
    /\ \A h \in DOMAIN ns :
          /\ ns2[h].parentId = ns[h].parentId
          /\ ns2[h].parent = ns[h].parent
          /\ ns2[h].status = Reconciled(ns[h].status)
          /\ (\A j \in 1..Len(order) : order[j] # h) => ns2[h].id = ns[h].id
    /\ \A j \in 1..Len(order) : ns2[order[j]].id = before.nextId + j - 1

LEMMA ReconciledHangs ==
    ASSUME Stable(before), NEW order, Ordered(order), NEW ns, ns = before.nodes, NEW ns2,
           Reconciles(ns, ns2, order), NEW h \in DOMAIN ns,
           before.nextId + Len(order) <= MaxId + 1
    PROVE  Hangs(ns2, h)
<1>1. PICK n, first, p : n = Len(order) /\ first = before.nextId /\ p = ns[h].parent
  OBVIOUS
<1>2. /\ n \in Nat
      /\ \A i \in 1..n : order[i] \in DOMAIN ns /\ ns[order[i]].status = "New"
      /\ \A g \in DOMAIN ns : ns[g].status = "New" => \E i \in 1..n : order[i] = g
  BY <1>1, OrderLists
<1>3. /\ first \in Nat /\ first >= 1 /\ MaxId \in Nat /\ first + n <= MaxId + 1
      /\ MaxId < TempBase /\ TempBase \in Nat
  BY <1>1, DatabaseAssumption, CallsAssumption
  DEF Stable, Whole, DatabaseAssumption, CallsAssumption
<1>4. /\ ns \in Seq(Node) /\ \A g \in DOMAIN ns : Hangs(ns, g) /\ ns[g] \in Node
      /\ p \in {NoNode} \cup DOMAIN ns
  <2>1. ns \in Seq(Node) /\ (\A g \in DOMAIN ns : Hangs(ns, g)) /\ p \in {NoNode} \cup DOMAIN ns
    BY <1>1 DEF Stable, Whole, Descending
  <2>2. \A g \in DOMAIN ns : ns[g] \in Node
    BY <2>1
  <2> QED BY <2>1, <2>2
<1>5. \A g \in DOMAIN ns : ns[g].id \in Nat /\ ns[g].status \in {"New", "Modified", "Deleted", "Unchanged"}
  BY <1>4 DEF Node
<1>6. /\ ns2[h].parentId = ns[h].parentId /\ ns2[h].parent = p
      /\ ns2[h].status = Reconciled(ns[h].status)
      /\ \A g \in DOMAIN ns : ns[g].status # "New" => ns2[g].id = ns[g].id
      /\ \A j \in 1..n : ns2[order[j]].id = first + j - 1
  <2>1. \A g \in DOMAIN ns : ns[g].status # "New" => \A j \in 1..n : order[j] # g
    BY <1>2
  <2> QED BY <1>1, <2>1 DEF Reconciles
<1>7. ASSUME NEW g \in DOMAIN ns, ns[g].status = "New"
      PROVE  ns2[g].id \in first..(first + n - 1) /\ ns2[g].id < TempBase
  <2>1. PICK j \in 1..n : order[j] = g
    BY <1>2, <1>7
  <2>2. ns2[g].id = first + j - 1
    BY <1>6, <2>1
  <2> QED BY <1>2, <1>3, <2>1, <2>2
<1>8. ns2[h].status # "New"
  BY <1>6 DEF Reconciled
<1>9. ns2[h].status \in {"Unchanged", "Modified"} => ns2[h].id < TempBase
  <2>1. CASE ns[h].status = "New"
    BY <1>7, <2>1
  <2>2. CASE ns[h].status # "New"
    <3>1. ns2[h].status \in {"Unchanged", "Modified"} => ns[h].status \in {"Unchanged", "Modified"}
      BY <1>5, <1>6, <2>2 DEF Reconciled
    <3> QED BY <1>4, <1>6, <2>2, <3>1 DEF Hangs
  <2> QED BY <2>1, <2>2
<1>10. ns2[h].parent = NoNode => ns2[h].parentId < ns2[h].id
  <2>1. ASSUME p = NoNode
        PROVE  ns[h].status # "New" /\ ns[h].parentId < ns[h].id
    BY <1>1, <1>4, <2>1 DEF Hangs
  <2> QED BY <1>6, <2>1
<1>11. ASSUME p # NoNode
       PROVE  ns2[p].id < ns2[h].id
  <2>1. p \in DOMAIN ns /\ ns[p].id < ns[h].id
    BY <1>1, <1>4, <1>11 DEF Hangs
  <2>2. CASE ns[h].status # "New" /\ ns[p].status # "New"
    BY <1>6, <2>1, <2>2
  <2>3. CASE ns[h].status # "New" /\ ns[p].status = "New"
    <3>1. ns[p].id >= TempBase
      BY <1>4, <2>1, <2>3 DEF Hangs
    <3>2. ns2[p].id \in first..(first + n - 1) /\ ns2[p].id < TempBase
      BY <1>7, <2>1, <2>3
    <3>3. ns2[p].id < ns[h].id
      BY <1>2, <1>3, <1>5, <2>1, <3>1, <3>2
    <3> QED BY <1>6, <2>3, <3>3
  <2>4. CASE ns[h].status = "New"
    <3>1. PICK i \in 1..n : order[i] = h
      BY <1>2, <2>4
    <3>2. ns2[h].id = first + i - 1
      BY <1>6, <3>1
    <3>3. \/ \E j \in 1..(i - 1) : order[j] = p
          \/ ns[p].status # "New" /\ ns[p].id \in 1..(first - 1)
      BY <1>1, <3>1, NewUnder
    <3>4. CASE \E j \in 1..(i - 1) : order[j] = p
      <4>1. PICK j \in 1..(i - 1) : order[j] = p
        BY <3>4
      <4>2. j \in 1..n /\ j < i
        BY <1>2, <3>1, <4>1
      <4>3. ns2[p].id = first + j - 1
        BY <1>6, <4>1, <4>2
      <4> QED BY <1>3, <3>1, <3>2, <4>2, <4>3
    <3>5. CASE ns[p].status # "New" /\ ns[p].id \in 1..(first - 1)
      <4>1. ns2[p].id = ns[p].id
        BY <1>6, <2>1, <3>5
      <4>2. first + i - 1 >= first
        BY <1>3, <3>1
      <4> QED BY <1>3, <3>2, <3>5, <4>1, <4>2
    <3> QED BY <3>3, <3>4, <3>5
  <2> QED BY <2>2, <2>3, <2>4
<1> QED BY <1>6, <1>8, <1>9, <1>10, <1>11 DEF Hangs

\* The rows descend, whichever of them are marked.
RowsWith(order, marked) ==
    /\ Ordered(order)
    /\ nextId = before.nextId + Len(order)
    /\ \A id \in DOMAIN records : records[id] = DeletedRow(order, marked, id)

LEMMA RowsDescendMarked ==
    ASSUME Stable(before), NEW order, NEW marked, RowsWith(order, marked),
           records \in [1..(nextId - 1) -> Record]
    PROVE  RowsDescend(records)
<1>1. PICK first, n : first = before.nextId /\ n = Len(order)
  OBVIOUS
<1>2. Ordered(order) /\ nextId = first + n
  BY <1>1 DEF RowsWith
<1>3. /\ first \in Nat /\ first >= 1 /\ n \in Nat
      /\ before.records \in [1..(first - 1) -> Record] /\ RowsDescend(before.records)
  BY <1>1, <1>2, OrderLists, DatabaseAssumption
  DEF Stable, Whole, Descending, DatabaseAssumption
<1>4. ASSUME NEW id \in DOMAIN records
      PROVE  records[id].parentId < id
  <2>1. PICK next : next = nextId
    OBVIOUS
  <2>2. id \in 1..(next - 1) /\ next = before.nextId + Len(order)
    BY <1>1, <1>2, <2>1
  <2>3. PICK row \in Record, row2 \in Record :
            row = CreatedRow(order, id) /\ row2 = ModifiedRow(order, id)
    BY <1>2, <2>2, CreatedIsRecord, ModifiedIsRecord
  <2>4. row2.parentId = row.parentId
    BY <2>3 DEF ModifiedRow, Record
  <2>5. records[id] = [row2 EXCEPT !.deleted = @ \/ id \in marked]
    BY <2>3 DEF RowsWith, DeletedRow
  <2>6. records[id].parentId = row.parentId
    BY <2>3, <2>4, <2>5 DEF Record
  <2>7. row.parentId < id
    <3>1. CASE id < first
      <4>1. row = before.records[id] /\ id \in DOMAIN before.records
        BY <1>1, <1>3, <2>2, <2>3, <3>1 DEF CreatedRow
      <4> QED BY <1>3, <4>1 DEF RowsDescend
    <3>2. CASE ~(id < first)
      <4>1. PICK i : i = id - first + 1
        OBVIOUS
      <4>2. i \in 1..n /\ first + i - 1 = id
        <5>1. id \in Int /\ id < first + n
          BY <1>1, <1>2, <1>3, <2>1, <2>2
        <5> QED BY <1>3, <3>2, <4>1, <5>1
      <4>3. row.parentId = ParentOf(order, i)
        BY <1>1, <2>3, <3>2, <4>1 DEF CreatedRow
      <4>4. ParentOf(order, i) < first + i - 1
        BY <1>1, <1>2, <4>2, ParentIsEarlier
      <4> QED BY <4>2, <4>3, <4>4
    <3> QED BY <3>1, <3>2
  <2> QED BY <2>6, <2>7
<1> QED BY <1>4 DEF RowsDescend

LEMMA WrittenDescends ==
    ASSUME Stable(before), NEW order, Written(order), records \in [1..(nextId - 1) -> Record]
    PROVE  RowsDescend(records)
BY RowsDescendMarked DEF Written, RowsWith

LEMMA ReconciledNode ==
    ASSUME NEW n \in Node, NEW m \in Node, NEW id \in Nat, m.id = id, m.parentId = n.parentId,
           m.payload = n.payload, m.hasUnloadedChildren = n.hasUnloadedChildren,
           m.parent = n.parent, m.status = Reconciled(n.status)
    PROVE  m = [n EXCEPT !.id = id, !.status = Atomic!SyncedStatus(@)]
<1>1. PICK o : o = [n EXCEPT !.id = id, !.status = Atomic!SyncedStatus(@)]
  OBVIOUS
<1>2. PICK status : status = Reconciled(n.status)
  OBVIOUS
<1>3. status \in {"New", "Modified", "Deleted", "Unchanged"}
  BY <1>2 DEF Node, Reconciled
<1>4. Atomic!SyncedStatus(n.status) = status
  BY <1>2 DEF Atomic!SyncedStatus, Reconciled
<1>5. o = [n EXCEPT !.id = id, !.status = status]
  BY <1>1, <1>4
<1>6. /\ o \in Node /\ o.id = id /\ o.parentId = n.parentId /\ o.payload = n.payload
      /\ o.status = status /\ o.hasUnloadedChildren = n.hasUnloadedChildren
      /\ o.parent = n.parent
  BY <1>3, <1>5 DEF Node
<1>7. SameFields(m, o)
  BY <1>2, <1>6 DEF SameFields
<1> QED BY <1>1, <1>6, <1>7, SameNode

LEMMA ApplyReturns ==
    ASSUME CallsInv, CallsInv', Stable(Seen), Progress, Finish, call.at = "sync"
    PROVE  Stable(Seen)' /\ Progress' /\ Atomic!Apply
<1>1. /\ call.stack = << >> /\ Return
      /\ UNCHANGED <<objects, rootList, index, nextTemporaryId, records, nextId>>
      /\ Seen = before
  BY SeenInside DEF Finish, cacheVars, dbVars
<1>2. /\ objects \in Seq(Object) /\ Owned(objects, rootList) /\ Exact(objects, index)
      /\ index \in Table /\ records \in [1..(nextId - 1) -> Record] /\ nextId \in 1..(MaxId + 1)
  BY DEF CallsInv, Typed, DbTypeOK
<1>3. PICK visited \in SUBSET DOMAIN before.nodes, order \in Seq(DOMAIN before.nodes) :
          Marked(order, visited)
  BY DEF Progress
<1>4. Stable(before)
  BY <1>1
<1>5. PICK ns, ns2 : ns = before.nodes /\ ns2 = Now.nodes
  OBVIOUS
<1>6. /\ Written(order) /\ Ordered(order) /\ Room /\ Renaming(order, Len(order))
      /\ nextId = before.nextId + Len(order)
      /\ DOMAIN objects = DOMAIN ns /\ nextTemporaryId = before.nextTemporaryId
      /\ \A h \in DOMAIN ns :
            /\ Kept(h, {"parentId", "payload", "hasUnloadedChildren", "parent"})
            /\ objects[h].status = IF h \in visited THEN Reconciled(ns[h].status)
                                   ELSE ns[h].status
            /\ objects[h].parent \in visited \cup {NoNode} => h \in visited
  <2>1. Elements(call.stack) = {}
    BY <1>1 DEF Elements
  <2> QED BY <1>3, <1>5, <2>1 DEF Marked, Renaming, Written, Ordered
<1>7. visited = DOMAIN ns
  <2>1. \A c \in DOMAIN before.nodes :
            before.nodes[c].parent \in visited \cup {NoNode} => c \in visited
    BY <1>5, <1>6 DEF Kept
  <2> QED BY <1>4, <1>5, <2>1, WalkReachesAll
<1>8. /\ ns \in Seq(Node) /\ before.roots = {h \in DOMAIN ns : ns[h].parent = NoNode}
  BY <1>4, <1>5 DEF Stable, Whole
<1>9. /\ ns2 \in Seq(Node) /\ DOMAIN ns2 = DOMAIN ns
      /\ \A h \in DOMAIN ns : SameFields(ns2[h], objects[h])
  BY <1>5, <1>6, NowNodes
<1>10. ASSUME NEW h \in DOMAIN ns
       PROVE  /\ ns2[h].id = objects[h].id /\ ns2[h].parentId = ns[h].parentId
              /\ ns2[h].payload = ns[h].payload /\ ns2[h].parent = ns[h].parent
              /\ ns2[h].hasUnloadedChildren = ns[h].hasUnloadedChildren
              /\ ns2[h].status = Reconciled(ns[h].status)
  BY <1>5, <1>6, <1>7, <1>9 DEF Kept, SameFields
<1>11. PICK changes, assigned : /\ changes = Atomic!CollectChanges(order)
                                /\ assigned = Atomic!AssignedIds(changes)
  OBVIOUS
<1>12. ASSUME NEW h \in DOMAIN ns
       PROVE  ns2[h] = [ns[h] EXCEPT !.id = Atomic!ReassignedNodeId(assigned, h),
                                     !.status = Atomic!SyncedStatus(@)]
  <2>1. PICK id : id = Atomic!ReassignedNodeId(assigned, h)
    OBVIOUS
  <2>2. objects[h].id = id
    <3>1. h \in DOMAIN before.nodes
      BY <1>5
    <3> QED BY <1>1, <1>4, <1>6, <1>11, <2>1, <3>1, NewIds
  <2>3. PICK n \in Node, m \in Node : n = ns[h] /\ m = ns2[h]
    BY <1>8, <1>9
  <2>4. id \in Nat
    BY <1>10, <2>2, <2>3 DEF Node
  <2>5. /\ m.id = id /\ m.parentId = n.parentId /\ m.payload = n.payload
        /\ m.hasUnloadedChildren = n.hasUnloadedChildren
        /\ m.parent = n.parent /\ m.status = Reconciled(n.status)
    BY <1>10, <2>2, <2>3
  <2>6. m = [n EXCEPT !.id = id, !.status = Atomic!SyncedStatus(@)]
    BY <2>4, <2>5, ReconciledNode
  <2> QED BY <2>1, <2>3, <2>6
<1>13. ns2 = [h \in DOMAIN ns |-> [ns[h] EXCEPT !.id = Atomic!ReassignedNodeId(assigned, h),
                                                !.status = Atomic!SyncedStatus(@)]]
  <2>1. ns2 = [h \in DOMAIN ns |-> ns2[h]]
    BY <1>9
  <2> QED BY <1>12, <2>1
<1>14. index = Atomic!ReassignedIndex(assigned)
  BY <1>1, <1>2, <1>4, <1>6, <1>11, NewIndex
<1>15. Descending(Now)
  <2>1. Reconciles(ns, ns2, order)
    <3>1. \A h \in DOMAIN ns : (\A j \in 1..Len(order) : order[j] # h) => ns2[h].id = ns[h].id
      BY <1>5, <1>6, <1>10 DEF Renaming, Kept
    <3>2. \A j \in 1..Len(order) : ns2[order[j]].id = before.nextId + j - 1
      <4>1. \A j \in 1..Len(order) : order[j] \in DOMAIN ns
        BY <1>4, <1>5, <1>6, OrderLists
      <4> QED BY <1>6, <1>10, <4>1 DEF Renaming
    <3> QED BY <1>9, <1>10, <3>1, <3>2 DEF Reconciles
  <2>2. before.nextId + Len(order) <= MaxId + 1
    BY <1>2, <1>6
  <2>3. \A h \in DOMAIN ns : Hangs(ns2, h)
    BY <1>4, <1>5, <1>6, <2>1, <2>2, ReconciledHangs
  <2>4. RowsDescend(records)
    BY <1>2, <1>4, <1>6, WrittenDescends
  <2> QED BY <1>5, <1>9, <2>3, <2>4, NowOutside DEF Descending
<1>16. Now' = Now
  BY <1>1 DEF Now
<1>17. Stable(Seen)' /\ Progress' /\ Seen' = Now
  BY <1>1, <1>15, <1>16, Returns
<1>18. Seen.nodes = ns /\ (Seen.nodes)' = ns2
  BY <1>1, <1>5, <1>17
<1>19. /\ (Seen.roots)' = Seen.roots /\ (Seen.nextTemporaryId)' = Seen.nextTemporaryId
       /\ (Seen.index)' = index /\ (Seen.records)' = records /\ (Seen.nextId)' = nextId
  <2>1. Now.roots = {h \in DOMAIN objects : objects[h].parent = NoNode}
    BY <1>2, RootsAreParentless, NowOutside
  <2>2. \A h \in DOMAIN ns : objects[h].parent = ns[h].parent
    BY <1>9, <1>10 DEF SameFields
  <2>3. Now.roots = before.roots
    BY <1>6, <1>8, <2>1, <2>2
  <2> QED BY <1>1, <1>6, <1>17, <2>3, NowOutside
<1>20. Atomic!ReconcileCache(assigned)
  BY <1>13, <1>14, <1>18, <1>19 DEF Atomic!ReconcileCache
<1>21. Atomic!ApplyChanges(changes)
  <2>1. /\ records = Atomic!AfterDeletion(Atomic!AfterModification(
                         Atomic!AfterCreation(before.records, changes), changes), changes)
        /\ nextId = before.nextId + Len(changes.created)
    BY <1>1, <1>2, <1>4, <1>6, <1>11, RecordsApplied
  <2> QED BY <1>1, <1>19, <2>1 DEF Atomic!ApplyChanges
<1>22. /\ order \in Atomic!CreationOrders
       /\ Atomic!Cardinality(Atomic!NodesIn("New")) = Len(order)
  BY <1>1, <1>4, <1>6, OrderIsCreation
<1>23. Seen.nextId + Atomic!Cardinality(Atomic!NodesIn("New")) <= MaxId + 1
  BY <1>1, <1>2, <1>6, <1>22
<1>24. Atomic!Apply
  BY <1>11, <1>20, <1>21, <1>22, <1>23 DEF Atomic!Apply
<1> QED BY <1>17, <1>24

-----------------------------------------------------------------------------
(***************************************************************************)
(* When nothing changes, a call is where it was.                           *)
(***************************************************************************)
LEMMA ParametersStay ==
    ASSUME UNCHANGED callVars
    PROVE  /\ SameDatabase => SameDatabase'
           /\ SameCache => SameCache'
           /\ Room => Room'
           /\ NothingAssigned => NothingAssigned'
           /\ \A h, fields : Kept(h, fields) => Kept(h, fields)'
           /\ before' = before /\ call' = call /\ objects' = objects /\ rootList' = rootList
           /\ records' = records /\ nextId' = nextId
           /\ index' = index /\ nextTemporaryId' = nextTemporaryId
<1>1. /\ before' = before /\ call' = call /\ objects' = objects /\ rootList' = rootList
      /\ records' = records /\ nextId' = nextId
      /\ index' = index /\ nextTemporaryId' = nextTemporaryId
  BY DEF callVars, dbVars, cacheVars
<1>2. Now' = Now
  BY <1>1 DEF Now
<1>3. SameDatabase => SameDatabase'
  BY <1>1 DEF SameDatabase
<1>4. SameCache => SameCache'
  BY <1>1, <1>2 DEF SameCache
<1>5. Room => Room'
  BY <1>1 DEF Room
<1>6. NothingAssigned => NothingAssigned'
  BY <1>1 DEF NothingAssigned
<1>7. \A h, fields : Kept(h, fields) => Kept(h, fields)'
  BY <1>1 DEF Kept
<1> QED BY <1>1, <1>3, <1>4, <1>5, <1>6, <1>7

LEMMA LoadsNext ==
    ASSUME NEW raw, NEW id, LoadingNode(raw, id)'
    PROVE  Loading'
BY DEF Loading, LoadingNode

LEMMA LoadingStays ==
    ASSUME UNCHANGED callVars, Loading
    PROVE  Loading'
<1>1. PICK raw, id, row : raw = call.node /\ id = objects[call.node].id /\ row = before.records[id]
  OBVIOUS
<1>2. LoadingNode(raw, id)
  BY <1>1 DEF Loading
<1>3. raw = call'.node /\ id = objects'[call'.node].id /\ row = before'.records[id]
  BY <1>1, ParametersStay
<1>4. LoadingNode(raw, id)'
  <2>1. SameDatabase' /\ OrphansOf(before', id) = OrphansOf(before, id)
    BY <1>2, ParametersStay DEF LoadingNode
  <2>2. /\ raw = Len(before'.nodes) + 1 /\ Len(objects') = raw
        /\ nextTemporaryId' = before'.nextTemporaryId
        /\ id \in DOMAIN before'.records \ DOMAIN before'.index
        /\ index' = Emplace(before'.index, id, raw)
        /\ call'.node = raw
        /\ call'.parent = FoundIn(before', row.parentId)
        /\ call'.hasChildren = (\E c \in DOMAIN records' : records'[c].parentId = id)
    BY <1>1, <1>2, ParametersStay DEF LoadingNode
  <2>3. /\ objects'[raw].id = id
        /\ objects'[raw].parentId = row.parentId
        /\ objects'[raw].payload = row.payload
        /\ objects'[raw].status = (IF row.deleted THEN "Deleted" ELSE "Unchanged")
        /\ objects'[raw].parent = call'.parent
    BY <1>1, <1>2, ParametersStay DEF LoadingNode
  <2>4. \A e \in Elements(call'.stack) :
            \E h \in OrphansOf(before', id) : before'.nodes[h].id = e
    BY <1>2, ParametersStay DEF LoadingNode
  <2>5. \A h \in DOMAIN before'.nodes :
            /\ Kept(h, {"id", "parentId", "payload", "status", "hasUnloadedChildren"})'
            /\ objects'[h].parent =
                   IF h \in OrphansOf(before', id)
                          /\ before'.nodes[h].id \notin Elements(call'.stack)
                   THEN raw ELSE before'.nodes[h].parent
    BY <1>2, ParametersStay DEF LoadingNode
  <2> QED BY <1>3, <2>1, <2>2, <2>3, <2>4, <2>5 DEF LoadingNode
<1> QED BY <1>4, LoadsNext

LEMMA MarkingStays ==
    ASSUME UNCHANGED callVars, NEW top, NEW marked, Marking(top, marked)
    PROVE  Marking(top, marked)'
BY ParametersStay DEF Marking

LEMMA CollectingStays ==
    ASSUME UNCHANGED callVars, NEW visited, NEW order, Collecting(visited, order)
    PROVE  Collecting(visited, order)'
<1>1. OrderOf(order, visited \cap WithStatus(before, "New")) =>
          OrderOf(order, visited \cap WithStatus(before, "New"))'
  BY ParametersStay DEF OrderOf
<1>2. Follows(call.created, order) => Follows(call.created, order)'
  BY ParametersStay DEF Follows, ChangeOf
<1>3. Lists(call.modified, visited \cap WithStatus(before, "Modified")) =>
          Lists(call.modified, visited \cap WithStatus(before, "Modified"))'
  BY ParametersStay DEF Lists, ChangeOf
<1>4. Lists(call.deleted, visited \cap WithStatus(before, "Deleted")) =>
          Lists(call.deleted, visited \cap WithStatus(before, "Deleted"))'
  BY ParametersStay DEF Lists, ChangeOf
<1> QED BY <1>1, <1>2, <1>3, <1>4, ParametersStay DEF Collecting

LEMMA ChangesStay ==
    ASSUME UNCHANGED callVars
    PROVE  /\ Lists(call.modified, WithStatus(before, "Modified")) =>
                  Lists(call.modified, WithStatus(before, "Modified"))'
           /\ Lists(call.deleted, WithStatus(before, "Deleted")) =>
                  Lists(call.deleted, WithStatus(before, "Deleted"))'
BY ParametersStay DEF Lists, ChangeOf

LEMMA InsertingStays ==
    ASSUME UNCHANGED callVars, NEW order, Inserting(order, nextId - before.nextId)
    PROVE  Inserting(order, nextId - before.nextId)'
<1>1. LeftCreated(call.created, order, nextId - before.nextId) =>
          LeftCreated(call.created, order, nextId - before.nextId)'
  BY ParametersStay DEF LeftCreated, ChangeOf
<1>2. Maps(call.temporaryToPersistent, order, nextId - before.nextId) =>
          Maps(call.temporaryToPersistent, order, nextId - before.nextId)'
  BY ParametersStay DEF Maps
<1>3. FirstAssigned(call.assignedIds, order, nextId - before.nextId) =>
          FirstAssigned(call.assignedIds, order, nextId - before.nextId)'
  BY ParametersStay DEF FirstAssigned, AssignmentOf
<1> QED BY <1>1, <1>2, <1>3, ChangesStay, ParametersStay, RowsStay DEF Inserting

LEMMA ModifyingStays ==
    ASSUME UNCHANGED callVars, NEW order, Modifying(order)
    PROVE  Modifying(order)'
<1>1. (\A i \in DOMAIN call.modified :
          \E h \in WithStatus(before, "Modified") : call.modified[i] = ChangeOf(before.nodes[h]))'
  BY ParametersStay DEF Modifying, ChangeOf
<1> QED BY <1>1, InsertedStays, ChangesStay, ParametersStay, RowsStay DEF Modifying

LEMMA DeletingStays ==
    ASSUME UNCHANGED callVars, NEW order, NEW marked, Deleting(order, marked)
    PROVE  Deleting(order, marked)'
<1>1. IdsWith("Deleted")' = IdsWith("Deleted")
  BY ParametersStay DEF IdsWith
<1>2. Inserted(order)' /\ SameCache'
  BY InsertedStays, ParametersStay DEF Deleting
<1>3. Reached(records, IdsWith("Deleted"), marked, Elements(call.stack), IdsOf(call.deleted))'
  BY <1>1, ParametersStay DEF Deleting
<1> QED BY <1>1, <1>2, <1>3, ParametersStay, RowsStay DEF Deleting

LEMMA RenamingStays ==
    ASSUME UNCHANGED callVars, NEW order, NEW done, Renaming(order, done)
    PROVE  Renaming(order, done)'
BY ParametersStay DEF Renaming

LEMMA ReassigningStays ==
    ASSUME UNCHANGED callVars, NEW order, Reassigning(order, Len(order) - Len(call.assignedIds))
    PROVE  Reassigning(order, Len(order) - Len(call.assignedIds))'
<1>1. LeftAssigned(call.assignedIds, order, Len(order) - Len(call.assignedIds)) =>
          LeftAssigned(call.assignedIds, order, Len(order) - Len(call.assignedIds))'
  BY ParametersStay DEF LeftAssigned, AssignmentOf
<1>2. Renaming(order, Len(order) - Len(call.assignedIds)) =>
          Renaming(order, Len(order) - Len(call.assignedIds))'
  BY ParametersStay DEF Renaming, Kept
<1>3. (\A h \in DOMAIN objects : Kept(h, {"status"}))'
  BY ParametersStay DEF Reassigning
<1> QED BY <1>1, <1>2, <1>3, WrittenStays, ParametersStay DEF Reassigning

LEMMA MarkedStays ==
    ASSUME UNCHANGED callVars, NEW visited, NEW order, Marked(order, visited)
    PROVE  Marked(order, visited)'
<1>1. Renaming(order, Len(order))'
  BY RenamingStays DEF Marked
<1>2. (\A h \in DOMAIN objects :
          /\ objects[h].status = IF h \in visited THEN Reconciled(before.nodes[h].status)
                                 ELSE before.nodes[h].status
          /\ objects[h].parent \in visited \cup {NoNode} =>
                 h \in visited \cup Elements(call.stack))'
  BY ParametersStay DEF Marked, Reconciled
<1> QED BY <1>1, <1>2, WrittenStays, ParametersStay DEF Marked

LEMMA ProgressStays ==
    ASSUME UNCHANGED callVars, Progress
    PROVE  Progress'
<1>1. /\ call' = call /\ before' = before /\ records' = records /\ objects' = objects
      /\ nextId' = nextId /\ rootList' = rootList /\ index' = index
      /\ nextTemporaryId' = nextTemporaryId
  BY ParametersStay
<1>2. call.at = "adopt" => Loading'
  BY LoadingStays DEF Progress
<1>3. call.at = "remove" =>
          (\E top \in DOMAIN before.nodes, marked \in SUBSET DOMAIN before.nodes :
              Marking(top, marked))'
  BY <1>1, MarkingStays DEF Progress
<1>4. call.at = "seed" => Seeding'
  BY <1>1 DEF Progress, Seeding
<1>5. call.at = "collect" =>
          (\E visited \in SUBSET DOMAIN before.nodes, order \in Seq(DOMAIN before.nodes) :
              Collecting(visited, order))'
  BY <1>1, CollectingStays DEF Progress
<1>6. call.at = "insert" =>
          (\E order \in Seq(DOMAIN before.nodes) : Inserting(order, nextId - before.nextId))'
  BY <1>1, InsertingStays DEF Progress
<1>7. call.at = "modify" => (\E order \in Seq(DOMAIN before.nodes) : Modifying(order))'
  BY <1>1, ModifyingStays DEF Progress
<1>8. call.at = "delete" =>
          (\E order \in Seq(DOMAIN before.nodes), marked \in SUBSET DOMAIN records :
              Deleting(order, marked))'
  BY <1>1, DeletingStays DEF Progress
<1>9. call.at = "reassign" =>
          (\E order \in Seq(DOMAIN before.nodes) :
              Reassigning(order, Len(order) - Len(call.assignedIds)))'
  BY <1>1, ReassigningStays DEF Progress
<1>10. call.at = "sync" =>
          (\E visited \in SUBSET DOMAIN before.nodes, order \in Seq(DOMAIN before.nodes) :
              Marked(order, visited))'
  BY <1>1, MarkedStays DEF Progress
<1> QED BY <1>1, <1>2, <1>3, <1>4, <1>5, <1>6, <1>7, <1>8, <1>9, <1>10 DEF Progress

-----------------------------------------------------------------------------
(***************************************************************************)
(* The refinement.                                                         *)
(***************************************************************************)
LEMMA AtomicInit ==
    ASSUME Init
    PROVE  Atomic!Init /\ AtomicInv
<1>1. /\ objects = << >> /\ rootList = << >> /\ index = << >>
      /\ nextTemporaryId = TempBase /\ call = NoCall /\ DbInit
      /\ CallsInv
  BY CallsInit DEF Init
<1>2. Idle /\ call.at = "idle"
  BY <1>1 DEF Idle, NoCall
<1>3. Seen = Now
  BY <1>2, SeenOutside
<1>4. PICK objs : objs = objects
  OBVIOUS
<1>5. Now.nodes = << >>
  <2>1. objs \in Seq(Object) /\ Len(objs) = 0
    BY <1>1, <1>4, EmptySeq
  <2>2. Outside(objs) \in Seq(Node) /\ Len(Outside(objs)) = 0
    BY <2>1, OutsideFields
  <2> QED BY <1>4, <2>2, EmptySeq, NowOutside
<1>6. Now.roots = {}
  BY <1>1, NowOutside DEF Seqs!ToSet
<1>7. RowsDescend(records)
  BY <1>1, SeedRowTypes DEF RowsDescend, DbInit, SeedTestData
<1>8. Descending(Now)
  <2>1. DOMAIN Now.nodes = {}
    BY <1>5
  <2> QED BY <1>7, <2>1, NowOutside DEF Descending
<1>9. Stable(Seen)
  BY <1>1, <1>3, <1>8, NowIsWhole DEF Stable
<1>10. Progress
  BY <1>2 DEF Progress
<1>11. /\ Seen.nodes = << >> /\ Seen.roots = {} /\ Seen.index = << >>
       /\ Seen.nextTemporaryId = TempBase
       /\ Seen.records = SeedTestData /\ Seen.nextId = Len(SeedRows) + 1
  BY <1>1, <1>3, <1>5, <1>6, NowOutside DEF DbInit
<1>12. Atomic!Init
  BY <1>11 DEF Atomic!Init, Atomic!DbInit, Atomic!CacheInit, Atomic!SeedTestData, SeedTestData
<1> QED BY <1>9, <1>10, <1>12 DEF AtomicInv

LEMMA StraightIndex ==
    ASSUME Straight
    PROVE  DOMAIN Seen.index = DOMAIN index
BY Straightly, NowOutside

LEMMA AtomicProceed ==
    ASSUME CallsInv, Stable(Seen), Progress, Proceed
    PROVE  Stable(Seen)' /\ Progress' /\ UNCHANGED Atomic!vars
<1>1. UNCHANGED <<cacheVars, dbVars, before>>
  BY DEF Proceed
<1>2. CASE /\ call.at = "collect" /\ call.stack = << >>
           /\ call' = [call EXCEPT !.at = "insert"]
  BY <1>1, <1>2, ProceedsToInsert
<1>3. CASE /\ call.at = "insert" /\ call.created = << >>
           /\ call' = [call EXCEPT !.at = "modify"]
  BY <1>1, <1>3, ProceedsToModify
<1>4. CASE /\ call.at = "modify" /\ call.modified = << >>
           /\ call' = [call EXCEPT !.at = "delete"]
  BY <1>1, <1>4, ProceedsToDelete
<1>5. CASE /\ call.at = "delete" /\ call.stack = << >> /\ call.deleted = << >>
           /\ call' = [call EXCEPT !.at = "reassign"]
  BY <1>1, <1>5, ProceedsToReassign
<1>6. CASE /\ call.at = "reassign" /\ call.assignedIds = << >>
           /\ call' = [call EXCEPT !.at = "sync", !.stack = rootList]
  BY <1>1, <1>6, ProceedsToSync
<1> QED BY <1>2, <1>3, <1>4, <1>5, <1>6 DEF Proceed

\* The user's calls: those without loops are steps of TreeCache, the others
\* only begin.
LEMMA AtomicCall ==
    ASSUME CallsInv, CallsInv', Stable(Seen), Progress, Call
    PROVE  Stable(Seen)' /\ Progress' /\ (Atomic!Next \/ UNCHANGED Atomic!vars)
<1>1. CASE \E id \in DOMAIN records : LoadFromDatabase(id)
  BY <1>1, LoadBegins
<1>2. CASE \E id \in DOMAIN index, payload \in Payload : AddChild(id, payload)
  <2>1. PICK id \in DOMAIN index, payload \in Payload : AddChild(id, payload)
    BY <1>2
  <2>2. Stable(Seen)' /\ Progress' /\ Atomic!AddChild(id, payload)
    BY <2>1, AddAtomic
  <2>3. id \in DOMAIN Seen.index
    BY <2>1, StraightIndex DEF AddChild
  <2> QED BY <2>1, <2>2, <2>3 DEF Atomic!Next
<1>3. CASE \E id \in DOMAIN index, payload \in Payload : EditPayload(id, payload)
  <2>1. PICK id \in DOMAIN index, payload \in Payload : EditPayload(id, payload)
    BY <1>3
  <2>2. Stable(Seen)' /\ Progress' /\ Atomic!EditPayload(id, payload)
    BY <2>1, EditAtomic
  <2>3. id \in DOMAIN Seen.index
    BY <2>1, StraightIndex DEF EditPayload
  <2> QED BY <2>1, <2>2, <2>3 DEF Atomic!Next
<1>4. CASE \E id \in DOMAIN index : Remove(id)
  BY <1>4, RemoveBegins
<1>5. CASE Apply
  BY <1>5, ApplyBegins
<1>6. CASE Reset
  BY <1>6, ResetBegins
<1> QED BY <1>1, <1>2, <1>3, <1>4, <1>5, <1>6 DEF Call

\* The steps of a call: the last of it is the step of TreeCache.
LEMMA AtomicStep ==
    ASSUME CallsInv, CallsInv', Stable(Seen), Progress, Step
    PROVE  Stable(Seen)' /\ Progress' /\ (Atomic!Next \/ UNCHANGED Atomic!vars)
<1>1. CASE AdoptOrphan
  BY <1>1, AdoptContinues
<1>2. CASE FinishLoading
  <2>1. Stable(Seen)' /\ Progress' /\ \E id \in DOMAIN Seen.records : Atomic!LoadFromDatabase(id)
    BY <1>2, LoadReturns
  <2> QED BY <2>1 DEF Atomic!Next
<1>3. CASE MarkDeleted
  BY <1>3, MarkDeletedContinues
<1>4. CASE CollectChanges
  BY <1>4, CollectContinues
<1>5. CASE InsertCreated
  BY <1>5, InsertContinues
<1>6. CASE ModifyRecord
  BY <1>6, ModifyContinues
<1>7. CASE DeleteNext
  BY <1>7, DeleteNextContinues
<1>8. CASE MarkRecord
  BY <1>8, MarkRecordContinues
<1>9. CASE ReassignId
  BY <1>9, ReassignContinues
<1>10. CASE MarkSynced
  BY <1>10, MarkSyncedContinues
<1>11. CASE Proceed
  BY <1>11, AtomicProceed
<1>12. CASE SeedRecord
  BY <1>12, SeedContinues
<1>13. CASE Finish
  <2>1. CASE call.at = "remove"
    <3>1. Stable(Seen)' /\ Progress' /\ \E id \in DOMAIN Seen.index : Atomic!Remove(id)
      BY <1>13, <2>1, RemoveReturns
    <3> QED BY <3>1 DEF Atomic!Next
  <2>2. CASE call.at = "sync"
    <3>1. Stable(Seen)' /\ Progress' /\ Atomic!Apply
      BY <1>13, <2>2, ApplyReturns
    <3> QED BY <3>1 DEF Atomic!Next
  <2>3. CASE call.at = "seed"
    <3>1. Stable(Seen)' /\ Progress' /\ Atomic!Reset
      BY <1>13, <2>3, ResetReturns
    <3> QED BY <3>1 DEF Atomic!Next
  <2> QED BY <1>13, <2>1, <2>2, <2>3 DEF Finish
<1> QED BY <1>1, <1>2, <1>3, <1>4, <1>5, <1>6, <1>7, <1>8, <1>9, <1>10, <1>11, <1>12, <1>13
        DEF Step

LEMMA AtomicStutter ==
    ASSUME Stable(Seen), Progress, UNCHANGED callVars
    PROVE  Stable(Seen)' /\ Progress' /\ UNCHANGED Atomic!vars
<1>1. Progress'
  BY ProgressStays
<1>2. Now' = Now /\ Idle' = Idle
  BY ParametersStay DEF Now, Idle
<1>3. Seen' = Seen
  BY <1>2, ParametersStay DEF Seen
<1>4. Stable(Seen)'
  BY <1>3
<1> QED BY <1>1, <1>3, <1>4 DEF Atomic!vars, Atomic!dbVars, Atomic!cacheVars

LEMMA AtomicNext ==
    ASSUME CallsInv, AtomicInv, [Next]_callVars
    PROVE  AtomicInv' /\ [Atomic!Next]_(Atomic!vars)
<1>1. CallsInv' /\ Stable(Seen) /\ Progress
  BY CallsNext DEF AtomicInv
<1>2. Stable(Seen)' /\ Progress' /\ (Atomic!Next \/ UNCHANGED Atomic!vars)
  <2>1. CASE Call
    BY <1>1, <2>1, AtomicCall
  <2>2. CASE Step
    BY <1>1, <2>2, AtomicStep
  <2>3. CASE UNCHANGED callVars
    BY <1>1, <2>3, AtomicStutter
  <2> QED BY <2>1, <2>2, <2>3 DEF Next
<1> QED BY <1>2 DEF AtomicInv

\* What has been there before a call, and how far the call has come from it,
\* is known at every step of every call: what a walk has visited and what it
\* has left, which records a synchronisation has written, which new nodes bear
\* their persistent ids.  Between two calls the ids of the database and of the
\* cache grow downwards.
THEOREM CallsKeepTrack == Spec => []AtomicInv
<1>1. Init => CallsInv /\ AtomicInv
  BY CallsInit, AtomicInit
<1>2. CallsInv /\ AtomicInv /\ [Next]_callVars => (CallsInv /\ AtomicInv)'
  BY CallsNext, AtomicNext
<1> QED BY <1>1, <1>2, PTL DEF Spec

\* Each call of the cache, executed object by object, vector by vector and
\* loop by loop (loadFromDatabase with its adoptions, markDeletedRecursively,
\* collectChanges, the three loops of InMemoryDatabase::apply, reassignIds and
\* markSynced, resetting and seeding), does to the cache and the database what
\* the one step of TreeCache says, and a call shows nothing before it returns.
\* So what is proved of TreeCache is true of the calls as they are executed.
THEOREM CallsImplementCache == Spec => AtomicSpec
<1>1. Init => Atomic!Init
  BY AtomicInit
<1>2. CallsInv /\ AtomicInv /\ [Next]_callVars => [Atomic!Next]_(Atomic!vars)
  BY AtomicNext
<1> QED BY <1>1, <1>2, CallsStayConsistent, CallsKeepTrack, PTL DEF Spec, AtomicSpec, Atomic!Spec

-----------------------------------------------------------------------------
(***************************************************************************)
(* What a call has still to do.  A walk comes to no node twice because     *)
(* none of the nodes on its stack lies below another; key stands for the   *)
(* ids, which grow downwards.                                              *)
(***************************************************************************)
Apart(up, stack) ==
    \A i, j \in DOMAIN stack :
        i # j => stack[i] # stack[j] /\ stack[i] \notin Below(up, {stack[j]})

ParentsOf(objs) == [h \in DOMAIN objs |-> objs[h].parent]

WalksApart ==
    /\ call.at \in {"remove", "collect", "sync"} => Apart(ParentsOf(objects), call.stack)
    /\ call.at = "delete" => Apart(ParentIn(records), call.stack)

KeysGrow(up, key) ==
    /\ key \in [DOMAIN up -> Nat]
    /\ \A x \in DOMAIN up : up[x] \in DOMAIN up => key[up[x]] < key[x]

\* Everything below a node but the node itself lies below its parent's
\* subtree, and has a larger key.
LEMMA BelowHasParent ==
    ASSUME NEW up, NEW x, NEW y \in Below(up, {x}), y # x
    PROVE  up[y] \in Below(up, {x})
<1> DEFINE C == {z \in Below(up, {x}) : z = x \/ up[z] \in Below(up, {x})}
<1>1. C \in SUBSET DOMAIN up
  BY DEF Below
<1>2. {x} \cap DOMAIN up \subseteq C
  BY BelowContains
<1>3. ASSUME NEW z \in DOMAIN up, up[z] \in C
      PROVE  z \in C
  BY <1>3, BelowClosed
<1> HIDE DEF C
<1>4. Below(up, {x}) \subseteq C
  BY <1>1, <1>2, <1>3, BelowLeast
<1> QED BY <1>4 DEF C

LEMMA BelowHasLargerKeys ==
    ASSUME NEW up, NEW key, KeysGrow(up, key), NEW x \in DOMAIN up, NEW y \in Below(up, {x})
    PROVE  y = x \/ key[x] < key[y]
<1> DEFINE C == {z \in DOMAIN up : z = x \/ key[x] < key[z]}
<1>1. ASSUME NEW z \in DOMAIN up, up[z] \in C
      PROVE  z \in C
  <2>1. /\ up[z] \in DOMAIN up /\ key[up[z]] < key[z] /\ key[z] \in Nat
        /\ key[up[z]] \in Nat /\ key[x] \in Nat
    BY <1>1 DEF KeysGrow
  <2> QED BY <1>1, <2>1
<1>2. C \in SUBSET DOMAIN up /\ {x} \cap DOMAIN up \subseteq C
  OBVIOUS
<1> HIDE DEF C
<1>3. Below(up, {x}) \subseteq C
  BY <1>1, <1>2, BelowLeast
<1> QED BY <1>3 DEF C

LEMMA BelowOfAbove ==
    ASSUME NEW up, NEW x, NEW y \in Below(up, {x})
    PROVE  Below(up, {y}) \subseteq Below(up, {x})
<1>1. Below(up, {x}) \in SUBSET DOMAIN up /\ {y} \cap DOMAIN up \subseteq Below(up, {x})
  BY DEF Below
<1>2. \A z \in DOMAIN up : up[z] \in Below(up, {x}) => z \in Below(up, {x})
  BY BelowClosed
<1> QED BY <1>1, <1>2, BelowLeast

\* Where a stack has what it has after a visit: the children come first, then
\* the rest of the stack.
CameFrom(stack, kids, below, i) ==
    \/ i \in DOMAIN kids /\ below[i] = kids[i]
    \/ \E k \in DOMAIN stack : k # 1 /\ i = Len(kids) + k - 1 /\ below[i] = stack[k]

LEMMA StackAfterVisit ==
    ASSUME NEW stack \in Seq(Nat), stack # << >>, NEW kids \in Seq(Nat),
           NEW rest, rest = Tail(stack), NEW below, below = kids \o rest,
           NEW i \in DOMAIN below
    PROVE  CameFrom(stack, kids, below, i)
<1>1. /\ rest \in Seq(Nat)
      /\ \A k \in DOMAIN rest : k + 1 \in DOMAIN stack /\ 1 < k + 1 /\ rest[k] = stack[k + 1]
  BY RestOf
<1>2. /\ \/ i \in DOMAIN kids /\ below[i] = kids[i]
         \/ i - Len(kids) \in DOMAIN rest /\ below[i] = rest[i - Len(kids)]
      /\ i \in Int /\ i - Len(kids) \in Int
  BY <1>1, ConcatElements
<1>3. PICK n \in Nat : n = Len(kids)
  BY LenProperties
<1>4. i \in Int
  BY <1>2
<1>5. CASE i - n \in DOMAIN rest /\ below[i] = rest[i - n]
  <2>1. PICK k : k = i - n + 1
    OBVIOUS
  <2>2. k \in DOMAIN stack /\ 1 < k /\ below[i] = stack[k]
    BY <1>1, <1>5, <2>1
  <2>3. i = n + k - 1 /\ k # 1
    BY <1>4, <1>3, <2>1, <2>2
  <2>4. i = Len(kids) + k - 1
    BY <1>3, <2>3, Zenon
  <2> QED BY <2>2, <2>3, <2>4, Zenon DEF CameFrom
<1>6. CASE i \in DOMAIN kids /\ below[i] = kids[i]
  BY <1>6 DEF CameFrom
<1> QED BY <1>2, <1>3, <1>5, <1>6

\* A walk that visits the node on top of its stack.
VisitsNode(up, stack, x, kids, below) ==
    /\ stack \in Seq(Nat) /\ stack # << >> /\ x = Head(stack)
    /\ kids \in Seq(Nat) /\ below = kids \o Tail(stack)
    /\ \A i \in DOMAIN kids : x \in DOMAIN up /\ kids[i] \in DOMAIN up /\ up[kids[i]] = x
    /\ \A i, j \in DOMAIN kids : i # j => kids[i] # kids[j]

LEMMA VisitKeepsApart ==
    ASSUME NEW up, NEW key, KeysGrow(up, key), NEW stack, NEW x, NEW kids, NEW below,
           VisitsNode(up, stack, x, kids, below), Apart(up, stack)
    PROVE  Apart(up, below)
<1>1. /\ stack \in Seq(Nat) /\ stack # << >> /\ x = stack[1] /\ 1 \in DOMAIN stack
      /\ kids \in Seq(Nat) /\ below = kids \o Tail(stack)
      /\ \A i \in DOMAIN kids : x \in DOMAIN up /\ kids[i] \in DOMAIN up /\ up[kids[i]] = x
      /\ \A i, j \in DOMAIN kids : i # j => kids[i] # kids[j]
  BY DEF VisitsNode
<1>2. ASSUME NEW c \in DOMAIN kids
      PROVE  /\ kids[c] \in Below(up, {x})
             /\ x \notin Below(up, {kids[c]})
  <2>1. x \in DOMAIN up /\ kids[c] \in DOMAIN up /\ up[kids[c]] = x
    BY <1>1
  <2>2. kids[c] \in Below(up, {x})
    BY <2>1, BelowContains, BelowClosed
  <2>3. key[x] < key[kids[c]] /\ key[x] \in Nat /\ key[kids[c]] \in Nat
    BY <2>1 DEF KeysGrow
  <2>4. x \notin Below(up, {kids[c]})
    <3>1. SUFFICES ASSUME x \in Below(up, {kids[c]}) PROVE FALSE
      OBVIOUS
    <3>2. x = kids[c] \/ key[kids[c]] < key[x]
      BY <2>1, <3>1, BelowHasLargerKeys
    <3> QED BY <2>3, <3>2
  <2> QED BY <2>2, <2>4
<1>3. ASSUME NEW c \in DOMAIN kids, NEW k \in DOMAIN stack, k # 1
      PROVE  /\ kids[c] # stack[k]
             /\ kids[c] \notin Below(up, {stack[k]})
             /\ stack[k] \notin Below(up, {kids[c]})
  <2>1. stack[k] \notin Below(up, {x}) /\ x \notin Below(up, {stack[k]})
    BY <1>1, <1>3 DEF Apart
  <2>2. kids[c] # stack[k]
    BY <1>2, <2>1
  <2>3. kids[c] \notin Below(up, {stack[k]})
    BY <1>1, <2>1, <2>2, BelowHasParent
  <2>4. stack[k] \notin Below(up, {kids[c]})
    BY <1>2, <2>1, BelowOfAbove
  <2> QED BY <2>2, <2>3, <2>4
<1>4. ASSUME NEW c \in DOMAIN kids, NEW d \in DOMAIN kids, c # d
      PROVE  kids[c] \notin Below(up, {kids[d]})
  BY <1>1, <1>2, <1>4, BelowHasParent
<1>5. ASSUME NEW i \in DOMAIN below
      PROVE  CameFrom(stack, kids, below, i)
  <2>1. PICK rest : rest = Tail(stack)
    OBVIOUS
  <2>2. stack \in Seq(Nat) /\ stack # << >> /\ kids \in Seq(Nat) /\ below = kids \o rest
    BY <1>1, <2>1
  <2> QED BY <2>1, <2>2, StackAfterVisit
<1>6. ASSUME NEW i \in DOMAIN below, NEW j \in DOMAIN below, i # j
      PROVE  below[i] # below[j] /\ below[i] \notin Below(up, {below[j]})
  <2>1. CASE i \in DOMAIN kids /\ below[i] = kids[i]
    <3>1. CASE j \in DOMAIN kids /\ below[j] = kids[j]
      BY <1>1, <1>4, <1>6, <2>1, <3>1
    <3>2. CASE \E k \in DOMAIN stack : k # 1 /\ j = Len(kids) + k - 1 /\ below[j] = stack[k]
      BY <1>3, <2>1, <3>2
    <3> QED BY <1>5, <3>1, <3>2 DEF CameFrom
  <2>2. CASE \E k \in DOMAIN stack : k # 1 /\ i = Len(kids) + k - 1 /\ below[i] = stack[k]
    <3>1. PICK k \in DOMAIN stack : k # 1 /\ i = Len(kids) + k - 1 /\ below[i] = stack[k]
      BY <2>2
    <3>2. CASE j \in DOMAIN kids /\ below[j] = kids[j]
      BY <1>3, <3>1, <3>2
    <3>3. CASE \E m \in DOMAIN stack : m # 1 /\ j = Len(kids) + m - 1 /\ below[j] = stack[m]
      <4>1. PICK m \in DOMAIN stack : m # 1 /\ j = Len(kids) + m - 1 /\ below[j] = stack[m]
        BY <3>3
      <4>2. m # k
        BY <1>6, <3>1, <4>1
      <4> QED BY <3>1, <4>1, <4>2 DEF Apart
    <3> QED BY <1>5, <3>2, <3>3 DEF CameFrom
  <2> QED BY <1>5, <2>1, <2>2 DEF CameFrom
<1> QED BY <1>6 DEF Apart

\* What lies below some nodes lies below one of them.
LEMMA BelowOneOf ==
    ASSUME NEW up, NEW S, NEW y \in Below(up, S)
    PROVE  \E s \in S : y \in Below(up, {s})
<1> DEFINE C == {z \in DOMAIN up : \E s \in S : z \in Below(up, {s})}
<1>1. S \cap DOMAIN up \subseteq C
  BY BelowContains
<1>2. ASSUME NEW z \in DOMAIN up, up[z] \in C
      PROVE  z \in C
  BY <1>2, BelowClosed
<1>3. C \in SUBSET DOMAIN up
  OBVIOUS
<1> HIDE DEF C
<1>4. Below(up, S) \subseteq C
  BY <1>1, <1>2, <1>3, BelowLeast
<1> QED BY <1>4 DEF C

LEMMA BelowContainsAll ==
    ASSUME NEW up, NEW S
    PROVE  S \cap DOMAIN up \subseteq Below(up, S)
BY DEF Below, ClosedAbove

LEMMA AheadOf ==
    ASSUME NEW up, NEW stack
    PROVE  Ahead(up, stack) = Elements(stack) \cup Below(up, Elements(stack))
BY DEF Ahead, Elements, Seqs!ToSet

LEMMA AheadIsFinite ==
    ASSUME NEW up, IsFiniteSet(DOMAIN up), NEW stack \in Seq(Nat)
    PROVE  IsFiniteSet(Ahead(up, stack)) /\ Cardinality(Ahead(up, stack)) \in Nat
<1>1. IsFiniteSet(DOMAIN stack)
  <2>1. DOMAIN stack = 1..Len(stack) /\ Len(stack) \in Nat
    OBVIOUS
  <2> QED BY <2>1, FS_Interval
<1>2. stack \in Surjection(DOMAIN stack, Elements(stack))
  <2>1. stack = [i \in DOMAIN stack |-> stack[i]]
    OBVIOUS
  <2>2. stack \in [DOMAIN stack -> Elements(stack)]
    BY <2>1 DEF Elements
  <2> QED BY <2>2 DEF Surjection, Elements
<1>3. IsFiniteSet(Elements(stack))
  BY <1>1, <1>2, FS_Surjection
<1>4. IsFiniteSet(Below(up, Elements(stack)))
  <2>1. Below(up, Elements(stack)) \in SUBSET DOMAIN up
    BY DEF Below
  <2> QED BY <2>1, FS_Subset
<1>5. IsFiniteSet(Ahead(up, stack))
  BY <1>3, <1>4, FS_Union, AheadOf
<1> QED BY <1>5, FS_CardinalityType

\* After the visit there is less ahead: the node itself is behind.
LEMMA VisitLeavesLess ==
    ASSUME NEW up, IsFiniteSet(DOMAIN up), NEW key, KeysGrow(up, key), NEW stack, NEW x,
           NEW kids, NEW below, VisitsNode(up, stack, x, kids, below), Apart(up, stack)
    PROVE  /\ below \in Seq(Nat)
           /\ Cardinality(Ahead(up, stack)) \in Nat /\ Cardinality(Ahead(up, below)) \in Nat
           /\ Cardinality(Ahead(up, below)) < Cardinality(Ahead(up, stack))
<1>1. PICK rest : rest = Tail(stack)
  OBVIOUS
<1>2. PICK R, K : R = Elements(rest) /\ K = Elements(kids)
  OBVIOUS
<1>3. /\ stack \in Seq(Nat) /\ stack # << >> /\ x = Head(stack) /\ x \in Nat
      /\ kids \in Seq(Nat) /\ rest \in Seq(Nat) /\ below = kids \o rest
      /\ Elements(stack) = {x} \cup R
  BY <1>1, <1>2, ElementsOfStack DEF VisitsNode
<1>4. below \in Seq(Nat) /\ Elements(below) = K \cup R
  BY <1>2, <1>3, ElementsOfBoth, ConcatProperties
<1>5. ASSUME NEW r \in R
      PROVE  r # x /\ x \notin Below(up, {r})
  <2>1. PICK i \in DOMAIN rest : r = rest[i]
    BY <1>2 DEF Elements
  <2>2. /\ 1 \in DOMAIN stack /\ x = stack[1] /\ i + 1 \in DOMAIN stack /\ 1 # i + 1
        /\ r = stack[i + 1]
    BY <1>1, <1>3, <2>1, RestOf
  <2> QED BY <2>2 DEF Apart
<1>6. ASSUME NEW k \in K
      PROVE  /\ x \in DOMAIN up /\ k \in DOMAIN up /\ up[k] = x
             /\ k # x /\ x \notin Below(up, {k})
  <2>1. x \in DOMAIN up /\ k \in DOMAIN up /\ up[k] = x
    BY <1>2 DEF VisitsNode, Elements
  <2>2. key[x] < key[k] /\ key[x] \in Nat /\ key[k] \in Nat
    BY <2>1 DEF KeysGrow
  <2>3. x # k /\ ~(key[k] < key[x])
    BY <2>2
  <2>4. x \in Below(up, {k}) => x = k \/ key[k] < key[x]
    BY <2>1, BelowHasLargerKeys
  <2> QED BY <2>1, <2>3, <2>4
<1>7. x \notin Below(up, K \cup R)
  BY <1>5, <1>6, BelowOneOf
<1>8. Below(up, K \cup R) \subseteq Below(up, {x} \cup R)
  <2>1. Below(up, {x} \cup R) \in SUBSET DOMAIN up
    BY DEF Below
  <2>2. \A z \in DOMAIN up : up[z] \in Below(up, {x} \cup R) => z \in Below(up, {x} \cup R)
    BY BelowClosed
  <2>3. ({x} \cup R) \cap DOMAIN up \subseteq Below(up, {x} \cup R)
    BY BelowContainsAll
  <2>4. (K \cup R) \cap DOMAIN up \subseteq Below(up, {x} \cup R)
    BY <1>6, <2>2, <2>3
  <2> QED BY <2>1, <2>2, <2>4, BelowLeast
<1>9. PICK A, B : A = Ahead(up, below) /\ B = Ahead(up, stack)
  OBVIOUS
<1>10. A \subseteq B /\ x \in B /\ x \notin A
  <2>1. A = (K \cup R) \cup Below(up, K \cup R) /\ B = ({x} \cup R) \cup Below(up, {x} \cup R)
    BY <1>3, <1>4, <1>9, AheadOf
  <2>2. K \subseteq Below(up, {x} \cup R)
    <3>1. ASSUME NEW k \in K PROVE k \in Below(up, {x} \cup R)
      <4>1. x \in Below(up, {x} \cup R)
        BY <1>6, BelowContainsAll
      <4>2. k \in DOMAIN up /\ up[k] \in Below(up, {x} \cup R)
        BY <1>6, <4>1
      <4> QED BY <4>2, BelowClosed
    <3> QED BY <3>1
  <2> QED BY <1>5, <1>6, <1>7, <1>8, <2>1, <2>2
<1>11. IsFiniteSet(B) /\ Cardinality(B) \in Nat /\ Cardinality(A) \in Nat
  BY <1>3, <1>4, <1>9, AheadIsFinite
<1>12. Cardinality(A) <= Cardinality(B) /\ Cardinality(A) # Cardinality(B)
  BY <1>10, <1>11, FS_Subset
<1> QED BY <1>4, <1>9, <1>11, <1>12

-----------------------------------------------------------------------------
(***************************************************************************)
(* The three numbers.                                                      *)
(***************************************************************************)
Counts == Nat \X Nat \X Nat

\* The first number, the second or the third is less.
LEMMA FewerLoops ==
    ASSUME NEW a \in Counts, NEW b \in Counts, a[1] < b[1]
    PROVE  Less(a, b)
<1>1. 1 \in 1..3 /\ \A j \in 1..(1 - 1) : a[j] = b[j]
  OBVIOUS
<1> QED BY <1>1 DEF Less, Counts

LEMMA FewerRounds ==
    ASSUME NEW a \in Counts, NEW b \in Counts, a[1] = b[1], a[2] < b[2]
    PROVE  Less(a, b)
<1>1. 2 \in 1..3 /\ \A j \in 1..(2 - 1) : a[j] = b[j]
  <2>1. 1..(2 - 1) = {1}
    OBVIOUS
  <2> QED BY <2>1
<1> QED BY <1>1 DEF Less, Counts

LEMMA FewerVisits ==
    ASSUME NEW a \in Counts, NEW b \in Counts, a[1] = b[1], a[2] = b[2], a[3] < b[3]
    PROVE  Less(a, b)
<1>1. 3 \in 1..3 /\ \A j \in 1..(3 - 1) : a[j] = b[j]
  <2>1. 1..(3 - 1) = {1, 2}
    OBVIOUS
  <2> QED BY <2>1
<1> QED BY <1>1 DEF Less, Counts

-----------------------------------------------------------------------------
(***************************************************************************)
(* What remains at each place of a call.                                   *)
(***************************************************************************)
AtEachPlace ==
    /\ call.at = "idle" => Remaining = <<0, 0, 0>>
    /\ call.at = "adopt" => Remaining = <<1, Len(call.stack), 0>>
    /\ call.at = "seed" => Remaining = <<1, Len(SeedRows) + 1 - nextId, 0>>
    /\ call.at = "remove" =>
          Remaining = <<1, 0, Cardinality(Ahead(ParentsOf(objects), call.stack))>>
    /\ call.at = "collect" =>
          Remaining = <<6, 0, Cardinality(Ahead(ParentsOf(objects), call.stack))>>
    /\ call.at = "insert" => Remaining = <<5, Len(call.created), 0>>
    /\ call.at = "modify" => Remaining = <<4, Len(call.modified), 0>>
    /\ call.at = "delete" =>
          Remaining = <<3, Len(call.deleted), Cardinality(Ahead(ParentIn(records), call.stack))>>
    /\ call.at = "reassign" => Remaining = <<2, Len(call.assignedIds), 0>>
    /\ call.at = "sync" =>
          Remaining = <<1, 0, Cardinality(Ahead(ParentsOf(objects), call.stack))>>

LEMMA RemainingAt == AtEachPlace
<1>1. CASE call.at \in {"idle", "adopt", "seed"}
  BY <1>1 DEF AtEachPlace, Remaining
<1>2. CASE call.at \in {"insert", "modify", "reassign"}
  BY <1>2 DEF AtEachPlace, Remaining
<1>3. CASE call.at \in {"remove", "collect", "sync"}
  BY <1>3 DEF AtEachPlace, Remaining, ParentsOf
<1>4. CASE call.at = "delete"
  BY <1>4 DEF AtEachPlace, Remaining
<1> QED BY <1>1, <1>2, <1>3, <1>4 DEF AtEachPlace

\* The objects and the records are finitely many.
LEMMA OnlyFinitelyMany ==
    CallsInv => IsFiniteSet(DOMAIN ParentsOf(objects)) /\ IsFiniteSet(DOMAIN ParentIn(records))
<1> SUFFICES ASSUME CallsInv
             PROVE  IsFiniteSet(DOMAIN ParentsOf(objects)) /\ IsFiniteSet(DOMAIN ParentIn(records))
  OBVIOUS
<1>1. DOMAIN ParentsOf(objects) = 1..Len(objects) /\ Len(objects) \in Nat
  BY ObjectFields DEF CallsInv, Typed, ParentsOf
<1>2. DOMAIN ParentIn(records) = 1..(nextId - 1) /\ nextId - 1 \in Int
  <2>1. records \in [1..(nextId - 1) -> Record] /\ nextId \in 1..(MaxId + 1)
    BY DEF CallsInv, Typed, DbTypeOK
  <2> QED BY <2>1, DatabaseAssumption DEF ParentIn, DatabaseAssumption
<1> QED BY <1>1, <1>2, FS_Interval

\* A reset inserts no more rows than there are.
LEMMA SeedFits ==
    ASSUME CallsInv, Progress, call.at = "seed"
    PROVE  Len(SeedRows) + 1 - nextId \in Nat
<1>1. /\ DOMAIN records = 1..(nextId - 1) /\ nextId \in Nat /\ nextId >= 1
  <2>1. records \in [1..(nextId - 1) -> Record] /\ nextId \in 1..(MaxId + 1)
    BY DEF CallsInv, Typed, DbTypeOK
  <2> QED BY <2>1, DatabaseAssumption DEF DatabaseAssumption
<1>2. \A id \in DOMAIN records : id <= Len(SeedRows)
  BY DEF Progress, Seeding
<1>3. Len(SeedRows) \in Nat
  BY DatabaseAssumption DEF DatabaseAssumption
<1>4. nextId - 1 <= Len(SeedRows)
  <2>1. CASE nextId = 1
    BY <1>3, <2>1
  <2>2. CASE nextId # 1
    <3>1. nextId - 1 \in DOMAIN records
      BY <1>1, <2>2
    <3> QED BY <1>2, <3>1
  <2> QED BY <2>1, <2>2
<1> QED BY <1>1, <1>3, <1>4

LEMMA RemainingCounts == CallsInv /\ AtomicInv => Remaining \in Counts
<1> SUFFICES ASSUME CallsInv, AtomicInv
             PROVE  Remaining \in Counts
  OBVIOUS
<1>1. call \in Frame /\ AtEachPlace /\ Progress
  BY RemainingAt DEF CallsInv, Typed, AtomicInv
<1>2. /\ call.stack \in Seq(Nat) /\ Len(call.stack) \in Nat /\ Len(call.created) \in Nat
      /\ Len(call.modified) \in Nat /\ Len(call.deleted) \in Nat /\ Len(call.assignedIds) \in Nat
  BY <1>1 DEF Frame
<1>3. /\ Cardinality(Ahead(ParentsOf(objects), call.stack)) \in Nat
      /\ Cardinality(Ahead(ParentIn(records), call.stack)) \in Nat
  BY <1>2, OnlyFinitelyMany, AheadIsFinite
<1>4. CASE call.at \in {"idle", "adopt", "insert", "modify", "reassign"}
  BY <1>1, <1>2, <1>4 DEF AtEachPlace, Counts
<1>5. CASE call.at \in {"remove", "collect", "sync"}
  BY <1>1, <1>3, <1>5 DEF AtEachPlace, Counts
<1>6. CASE call.at = "delete"
  BY <1>1, <1>2, <1>3, <1>6 DEF AtEachPlace, Counts
<1>7. CASE call.at = "seed"
  BY <1>1, <1>7, SeedFits DEF AtEachPlace, Counts
<1> QED BY <1>1, <1>4, <1>5, <1>6, <1>7 DEF Frame

\* What a step knows of the two states it joins.
Joined ==
    /\ CallsInv /\ AtomicInv /\ call \in Frame /\ objects \in Seq(Object)
    /\ Stable(Seen) /\ Progress
    /\ AtEachPlace /\ Remaining \in Counts
    /\ AtEachPlace' /\ Remaining' \in Counts /\ call' \in Frame

LEMMA StepJoins ==
    ASSUME CallsInv, AtomicInv, [Next]_callVars
    PROVE  Joined
<1>1. CallsInv' /\ AtomicInv'
  BY CallsNext, AtomicNext
<1>2. AtEachPlace' /\ (CallsInv /\ AtomicInv => Remaining \in Counts)'
  BY RemainingAt, RemainingCounts, PTL
<1>3. call' \in Frame
  BY <1>1 DEF CallsInv, Typed
<1> QED BY <1>1, <1>2, <1>3, RemainingAt, RemainingCounts DEF Joined, CallsInv, Typed, AtomicInv

-----------------------------------------------------------------------------
(***************************************************************************)
(* The walks.                                                              *)
(***************************************************************************)
\* During a walk over objects the parents are those from before the call, in
\* which the ids grow.
LEMMA ParentsFromBefore ==
    ASSUME CallsInv, AtomicInv, call.at \in {"remove", "collect", "sync"}
    PROVE  /\ DOMAIN objects = DOMAIN before.nodes
           /\ \A h \in DOMAIN objects : objects[h].parent = before.nodes[h].parent
<1>1. CASE call.at = "remove"
  <2>1. PICK top, marked : Marking(top, marked)
    BY <1>1 DEF AtomicInv, Progress
  <2> QED BY <2>1 DEF Marking, Kept
<1>2. CASE call.at = "collect"
  <2>1. Now.nodes = before.nodes
    BY <1>2 DEF AtomicInv, Progress, Collecting, SameCache
  <2> QED BY <2>1, NowNodes DEF SameFields
<1>3. CASE call.at = "sync"
  <2>1. PICK visited, order : Marked(order, visited)
    BY <1>3 DEF AtomicInv, Progress
  <2> QED BY <2>1 DEF Marked, Renaming, Kept
<1> QED BY <1>1, <1>2, <1>3

LEMMA ObjectKeysGrow ==
    ASSUME CallsInv, AtomicInv, call.at \in {"remove", "collect", "sync"}
    PROVE  KeysGrow(ParentsOf(objects), [h \in DOMAIN objects |-> before.nodes[h].id])
<1>1. /\ DOMAIN objects = DOMAIN before.nodes
      /\ \A h \in DOMAIN objects : objects[h].parent = before.nodes[h].parent
  BY ParentsFromBefore
<1>2. Stable(before)
  BY SeenInside DEF AtomicInv
<1>3. /\ before.nodes \in Seq(Node)
      /\ \A h \in DOMAIN before.nodes : Hangs(before.nodes, h)
  BY <1>2 DEF Stable, Whole, Descending
<1>4. \A h \in DOMAIN before.nodes : before.nodes[h].id \in Nat /\ h # NoNode
  <2>1. PICK ns : ns = before.nodes
    OBVIOUS
  <2>2. ns \in Seq(Node)
    BY <1>3, <2>1
  <2>3. \A h \in DOMAIN ns : ns[h] \in Node /\ h \in Nat /\ h # 0
    BY <2>2
  <2> QED BY <2>1, <2>3 DEF Node, NoNode
<1>5. ASSUME NEW h \in DOMAIN objects, objects[h].parent \in DOMAIN objects
      PROVE  before.nodes[objects[h].parent].id < before.nodes[h].id
  BY <1>1, <1>3, <1>4, <1>5 DEF Hangs
<1> QED BY <1>1, <1>4, <1>5 DEF KeysGrow, ParentsOf

LEMMA RecordKeysGrow ==
    ASSUME CallsInv, AtomicInv, call.at = "delete"
    PROVE  KeysGrow(ParentIn(records), [id \in DOMAIN records |-> id])
<1>1. records \in [1..(nextId - 1) -> Record] /\ nextId \in 1..(MaxId + 1)
  BY DEF CallsInv, Typed, DbTypeOK
<1>2. PICK order, marked : Deleting(order, marked)
  BY DEF AtomicInv, Progress
<1>3. Stable(before)
  BY SeenInside DEF AtomicInv
<1>4. RowsDescend(records)
  BY <1>1, <1>2, <1>3, RowsDescendMarked DEF Deleting, Inserted, RowsWith
<1>5. DOMAIN records \in SUBSET Nat
  BY <1>1, DatabaseAssumption DEF DatabaseAssumption
<1> QED BY <1>4, <1>5 DEF KeysGrow, ParentIn, RowsDescend

\* A walk over objects visits the one on top of its stack.
LEMMA ObjectVisited ==
    ASSUME CallsInv, AtomicInv, Joined, WalksApart,
           call.at \in {"remove", "collect", "sync"}, call.stack # << >>,
           call'.at = call.at, call'.stack = Descend,
           ParentsOf(objects)' = ParentsOf(objects)
    PROVE  WalksApart' /\ Less(Remaining', Remaining)
<1>1. PICK up, stack, x, kids, below :
          /\ up = ParentsOf(objects) /\ stack = call.stack /\ x = Head(call.stack)
          /\ kids = objects[x].children /\ below = Descend
  OBVIOUS
<1>2. /\ objects \in Seq(Object) /\ Owned(objects, rootList)
      /\ stack \in Seq(Nat) /\ x \in DOMAIN objects /\ below = kids \o Tail(stack)
  BY <1>1, WalkGoesDown DEF CallsInv, Typed, Frame, Descend
<1>3. kids \in Seq(Nat) /\ Keeps(objects, kids, x)
  BY <1>1, <1>2, ObjectFields DEF Owned, VectorOf
<1>4. VisitsNode(up, stack, x, kids, below)
  <2>1. \A i \in DOMAIN kids : x \in DOMAIN up /\ kids[i] \in DOMAIN up /\ up[kids[i]] = x
    BY <1>1, <1>2, <1>3 DEF Keeps, ParentsOf
  <2>2. \A i, j \in DOMAIN kids : i # j => kids[i] # kids[j]
    BY <1>3, RisingDistinct DEF Keeps
  <2> QED BY <1>1, <1>2, <1>3, <2>1, <2>2 DEF VisitsNode
<1>5. PICK key : KeysGrow(up, key)
  BY <1>1, ObjectKeysGrow
<1>6. Apart(up, stack) /\ IsFiniteSet(DOMAIN up)
  BY <1>1, OnlyFinitelyMany DEF WalksApart
<1>7. Apart(up, below)
  BY <1>4, <1>5, <1>6, VisitKeepsApart
<1>8. WalksApart'
  BY <1>1, <1>7 DEF WalksApart
<1>9. PICK many, fewer : many = Cardinality(Ahead(up, stack)) /\ fewer = Cardinality(Ahead(up, below))
  OBVIOUS
<1>10. fewer < many
  BY <1>4, <1>5, <1>6, <1>9, VisitLeavesLess
<1>11. \E loops : Remaining = <<loops, 0, many>> /\ Remaining' = <<loops, 0, fewer>>
  BY <1>1, <1>9 DEF Joined, AtEachPlace
<1>12. Less(Remaining', Remaining)
  BY <1>10, <1>11, FewerVisits DEF Joined
<1> QED BY <1>8, <1>12

LEMMA MarkDeletedEnds ==
    ASSUME CallsInv, AtomicInv, Joined, WalksApart, MarkDeleted
    PROVE  WalksApart' /\ Less(Remaining', Remaining)
<1>1. /\ call.at = "remove" /\ call.stack # << >>
      /\ call' = [call EXCEPT !.stack = Descend]
      /\ objects' = [objects EXCEPT ![Head(call.stack)].status = "Deleted"]
      /\ objects \in Seq(Object)
  BY DEF MarkDeleted, Joined
<1>2. Head(call.stack) \in DOMAIN objects /\ call'.stack = Descend /\ call'.at = call.at
  BY <1>1, WalkGoesDown
<1>3. PICK objs2 : objs2 = objects'
  OBVIOUS
<1>4. OneStatus(objects, objs2, Head(call.stack), "Deleted")
  BY <1>1, <1>2, <1>3, StatusOfOne
<1>5. ParentsOf(objects)' = ParentsOf(objects)
  BY <1>3, <1>4 DEF OneStatus, ParentsOf
<1> QED BY <1>1, <1>2, <1>5, ObjectVisited

LEMMA MarkSyncedEnds ==
    ASSUME CallsInv, AtomicInv, Joined, WalksApart, MarkSynced
    PROVE  WalksApart' /\ Less(Remaining', Remaining)
<1>1. /\ call.at = "sync" /\ call.stack # << >>
      /\ call' = [call EXCEPT !.stack = Descend]
      /\ objects \in Seq(Object)
  BY DEF MarkSynced, Joined
<1>2. PICK x : x = Head(call.stack)
  OBVIOUS
<1>3. x \in DOMAIN objects /\ call'.stack = Descend /\ call'.at = call.at
  BY <1>1, <1>2, WalkGoesDown
<1>4. PICK new : new = Reconciled(objects[x].status)
  OBVIOUS
<1>5. new \in {"New", "Modified", "Deleted", "Unchanged"}
  <2>1. objects[x] \in Object
    BY <1>1, <1>3, ObjectFields
  <2> QED BY <1>4, <2>1, ReconciledTwice DEF Object
<1>6. PICK objs2 : objs2 = objects'
  OBVIOUS
<1>7. objs2 = [objects EXCEPT ![x].status = new]
  BY <1>2, <1>4, <1>6 DEF MarkSynced, Reconciled
<1>8. OneStatus(objects, objs2, x, new)
  BY <1>1, <1>3, <1>5, <1>7, StatusOfOne
<1>9. ParentsOf(objects)' = ParentsOf(objects)
  BY <1>6, <1>8 DEF OneStatus, ParentsOf
<1> QED BY <1>1, <1>3, <1>9, ObjectVisited

LEMMA ListsLeavePlace ==
    ASSUME NEW c \in Frame, NEW d, NEW cr, NEW mo, NEW de, NEW s,
           d = WithLists(c, cr, mo, de, s)
    PROVE  d.at = c.at /\ d.stack = s
BY DEF Frame, WithLists

LEMMA CollectChangesEnds ==
    ASSUME CallsInv, AtomicInv, Joined, WalksApart, CollectChanges
    PROVE  WalksApart' /\ Less(Remaining', Remaining)
<1>1. call.at = "collect" /\ call.stack # << >> /\ objects' = objects /\ call \in Frame
  BY DEF CollectChanges, Joined, cacheVars
<1>2. \E cr, mo, de : call' = WithLists(call, cr, mo, de, Descend)
  BY DEF CollectChanges, WithLists
<1>3. PICK next : next = call'
  OBVIOUS
<1>4. PICK cr, mo, de, s : s = Descend /\ next = WithLists(call, cr, mo, de, s)
  BY <1>2, <1>3
<1>5. next.at = call.at /\ next.stack = s
  BY <1>1, <1>4, ListsLeavePlace
<1>6. ParentsOf(objects)' = ParentsOf(objects)
  BY <1>1 DEF ParentsOf
<1> QED BY <1>1, <1>3, <1>4, <1>5, <1>6, ObjectVisited

\* The children of a record, in any order, take its place on the stack.
LEMMA MarkRecordEnds ==
    ASSUME CallsInv, AtomicInv, Joined, WalksApart, MarkRecord
    PROVE  WalksApart' /\ Less(Remaining', Remaining)
<1>1. /\ call.at = "delete" /\ call.stack # << >> /\ call \in Frame
      /\ records \in [1..(nextId - 1) -> Record] /\ nextId \in 1..(MaxId + 1)
  BY DEF MarkRecord, CallsInv, Typed, DbTypeOK
<1>2. PICK up, x : up = ParentIn(records) /\ x = Head(call.stack)
  OBVIOUS
<1>3. PICK stack \in Seq(Nat) : stack = call.stack
  BY <1>1 DEF Frame
<1>4. PICK rest : rest = Tail(stack)
  OBVIOUS
<1>5. stack # << >> /\ x = Head(stack) /\ rest \in Seq(Nat)
  BY <1>1, <1>2, <1>3, <1>4, RestOf
<1>6. PICK key : KeysGrow(up, key)
  BY <1>1, <1>2, RecordKeysGrow
<1>7. Apart(up, stack) /\ IsFiniteSet(DOMAIN up)
  BY <1>1, <1>2, <1>3, OnlyFinitelyMany DEF WalksApart
<1>8. ASSUME NEW kids \in Seq(Nat), NEW below, below = kids \o rest,
             VisitsNode(up, stack, x, kids, below),
             call' = [call EXCEPT !.stack = below], ParentIn(records)' = up
      PROVE  WalksApart' /\ Less(Remaining', Remaining)
  <2>1. /\ below \in Seq(Nat) /\ Apart(up, below)
        /\ Cardinality(Ahead(up, below)) < Cardinality(Ahead(up, stack))
    BY <1>6, <1>7, <1>8, VisitKeepsApart, VisitLeavesLess
  <2>2. PICK next : next = call'
    OBVIOUS
  <2>3. next.at = "delete" /\ next.stack = below /\ next.deleted = call.deleted
    BY <1>1, <1>8, <2>1, <2>2, StackOnly
  <2>4. WalksApart'
    BY <1>8, <2>1, <2>2, <2>3 DEF WalksApart
  <2>5. PICK many, fewer, left : /\ many = Cardinality(Ahead(up, stack))
                                 /\ fewer = Cardinality(Ahead(up, below))
                                 /\ left = Len(call.deleted)
    OBVIOUS
  <2>6. Remaining = <<3, left, many>>
    BY <1>1, <1>2, <1>3, <2>5 DEF Joined, AtEachPlace
  <2>7. Remaining' = <<3, left, fewer>>
    BY <1>8, <2>2, <2>3, <2>5 DEF Joined, AtEachPlace
  <2>8. Less(Remaining', Remaining)
    BY <2>1, <2>5, <2>6, <2>7, FewerVisits DEF Joined
  <2> QED BY <2>4, <2>8
<1>9. CASE x \notin DOMAIN records
  <2>1. call' = [call EXCEPT !.stack = rest] /\ records' = records
    BY <1>2, <1>3, <1>4, <1>9 DEF MarkRecord
  <2>2. PICK none : none = << >>
    OBVIOUS
  <2>3. none \in Seq(Nat) /\ rest = none \o rest /\ DOMAIN none = {}
    BY <1>5, <2>2, ConcatEmptySeq
  <2>4. VisitsNode(up, stack, x, none, rest)
    BY <1>4, <1>5, <2>3 DEF VisitsNode
  <2>5. ParentIn(records)' = up
    BY <1>2, <2>1
  <2> QED BY <1>8, <2>1, <2>3, <2>4, <2>5
<1>10. CASE x \in DOMAIN records
  <2>1. PICK kids : kids = {c \in DOMAIN records : records[c].parentId = x}
    OBVIOUS
  <2>2. /\ records' = [records EXCEPT ![x].deleted = TRUE]
        /\ \E childIds \in Orders(kids) : call' = [call EXCEPT !.stack = childIds \o rest]
    BY <1>2, <1>3, <1>4, <1>10, <2>1 DEF MarkRecord
  <2>3. PICK childIds \in Orders(kids) : call' = [call EXCEPT !.stack = childIds \o rest]
    BY <2>2
  <2>4. IsFiniteSet(kids) /\ kids \subseteq Nat
    <3>1. kids \in SUBSET (1..(nextId - 1)) /\ nextId - 1 \in Nat
      BY <1>1, <2>1, DatabaseAssumption DEF DatabaseAssumption
    <3>2. IsFiniteSet(1..(nextId - 1)) /\ 1..(nextId - 1) \subseteq Nat
      BY <3>1, FS_Interval
    <3> QED BY <3>1, <3>2, FS_Subset
  <2>5. /\ Cardinality(kids) \in Nat
        /\ childIds \in [1..Cardinality(kids) -> kids]
        /\ \A i, j \in 1..Cardinality(kids) : childIds[i] = childIds[j] => i = j
    <3>1. Cardinality(kids) \in Nat
      BY <2>4, FS_CardinalityType
    <3> QED BY <2>3, <3>1 DEF Orders, Bijection, Injection, IsInjective
  <2>6. childIds \in Seq(Nat)
    <3>1. childIds \in Seq(kids)
      BY <2>5
    <3> QED BY <2>4, <3>1, SeqMonotonic
  <2>7. PICK below : below = childIds \o rest
    OBVIOUS
  <2>8. VisitsNode(up, stack, x, childIds, below)
    <3>1. \A i \in DOMAIN childIds : childIds[i] \in kids
      BY <2>5
    <3>2. \A c \in kids : x \in DOMAIN up /\ c \in DOMAIN up /\ up[c] = x
      BY <1>2, <1>10, <2>1 DEF ParentIn
    <3>3. \A i, j \in DOMAIN childIds : i # j => childIds[i] # childIds[j]
      BY <2>5
    <3> QED BY <1>4, <1>5, <2>6, <2>7, <3>1, <3>2, <3>3 DEF VisitsNode
  <2>9. ParentIn(records)' = up
    <3>1. PICK rows2 : rows2 = records'
      OBVIOUS
    <3>2. /\ DOMAIN rows2 = DOMAIN records
          /\ \A id \in DOMAIN records : id # x => rows2[id] = records[id]
          /\ rows2[x] = [records[x] EXCEPT !.deleted = TRUE]
      BY <1>10, <2>2, <3>1
    <3>3. rows2[x].parentId = records[x].parentId
      <4>1. records[x] \in Record
        BY <1>1, <1>10
      <4> QED BY <3>2, <4>1 DEF Record
    <3> QED BY <1>2, <3>1, <3>2, <3>3 DEF ParentIn
  <2> QED BY <1>8, <2>3, <2>6, <2>7, <2>8, <2>9
<1> QED BY <1>9, <1>10

-----------------------------------------------------------------------------
(***************************************************************************)
(* The loops.                                                              *)
(***************************************************************************)
LEMMA TailIsShorter ==
    ASSUME NEW S, NEW s \in Seq(S), s # << >>
    PROVE  Len(Tail(s)) \in Nat /\ Len(s) \in Nat /\ Len(Tail(s)) < Len(s)
<1>1. Tail(s) \in Seq(S) /\ Len(Tail(s)) = Len(s) - 1
  BY HeadTailProperties
<1> QED BY <1>1, LenProperties

LEMMA ShorterLoop ==
    ASSUME Joined, NEW loops, NEW left, NEW done, NEW visits, NEW walk,
           Remaining = <<loops, left, visits>>, Remaining' = <<loops, done, walk>>, done < left
    PROVE  Less(Remaining', Remaining)
BY FewerRounds DEF Joined

LEMMA LaterLoop ==
    ASSUME Joined, Remaining'[1] < Remaining[1]
    PROVE  Less(Remaining', Remaining)
BY FewerLoops DEF Joined

LEMMA NoWalk ==
    ASSUME call'.at \notin {"remove", "collect", "sync", "delete"}
    PROVE  WalksApart'
BY DEF WalksApart

LEMMA OneApart ==
    ASSUME NEW up, NEW x
    PROVE  Apart(up, <<x>>) /\ Apart(up, << >>)
<1>1. \A i, j \in DOMAIN <<x>> : i = j
  OBVIOUS
<1>2. \A i \in DOMAIN << >> : FALSE
  OBVIOUS
<1> QED BY <1>1, <1>2 DEF Apart

\* No root lies below another: it has no parent there.
LEMMA RootsApart ==
    ASSUME CallsInv
    PROVE  Apart(ParentsOf(objects), rootList)
<1>1. /\ objects \in Seq(Object) /\ rootList \in Seq(Nat) /\ Keeps(objects, rootList, NoNode)
  BY DEF CallsInv, Typed, Owned, VectorOf
<1>2. ASSUME NEW i \in DOMAIN rootList, NEW j \in DOMAIN rootList, i # j
      PROVE  /\ rootList[i] # rootList[j]
             /\ rootList[i] \notin Below(ParentsOf(objects), {rootList[j]})
  <2>1. rootList[i] # rootList[j]
    BY <1>1, <1>2, RisingDistinct DEF Keeps
  <2>2. /\ rootList[i] \in DOMAIN ParentsOf(objects)
        /\ ParentsOf(objects)[rootList[i]] = NoNode
    BY <1>1 DEF Keeps, ParentsOf
  <2>3. NoNode \notin DOMAIN ParentsOf(objects)
    BY <1>1, ObjectFields DEF ParentsOf, NoNode
  <2>4. Below(ParentsOf(objects), {rootList[j]}) \subseteq DOMAIN ParentsOf(objects)
    BY DEF Below
  <2>5. rootList[i] \in Below(ParentsOf(objects), {rootList[j]}) =>
            ParentsOf(objects)[rootList[i]] \in Below(ParentsOf(objects), {rootList[j]})
    BY <2>1, BelowHasParent
  <2> QED BY <2>1, <2>2, <2>3, <2>4, <2>5
<1> QED BY <1>2 DEF Apart

LEMMA AdoptOrphanEnds ==
    ASSUME CallsInv, AtomicInv, Joined, WalksApart, AdoptOrphan
    PROVE  WalksApart' /\ Less(Remaining', Remaining)
<1>1. call.at = "adopt" /\ call.stack # << >> /\ call \in Frame
  BY DEF AdoptOrphan, Joined
<1>2. PICK stack \in Seq(Nat), next \in {call'} : stack = call.stack /\ next = call'
  BY <1>1 DEF Frame
<1>3. Tail(stack) \in Seq(Nat) /\ Len(Tail(stack)) < Len(stack)
  BY <1>1, <1>2, RestOf, TailIsShorter
<1>4. PICK rest \in Seq(Nat) : rest = Tail(stack)
  BY <1>3
<1>5. next = [call EXCEPT !.stack = rest]
  BY <1>2, <1>4 DEF AdoptOrphan
<1>6. next.at = "adopt" /\ next.stack = rest
  BY <1>1, <1>5, StackOnly
<1>7. Remaining = <<1, Len(stack), 0>> /\ Remaining' = <<1, Len(rest), 0>>
  BY <1>1, <1>2, <1>6 DEF Joined, AtEachPlace
<1> QED BY <1>2, <1>3, <1>4, <1>6, <1>7, ShorterLoop, NoWalk

\* Where a call returns nothing is left of it.
LEMMA ReturnEnds ==
    ASSUME Joined, Return, call.at \in {"adopt", "remove", "sync", "seed"}
    PROVE  WalksApart' /\ Less(Remaining', Remaining)
<1>1. call'.at = "idle"
  BY NoCallType DEF Return
<1>2. Remaining'[1] = 0
  BY <1>1 DEF Joined, AtEachPlace
<1>3. Remaining[1] = 1
  BY DEF Joined, AtEachPlace
<1> QED BY <1>1, <1>2, <1>3, LaterLoop, NoWalk

LEMMA FinishLoadingEnds ==
    ASSUME Joined, FinishLoading
    PROVE  WalksApart' /\ Less(Remaining', Remaining)
BY ReturnEnds DEF FinishLoading

LEMMA FinishEnds ==
    ASSUME Joined, Finish
    PROVE  WalksApart' /\ Less(Remaining', Remaining)
BY ReturnEnds DEF Finish

LEMMA InsertCreatedEnds ==
    ASSUME CallsInv, Joined, InsertCreated
    PROVE  WalksApart' /\ Less(Remaining', Remaining)
<1>1. call.at = "insert" /\ call.created # << >> /\ call \in Frame
  BY DEF InsertCreated, Joined
<1>2. PICK created \in Seq(Change), next \in {call'} : created = call.created /\ next = call'
  BY <1>1 DEF Frame
<1>3. PICK rest : rest = Tail(created)
  OBVIOUS
<1>4. Len(rest) < Len(created)
  BY <1>1, <1>2, <1>3, TailIsShorter
<1>5. \E table, assigned : next = WithInserted(call, table, assigned, rest)
  BY <1>2, <1>3 DEF InsertCreated, WithInserted
<1>6. PICK table, assigned : next = WithInserted(call, table, assigned, rest)
  BY <1>5
<1>7. next.at = "insert" /\ next.created = rest
  BY <1>1, <1>6 DEF WithInserted, Frame
<1>8. Remaining = <<5, Len(created), 0>> /\ Remaining' = <<5, Len(rest), 0>>
  BY <1>1, <1>2, <1>7 DEF Joined, AtEachPlace
<1> QED BY <1>2, <1>4, <1>7, <1>8, ShorterLoop, NoWalk

LEMMA ModifyRecordEnds ==
    ASSUME CallsInv, Joined, ModifyRecord
    PROVE  WalksApart' /\ Less(Remaining', Remaining)
<1>1. call.at = "modify" /\ call.modified # << >> /\ call \in Frame
  BY DEF ModifyRecord, Joined
<1>2. PICK modified \in Seq(Change), next \in {call'} : modified = call.modified /\ next = call'
  BY <1>1 DEF Frame
<1>3. Tail(modified) \in Seq(Change) /\ Len(Tail(modified)) < Len(modified)
  BY <1>1, <1>2, RestOf, TailIsShorter
<1>4. PICK rest \in Seq(Change) : rest = Tail(modified)
  BY <1>3
<1>5. next = [call EXCEPT !.modified = rest]
  BY <1>2, <1>4 DEF ModifyRecord
<1>6. next.at = "modify" /\ next.modified = rest
  BY <1>1, <1>5, ModifyFields
<1>7. Remaining = <<4, Len(modified), 0>> /\ Remaining' = <<4, Len(rest), 0>>
  BY <1>1, <1>2, <1>6 DEF Joined, AtEachPlace
<1> QED BY <1>2, <1>3, <1>4, <1>6, <1>7, ShorterLoop, NoWalk

\* A walk of its own for each id.
LEMMA DeleteNextEnds ==
    ASSUME CallsInv, Joined, DeleteNext
    PROVE  WalksApart' /\ Less(Remaining', Remaining)
<1>1. call.at = "delete" /\ call.deleted # << >> /\ call \in Frame
  BY DEF DeleteNext, Joined
<1>2. PICK deleted \in Seq(Change), next \in {call'} : deleted = call.deleted /\ next = call'
  BY <1>1 DEF Frame
<1>3. /\ Tail(deleted) \in Seq(Change) /\ Head(deleted) \in Change
      /\ Len(Tail(deleted)) < Len(deleted)
  BY <1>1, <1>2, RestOf, TailIsShorter
<1>4. PICK rest \in Seq(Change) : rest = Tail(deleted)
  BY <1>3
<1>5. PICK x : x = Head(deleted).id
  OBVIOUS
<1>6. next = [call EXCEPT !.stack = <<x>>, !.deleted = rest]
  BY <1>2, <1>4, <1>5 DEF DeleteNext
<1>7. next.at = "delete" /\ next.stack = <<x>> /\ next.deleted = rest
  BY <1>1, <1>6 DEF Frame
<1>8. WalksApart'
  BY <1>2, <1>7, OneApart DEF WalksApart
<1>9. /\ \E visits : Remaining = <<3, Len(deleted), visits>>
      /\ \E visits : Remaining' = <<3, Len(rest), visits>>
  BY <1>1, <1>2, <1>7 DEF Joined, AtEachPlace
<1> QED BY <1>3, <1>4, <1>8, <1>9, ShorterLoop

LEMMA ReassignIdEnds ==
    ASSUME CallsInv, Joined, ReassignId
    PROVE  WalksApart' /\ Less(Remaining', Remaining)
<1>1. call.at = "reassign" /\ call.assignedIds # << >> /\ call \in Frame
  BY DEF ReassignId, Joined
<1>2. PICK assigned \in Seq(Assignment), next \in {call'} : assigned = call.assignedIds /\ next = call'
  BY <1>1 DEF Frame, Assignment
<1>3. Tail(assigned) \in Seq(Assignment) /\ Len(Tail(assigned)) < Len(assigned)
  BY <1>1, <1>2, RestOf, TailIsShorter
<1>4. PICK rest \in Seq(Assignment) : rest = Tail(assigned)
  BY <1>3
<1>5. next = [call EXCEPT !.assignedIds = rest]
  BY <1>2, <1>4 DEF ReassignId
<1>6. next.at = "reassign" /\ next.assignedIds = rest
  BY <1>1, <1>5, AssignedFields
<1>7. Remaining = <<2, Len(assigned), 0>> /\ Remaining' = <<2, Len(rest), 0>>
  BY <1>1, <1>2, <1>6 DEF Joined, AtEachPlace
<1> QED BY <1>2, <1>3, <1>4, <1>6, <1>7, ShorterLoop, NoWalk

LEMMA SeedRecordEnds ==
    ASSUME CallsInv, AtomicInv, Joined, SeedRecord
    PROVE  WalksApart' /\ Less(Remaining', Remaining)
<1>1. call.at = "seed" /\ call' = call /\ nextId' = nextId + 1
  BY DEF SeedRecord, InsertRecord
<1>2. nextId \in Nat /\ Len(SeedRows) \in Nat
  BY DatabaseAssumption DEF DatabaseAssumption, CallsInv, Typed, DbTypeOK
<1>3. call'.at = "seed"
  BY <1>1
<1>4. PICK left, rest : left = Len(SeedRows) + 1 - nextId /\ rest = Len(SeedRows) + 1 - (nextId + 1)
  OBVIOUS
<1>5. rest < left
  BY <1>2, <1>4
<1>6. Remaining = <<1, left, 0>>
  BY <1>1, <1>4 DEF Joined, AtEachPlace
<1>7. Remaining' = <<1, rest, 0>>
  BY <1>1, <1>3, <1>4 DEF Joined, AtEachPlace
<1> QED BY <1>3, <1>5, <1>6, <1>7, ShorterLoop, NoWalk

\* From a loop to one of the next.
LEMMA ProceedEnds ==
    ASSUME CallsInv, AtomicInv, Joined, Proceed
    PROVE  WalksApart' /\ Less(Remaining', Remaining)
<1>1. call \in Frame /\ AtEachPlace /\ AtEachPlace'
  BY DEF Joined
<1>2. PICK next : next = call'
  OBVIOUS
<1>3. CASE call.at = "collect" /\ call' = [call EXCEPT !.at = "insert"]
  <2>1. next.at = "insert"
    BY <1>1, <1>2, <1>3, PlaceChanges
  <2>2. Remaining[1] = 6 /\ Remaining'[1] = 5
    BY <1>1, <1>2, <1>3, <2>1 DEF AtEachPlace
  <2> QED BY <1>2, <2>1, <2>2, LaterLoop, NoWalk
<1>4. CASE call.at = "insert" /\ call' = [call EXCEPT !.at = "modify"]
  <2>1. next.at = "modify"
    BY <1>1, <1>2, <1>4, PlaceChanges
  <2>2. Remaining[1] = 5 /\ Remaining'[1] = 4
    BY <1>1, <1>2, <1>4, <2>1 DEF AtEachPlace
  <2> QED BY <1>2, <2>1, <2>2, LaterLoop, NoWalk
<1>5. CASE call.at = "modify" /\ call' = [call EXCEPT !.at = "delete"]
  <2>1. next.at = "delete" /\ next.stack = call.stack
    BY <1>1, <1>2, <1>5, PlaceChanges
  <2>2. Remaining[1] = 4 /\ Remaining'[1] = 3
    BY <1>1, <1>2, <1>5, <2>1 DEF AtEachPlace
  <2>3. call.stack = << >>
    BY <1>5 DEF AtomicInv, Progress, Modifying
  <2>4. WalksApart'
    BY <1>2, <2>1, <2>3, OneApart DEF WalksApart
  <2> QED BY <2>2, <2>4, LaterLoop
<1>6. CASE call.at = "delete" /\ call' = [call EXCEPT !.at = "reassign"]
  <2>1. next.at = "reassign"
    BY <1>1, <1>2, <1>6, PlaceChanges
  <2>2. Remaining[1] = 3 /\ Remaining'[1] = 2
    BY <1>1, <1>2, <1>6, <2>1 DEF AtEachPlace
  <2> QED BY <1>2, <2>1, <2>2, LaterLoop, NoWalk
<1>7. CASE call.at = "reassign" /\ call' = [call EXCEPT !.at = "sync", !.stack = rootList]
  <2>1. rootList \in Seq(Nat) /\ objects' = objects
    BY DEF CallsInv, Typed, Proceed, cacheVars
  <2>2. next.at = "sync" /\ next.stack = rootList
    BY <1>1, <1>2, <1>7, <2>1, SyncBegins
  <2>3. Remaining[1] = 2 /\ Remaining'[1] = 1
    BY <1>1, <1>2, <1>7, <2>2 DEF AtEachPlace
  <2>4. Apart(ParentsOf(objects), rootList) /\ ParentsOf(objects)' = ParentsOf(objects)
    BY <2>1, RootsApart DEF ParentsOf
  <2>5. WalksApart'
    BY <1>2, <2>2, <2>4 DEF WalksApart
  <2> QED BY <2>3, <2>5, LaterLoop
<1> QED BY <1>3, <1>4, <1>5, <1>6, <1>7 DEF Proceed

LEMMA StepEnds ==
    ASSUME CallsInv, AtomicInv, Joined, WalksApart, Step
    PROVE  WalksApart' /\ Less(Remaining', Remaining)
BY AdoptOrphanEnds, FinishLoadingEnds, MarkDeletedEnds, CollectChangesEnds, InsertCreatedEnds,
   ModifyRecordEnds, DeleteNextEnds, MarkRecordEnds, ReassignIdEnds, MarkSyncedEnds, ProceedEnds,
   SeedRecordEnds, FinishEnds DEF Step

-----------------------------------------------------------------------------
(***************************************************************************)
(* Every call comes to its end.                                            *)
(***************************************************************************)
\* A call begins with one node or with the roots.
LEMMA CallBegins ==
    ASSUME CallsInv, WalksApart, Call
    PROVE  WalksApart'
<1>1. CASE \E id \in DOMAIN records : LoadFromDatabase(id)
  <2>1. call'.at = "adopt"
    BY <1>1 DEF LoadFromDatabase, Begin, NoCall
  <2> QED BY <2>1, NoWalk
<1>2. CASE \E id \in DOMAIN index, payload \in Payload :
               AddChild(id, payload) \/ EditPayload(id, payload)
  <2>1. call' = NoCall
    BY <1>2 DEF AddChild, EditPayload, Straight, Idle
  <2> QED BY <2>1, NoCallType, NoWalk
<1>3. CASE \E id \in DOMAIN index : Remove(id)
  <2>1. PICK id \in DOMAIN index : Remove(id)
    BY <1>3
  <2>2. PICK s, next : s = <<FindNode(id)>> /\ next = call'
    OBVIOUS
  <2>3. s \in Seq(Nat)
    <3>1. FindNode(id) \in Nat
      BY DEF CallsInv, Typed, Table, FindNode, NoNode
    <3> QED BY <2>2, <3>1
  <2>4. next = [NoCall EXCEPT !.at = "remove", !.stack = s]
    BY <2>1, <2>2 DEF Remove, Begin
  <2>5. next.at = "remove" /\ next.stack = s
    BY <2>3, <2>4, BeginsWalk
  <2> QED BY <2>2, <2>5, OneApart DEF WalksApart
<1>4. CASE Apply
  <2>1. rootList \in Seq(Nat) /\ objects' = objects
    BY <1>4 DEF Apply, cacheVars, CallsInv, Typed
  <2>2. PICK next : next = call'
    OBVIOUS
  <2>3. next.at = "collect" /\ next.stack = rootList
    BY <1>4, <2>1, <2>2, BeginsWalk DEF Apply, Begin
  <2>4. Apart(ParentsOf(objects), rootList) /\ ParentsOf(objects)' = ParentsOf(objects)
    BY <2>1, RootsApart DEF ParentsOf
  <2> QED BY <2>2, <2>3, <2>4 DEF WalksApart
<1>5. CASE Reset
  <2>1. call'.at = "seed"
    BY <1>5, SeedBegins DEF Reset, Begin
  <2> QED BY <2>1, NoWalk
<1> QED BY <1>1, <1>2, <1>3, <1>4, <1>5 DEF Call

LEMMA EndsInit ==
    ASSUME Init
    PROVE  WalksApart
<1>1. call.at = "idle"
  BY NoCallType DEF Init
<1> QED BY <1>1 DEF WalksApart

LEMMA EndsNext ==
    ASSUME CallsInv, AtomicInv, WalksApart, [Next]_callVars
    PROVE  WalksApart' /\ (Step => Less(Remaining', Remaining))
<1>1. Joined
  BY StepJoins
<1>2. CASE Step
  BY <1>1, <1>2, StepEnds
<1>3. WalksApart'
  <2>1. CASE Call
    BY <2>1, CallBegins
  <2>2. CASE UNCHANGED callVars
    <3>1. UNCHANGED <<objects, records, call>>
      BY <2>2 DEF callVars, cacheVars, dbVars
    <3> QED BY <3>1 DEF WalksApart, ParentsOf
  <2> QED BY <1>2, <2>1, <2>2 DEF Next
<1> QED BY <1>2, <1>3

\* markDeletedRecursively, collectChanges and markSynced over the nodes, and
\* markDeletedRecursively over the records of the database, come to no node a
\* second time: what is on the stack of a walk never lies below something else
\* on it.  With every round of a loop its list is shorter, and apply never
\* goes back to a loop it has left.  So each step of a call leaves less to do.
THEOREM StepsLeaveLess == Spec => EachStepLeavesLess
<1>1. Init => CallsInv /\ AtomicInv /\ WalksApart
  BY CallsInit, AtomicInit, EndsInit
<1>2. CallsInv /\ AtomicInv /\ WalksApart /\ [Next]_callVars
          => (CallsInv /\ AtomicInv /\ WalksApart)'
  BY CallsNext, AtomicNext, EndsNext
<1>3. CallsInv /\ AtomicInv /\ WalksApart /\ [Next]_callVars
          => [Step => Less(Remaining', Remaining)]_callVars
  BY EndsNext
<1> QED BY <1>1, <1>2, <1>3, PTL DEF Spec, EachStepLeavesLess

=============================================================================
