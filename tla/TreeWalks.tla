----------------------------- MODULE TreeWalks ------------------------------
(***************************************************************************)
(* The recursive walks of the code, over the vectors and the table they    *)
(* walk, written as the code writes them.  The other modules state what    *)
(* they compute without recursion.                                         *)
(***************************************************************************)
EXTENDS RunningCalls

\* children_ of a node and, for NoNode, roots_.
Children(h) == IF h = NoNode THEN rootList ELSE objects[h].children

\* Mutant: the walk goes no deeper than the children of its roots.
MutVisit(S, h) ==
    Seqs!FlattenSeq([i \in DOMAIN Children(h) |->
        SelectSeq(<<Children(h)[i]>> \o Children(Children(h)[i]), LAMBDA n : n \in S)])

\* The nodes of S, as collectChanges and markSubtreeSynced come to them on
\* their way down from a node, or from all roots: the node, then what is
\* visited from each child.
VisitAt(S, visit, n) ==
    (IF n \in S THEN <<n>> ELSE << >>)
        \o Seqs!FlattenSeq([i \in DOMAIN Children(n) |-> visit[Children(n)[i]]])

Visit(S, h) ==
    LET visit[n \in {NoNode} \cup DOMAIN objects] == VisitAt(S, visit, n)
    IN  visit[h]

\* The nodes TreeNode::markDeletedRecursively marks.
MarkedNodes(h) ==
    LET mark[n \in DOMAIN objects] ==
            {n} \cup UNION {mark[Children(n)[i]] : i \in DOMAIN Children(n)}
    IN  mark[h]

\* The records InMemoryDatabase::markDeletedRecursively marks.
MarkedRecords(id) ==
    LET mark[r \in DOMAIN records] ==
            {r} \cup UNION {mark[c] : c \in {k \in DOMAIN records : records[k].parentId = r}}
    IN  IF id \in DOMAIN records THEN mark[id] ELSE {}

-----------------------------------------------------------------------------
\* The walk from roots_ visits every live node exactly once: nothing is sent
\* twice to the database and nothing keeps a stale status after it.
WalkVisitsEachNodeOnce ==
    Idle => LET visited == Visit(DOMAIN objects, NoNode)
            IN  /\ Len(visited) = Len(objects)
                /\ Seqs!ToSet(visited) = DOMAIN objects

\* The new nodes are sent in the order in which the walk meets them, and no
\* other order is possible.
CreationFollowsWalk ==
    Idle => Atomic!CreationOrders = {Visit(Atomic!NodesIn("New"), NoNode)}

\* Both recursive markings stop exactly at the border of the subtree.
MarkingCoversSubtree ==
    Idle => /\ \A h \in DOMAIN objects : MarkedNodes(h) = Atomic!Below(Atomic!Up, {h})
            /\ \A id \in DOMAIN records \cup DOMAIN index :
                  MarkedRecords(id) = Doomed(records, {id})

=============================================================================
