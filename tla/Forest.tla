------------------------------- MODULE Forest -------------------------------
(***************************************************************************)
(* Subtrees and ancestors in a forest given by its parent function: up[x]  *)
(* is the parent of x, or a value outside DOMAIN up when x is a root.      *)
(*                                                                         *)
(* The program walks its trees by recursion over children.  What such a    *)
(* walk reaches is stated here as a least fixed point, which both TLC      *)
(* (small domains) and the provers (no induction over data) can use.  That *)
(* the walks of TreeWalks reach it is checked there and proved in          *)
(* ViewsProofs.                                                            *)
(***************************************************************************)

\* The sets of nodes that contain S and every child of their members.
ClosedAbove(up, S) ==
    {C \in SUBSET DOMAIN up : /\ S \cap DOMAIN up \subseteq C
                              /\ \A x \in DOMAIN up : up[x] \in C => x \in C}

\* The nodes of S and all their descendants: the least such set.
Below(up, S) ==
    LET closed == ClosedAbove(up, S) IN {x \in DOMAIN up : \A C \in closed : x \in C}

\* The path from a node x to its root: the least set with x and the parents
\* of its members.
Path(up, x) ==
    {a \in DOMAIN up :
        \A C \in SUBSET DOMAIN up :
            x \in C /\ (\A y \in C : up[y] \in DOMAIN up => up[y] \in C) => a \in C}

=============================================================================
