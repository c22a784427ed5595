---------------------------- MODULE MCTreeCache -----------------------------
(***************************************************************************)
(* Small instances of TreeCache.                                           *)
(***************************************************************************)
EXTENDS TreeCache

Row(parentId) == [parentId |-> parentId, payload |-> "seed"]

Single == <<Row(0)>>
Pair   == <<Row(0), Row(1)>>
Chain  == <<Row(0), Row(1), Row(2)>>
\* The shapes of the program's seed: two children, and a chain of three.
Branch == <<Row(0), Row(1), Row(1), Row(2)>>

TwoPayloads == {"seed", "text"}
OnePayload  == {"seed"}

=============================================================================
