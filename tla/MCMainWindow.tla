---------------------------- MODULE MCMainWindow ----------------------------
(***************************************************************************)
(* Small instances of MainWindow.                                          *)
(***************************************************************************)
EXTENDS MainWindow

Row(parentId) == [parentId |-> parentId, payload |-> "seed"]

Pair   == <<Row(0), Row(1)>>
Single == <<Row(0)>>

SeedOrEmpty == {"seed", ""}

=============================================================================
