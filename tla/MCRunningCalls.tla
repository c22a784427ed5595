--------------------------- MODULE MCRunningCalls ---------------------------
(***************************************************************************)
(* Small instances of RunningCalls and Views.                              *)
(***************************************************************************)
EXTENDS Views

Row(parentId) == [parentId |-> parentId, payload |-> "seed"]

Pair == <<Row(0), Row(1)>>
Fork == <<Row(0), Row(1), Row(1)>>

OnePayload == {"seed"}

=============================================================================
