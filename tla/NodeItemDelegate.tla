-------------------------- MODULE NodeItemDelegate --------------------------
(***************************************************************************)
(* presentation/NodeItemDelegate: the picture of an element in either      *)
(* view, by what the user can tell apart in it.                            *)
(***************************************************************************)

\* colorForStatus; a colour that is not valid leaves the one of the palette.
ColorForStatus(status) ==
    CASE status = "New"      -> "green"
      [] status = "Modified" -> "orange"
      [] status = "Deleted"  -> "grey"
      [] OTHER               -> "palette"

\* paintStatusMarker, which is called for every status but Unchanged.
Marker(status) ==
    CASE status = "New"      -> "plus"
      [] status = "Modified" -> "diamond"
      [] status = "Deleted"  -> "cross"
      [] OTHER               -> "none"

Paint(payload, status, hasUnloaded) ==
    [text      |-> payload,
     ellipsis  |-> hasUnloaded,
     color     |-> ColorForStatus(status),
     strikeOut |-> status = "Deleted",
     marker    |-> Marker(status)]

=============================================================================
