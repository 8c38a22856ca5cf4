--------------------------- MODULE MCButtonDriver ---------------------------
(* Values for the run of ButtonDriver. *)
EXTENDS ButtonDriver

CONSTANTS b1, b2, p1, p2

TwoButtons == {b1, b2}
Both       == {p1, p2}
=============================================================================
