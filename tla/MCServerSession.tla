--------------------------- MODULE MCServerSession ---------------------------
(* Small instances of ServerSession for TLC: an upload larger than the ring  *)
(* can hold, one that fits a slot with room for the trailer, and an empty one. *)
EXTENDS ServerSession

CONSTANTS big, small, empty

MCFile == {big, small, empty}
MCFileSize == [f \in File |-> IF f = big THEN 3 ELSE IF f = small THEN 1 ELSE 0]
=============================================================================
