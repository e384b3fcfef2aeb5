--------------------------- MODULE MCDiskSnapshot ----------------------------
(* Small instances of DiskSnapshot for TLC: snapshots of two blocks and of one. *)
EXTENDS DiskSnapshot

MCSize == [n \in Tasks |-> IF n = 2 THEN 1 ELSE 2]
=============================================================================
