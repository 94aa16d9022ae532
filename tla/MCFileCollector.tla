--------------------------- MODULE MCFileCollector ---------------------------
(* An instance of FileCollector for TLC: files in directories that main      *)
(* watches.                                                                 *)
EXTENDS FileCollector

Flat == [p \in Paths |-> None]
=============================================================================
