---------------------------- MODULE MCFileBackend ----------------------------
(* A function that maps two files, and another thread that maps one.         *)
EXTENDS FileBackend

MCOwner == [r \in {"r1", "r2", "r3"} |-> IF r = "r3" THEN "c2" ELSE "c1"]
==============================================================================
