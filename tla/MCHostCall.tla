----------------------------- MODULE MCHostCall ------------------------------
(* Two threads of one function and a thread of another; the services that    *)
(* file operations and file-backed memory use.                               *)
EXTENDS HostCall

MCApps == {"map", "reduce"}
MCServices == {"fdtab", "fatfs", "stdio", "backend", "ghost"}
MCCalls == {"write", "fatfs_write", "stdout", "fs_image", "register", "spawn", "metric", "bind"}

MCOwner == [c \in MCCalls |->
    CASE c \in {"write"} -> "fdtab"
      [] c = "fatfs_write" -> "fatfs"
      [] c = "stdout" -> "stdio"
      [] c = "register" -> "backend"
      [] c = "bind" -> "ghost"
      [] OTHER -> "visor"]

MCIssues == [l \in MCApps \cup MCServices |->
    CASE l = "map" -> {"write", "register"}
      [] l = "reduce" -> {"metric", "write", "bind"}
      [] l = "fdtab" -> {"fatfs_write", "stdout"}
      [] l = "fatfs" -> {"fs_image"}
      [] l = "backend" -> {"spawn"}
      [] OTHER -> {}]

MCEntry == [t \in {"t1", "t2", "t3"} |-> IF t = "t3" THEN "reduce" ELSE "map"]
==============================================================================
