------------------------------- MODULE MCFdtab -------------------------------
(* Two threads of one isolation that share the descriptor table.             *)
EXTENDS Fdtab

Prog(o1, o2, c1, c2, bytes, files, fails) ==
    [ops |-> [t \in Threads |-> IF t = "t1" THEN o1 ELSE o2],
     calls |-> [t \in Threads |-> IF t = "t1" THEN c1 ELSE c2],
     bytes |-> bytes, files |-> files, fails |-> fails]

FileOps == {"open", "create", "read", "write", "lseek", "close"}

\* Both threads work on files.
FileProg == Prog(FileOps, FileOps, 3, 2, 1, {"f"}, {})
\* The same on an image that may fail.
DiskProg == Prog(FileOps, FileOps, 2, 2, 1, {"f"}, {"disk"})
\* A server and a client.
ServerProg == Prog({"bind", "accept", "read", "close"}, {"connect", "write", "close"}, 3, 2, 1, {}, {})
\* The same with name lookups; everything may fail.
LookupProg == Prog({"bind", "accept"}, {"connect", "addrinfo", "close"}, 2, 3, 1, {}, {"net"})
\* A thread with sockets and one with files, whose descriptors are reused by the other.
MixedProg == Prog({"connect", "write", "close"}, {"create", "write", "close"}, 3, 3, 1, {"f"}, {"net"})
\* One thread that sends and receives.
StreamProg == Prog({}, {"connect", "read", "write", "close"}, 0, 4, 2, {}, {"net"})

MCPrograms == {FileProg, DiskProg, ServerProg, LookupProg, MixedProg, StreamProg}
MCStream == {StreamProg}
==============================================================================
