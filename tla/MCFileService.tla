---------------------------- MODULE MCFileService ----------------------------
EXTENDS FileService

CONSTANTS c1, c2

Create(p) == [op |-> "create", path |-> p]
Open(p) == [op |-> "open", path |-> p]
WriteOp(h, s) == [op |-> "write_all", h |-> h, bytes |-> s]
On(op, h) == [op |-> op, h |-> h]
Of(op, h, name) == [op |-> op, h |-> h, name |-> name]

A == <<"a">>
B == <<"b">>
X == <<"d", "x">>

\* user/simple_file
SimpleFile(p, s) ==
    <<Create(p), WriteOp(1, s), Open(p), On("read_to_end", 2), [op |-> "assert_eq", bytes |-> s],
      [op |-> "seek", h |-> 2, pos |-> 0], On("read_to_end", 2), [op |-> "assert_eq", bytes |-> s],
      On("metadata", 2), [op |-> "check_size"]>>

MCImage == <<[path |-> A, kind |-> "file", bytes |-> <<1, 2>>],
             [path |-> <<"d">>, kind |-> "dir", bytes |-> <<>>],
             [path |-> X, kind |-> "file", bytes |-> <<1, 2, 3>>]>>

Plan(s, p1, p2) == [svc |-> s, mounts |-> TRUE, image |-> MCImage, prog |-> c1 :> p1 @@ c2 :> p2]
Svcs == {"rcore", "sfs", "ext4", "rux"}

Writers(s) == {Plan(s, SimpleFile(B, <<3, 1>>), SimpleFile(A, <<3, 1, 3>>)),
               Plan(s, SimpleFile(X, <<2>>), <<Open(A), On("read_to_end", 1), [op |-> "stdin"]>>),
               Plan(s, <<Create(B), WriteOp(1, <<1, 1>>)>>, <<Create(B), WriteOp(1, <<2>>), On("read_to_end", 1)>>),
               Plan(s, <<Open(A), WriteOp(1, <<3>>)>>, <<Create(A), WriteOp(1, <<2>>), On("metadata", 1)>>),
               Plan(s, <<[op |-> "readdir", path |-> Root], [op |-> "readdir", path |-> B], Open(A)>>,
                       <<[op |-> "print", bytes |-> <<1>>], Open(Root), On("read_to_end", 1)>>)}

\* Calls on a descriptor that is not open.
Stale(s) == {Plan(s, <<[op |-> "seek", h |-> 0, pos |-> 1]>>, <<Open(A), On("metadata", 0)>>),
             Plan(s, <<WriteOp(0, <<1>>)>>, <<Open(X), On("read_to_end", 0)>>)}

\* Calls only rcorefdtab and rcore_sfsfdtab have.
Dirs(s) == {Plan(s, <<Open(Root), Of("mknod", 1, "a"), Of("mknod", 1, "b")>>, <<Open(A), On("read_to_end", 1)>>),
            Plan(s, <<Open(Root), Open(A), Of("link", 1, "l") @@ [target |-> 2], Of("rename", 1, "m") @@ [target |-> 2],
                      On("set_metadata", 2), On("flush", 2), On("sync", 2), On("poll", 2), On("set_nonblocking", 2),
                      Of("unlink", 1, "l")>>,
                    <<[op |-> "readdir", path |-> Root], Open(<<"l">>), On("read_to_end", 1)>>)}

\* A file system that cannot be made, and an image that cannot be read.
Broken == {[Plan(s, SimpleFile(A, <<3, 3>>), <<Create(B)>>) EXCEPT !.mounts = FALSE] : s \in {"sfs", "ext4"}}
             \cup {[Plan(s, SimpleFile(A, <<3, 3>>), <<Open(A)>>) EXCEPT !.image = <<>>] : s \in {"rcore", "sfs"}}

\* More Files than ruxfdtab's table has room for.
Full == {Plan("rux", <<Open(A), Open(A), Open(X)>>, <<Create(B), Open(X), On("read_to_end", 2)>>)}

MCPlans == UNION {Writers(s) \cup Stale(s) : s \in Svcs} \cup Dirs("rcore") \cup Dirs("sfs") \cup Broken \cup Full
=============================================================================
