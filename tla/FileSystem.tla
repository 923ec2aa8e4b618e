----------------------------- MODULE FileSystem -----------------------------
(***************************************************************************)
(* What the file services of common_service take from the file systems they *)
(* are built on (rcore_fs's RamFS and SFS, ext4_rs, ruxfs; all external):   *)
(* a tree of names, inodes, and the bytes of every file, which live on the  *)
(* disk, one file after the other, so that neighbours share a block.        *)
(*                                                                          *)
(* A path is the sequence of its components.  A service's state is a record *)
(* [fs, tab, next]: the file system, FD_TABLE and NEXT_FD; an operation of  *)
(* a service maps a state to an outcome [st, ret, val].                     *)
(***************************************************************************)
EXTENDS RamDisk, FiniteSets, SequencesExt, TLC

CONSTANT FileCap  \* Bound: the bytes a file can hold

Root == <<>>

EmptyFs(disk) == [dir |-> Root :> 0, kind |-> 0 :> "dir", len |-> 0 :> 0, disk |-> disk]

Inodes(fs) == DOMAIN fs.kind
IsFile(fs, i) == fs.kind[i] = "file"

\* Where the bytes of inode i start, and the bytes themselves.
Base(i) == i * FileCap
Content(fs, i) == Slice(fs.disk, Base(i), fs.len[i])

CanCreate(fs, path) ==
    /\ path \notin DOMAIN fs.dir
    /\ path # Root
    /\ Front(path) \in DOMAIN fs.dir
    /\ fs.kind[fs.dir[Front(path)]] = "dir"

\* INode::create; the new inode is the one it returns.
NewInode(fs) == Cardinality(Inodes(fs))
AddInode(fs, path, kind) ==
    LET i == NewInode(fs)
    IN [fs EXCEPT !.dir = path :> i @@ @, !.kind = i :> kind @@ @, !.len = i :> 0 @@ @]

\* How many of n bytes from offset o there are to read.
Available(fs, i, o, n) == IF o < fs.len[i] THEN Least(n, fs.len[i] - o) ELSE 0

\* The file system once n bytes were written to inode i at offset o, disk being the result.
Written(fs, i, o, n, disk) ==
    [fs EXCEPT !.disk = disk, !.len[i] = IF o + n > @ THEN o + n ELSE @]

Names(fs, dir) == {Last(p) : p \in {q \in DOMAIN fs.dir : q # Root /\ Front(q) = dir}}

-----------------------------------------------------------------------------
Done(st, v) == [st |-> st, ret |-> "ok", val |-> v]
Fail(st) == [st |-> st, ret |-> "err", val |-> 0]
Panic(st) == [st |-> st, ret |-> "panic", val |-> 0]

RD(mode) == mode \in {"RD", "RDWR"}
WR(mode) == mode \in {"WR", "RDWR"}
=============================================================================
