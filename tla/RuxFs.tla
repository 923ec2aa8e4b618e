-------------------------------- MODULE RuxFs --------------------------------
(***************************************************************************)
(* The operations of common_service/ruxfdtab: the descriptor table and the  *)
(* file system are ArceOS's ruxfdtable and ruxfs (external), every call is  *)
(* one critical section of GLOBAL_LOCK, and a closed descriptor is handed   *)
(* out again.  Besides succeeding and failing a call may panic.             *)
(***************************************************************************)
EXTENDS FileSystem

CONSTANT FdMax  \* Bound: the table's capacity

\* The three things that can be in the table.
File(inode, r, w) == [dev |-> "file", inode |-> inode, offset |-> 0, readable |-> r, writable |-> w]
Stdin == [dev |-> "stdin", inode |-> 0, offset |-> 0, readable |-> TRUE, writable |-> FALSE]
Stdout == [dev |-> "stdout", inode |-> 0, offset |-> 0, readable |-> FALSE, writable |-> TRUE]

\* MUST_EXEC
StdTable == 0 :> Stdin @@ 1 :> Stdout @@ 2 :> Stdout

get_file_like(st, fd) == fd \in DOMAIN st.tab

\* File::from_fd: the downcast fails for stdin and stdout.
from_fd(st, fd) == get_file_like(st, fd) /\ st.tab[fd].dev = "file"

\* add_file_like: the lowest free descriptor, or an error when there is none.
add_file_like(st, f) ==
    LET free == 0..FdMax \ DOMAIN st.tab
        fd == CHOOSE x \in free : \A y \in free : x <= y
    IN IF free = {} THEN Fail(st) ELSE Done([st EXCEPT !.tab = fd :> f @@ @], fd)

close_file_like(st, fd) ==
    IF fd \in DOMAIN st.tab
    THEN Done([st EXCEPT !.tab = [f \in DOMAIN @ \ {fd} |-> @[f]]], 0)
    ELSE Fail(st)

-----------------------------------------------------------------------------
\* open: ruxfs (external) wants write access for O_CREAT, opens a directory for
\* reading only and creates a missing file when asked to; then the file is
\* entered in the table.
open(st, path, creat, mode) ==
    LET entered(s, i) == add_file_like(s, File(i, RD(mode), WR(mode)))
    IN IF creat /\ ~WR(mode) THEN Fail(st)
       ELSE IF path \in DOMAIN st.fs.dir
       THEN IF IsFile(st.fs, st.fs.dir[path]) \/ ~WR(mode)
            THEN entered(st, st.fs.dir[path]) ELSE Fail(st)
       ELSE IF creat /\ CanCreate(st.fs, path)
            THEN entered([st EXCEPT !.fs = AddInode(@, path, "file")], NewInode(st.fs))
            ELSE Fail(st)

\* FileLike::write of the three, and the flush, which cannot fail here.
write(st, fd, s) ==
    IF ~get_file_like(st, fd) \/ ~st.tab[fd].writable THEN Fail(st)
    ELSE IF st.tab[fd].dev = "stdout" THEN Done(st, Len(s))
    ELSE LET w == st.tab[fd]
         IN Done([st EXCEPT !.fs = Written(@, w.inode, w.offset, Len(s),
                                           Patch(@.disk, Base(w.inode) + w.offset, s)),
                            !.tab[fd].offset = @ + Len(s)],
                 Len(s))

\* FileLike::read of the three: that of stdin is todo!().
read(st, fd, n) ==
    IF get_file_like(st, fd) /\ st.tab[fd].dev = "stdin" THEN Panic(st)
    ELSE IF ~get_file_like(st, fd) \/ ~st.tab[fd].readable \/ ~IsFile(st.fs, st.tab[fd].inode)
    THEN Fail(st)
    ELSE LET w == st.tab[fd]
             k == Available(st.fs, w.inode, w.offset, n)
         IN Done([st EXCEPT !.tab[fd].offset = @ + k],
                 Slice(st.fs.disk, Base(w.inode) + w.offset, k))

close(st, fd) == close_file_like(st, fd)

lseek(st, fd, pos) ==
    IF from_fd(st, fd) THEN Done([st EXCEPT !.tab[fd].offset = pos], 0) ELSE Fail(st)

stat(st, fd) ==
    IF from_fd(st, fd) THEN Done(st, st.fs.len[st.tab[fd].inode]) ELSE Fail(st)

\* readdir unwraps what read_dir returns.
readdir(st, path) ==
    IF path \in DOMAIN st.fs.dir /\ ~IsFile(st.fs, st.fs.dir[path])
    THEN Done(st, Names(st.fs, path)) ELSE Panic(st)
=============================================================================
