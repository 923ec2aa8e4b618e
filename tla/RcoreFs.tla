------------------------------- MODULE RcoreFs -------------------------------
(***************************************************************************)
(* The operations of common_service/rcorefdtab: a RamFS filled from the     *)
(* image of the isolation, behind a table of descriptors.  Each operator is *)
(* one critical section of the code; FileService composes them.             *)
(***************************************************************************)
EXTENDS FileSystem

CONSTANT UnpackMax  \* 100 MiB: larger files of the image are left out

NewWrapper(inode, r, w) == [inode |-> inode, offset |-> 0, readable |-> r, writable |-> w]

\* FileWrapper::read on a RamFS inode; reading a directory fails in RamFS.
WrapperRead(st, fd, n) ==
    LET w == st.tab[fd]
        k == Available(st.fs, w.inode, w.offset, n)
    IN IF w.readable /\ IsFile(st.fs, w.inode)
       THEN Done([st EXCEPT !.tab[fd].offset = @ + k],
                 Slice(st.fs.disk, Base(w.inode) + w.offset, k))
       ELSE Fail(st)

\* FileWrapper::write: at the wrapper's own offset, which moves by what was written.
WrapperWrite(st, fd, s) ==
    LET w == st.tab[fd]
    IN IF w.writable /\ IsFile(st.fs, w.inode)
       THEN Done([st EXCEPT !.fs = Written(@, w.inode, w.offset, Len(s),
                                           Patch(@.disk, Base(w.inode) + w.offset, s)),
                            !.tab[fd].offset = @ + Len(s)],
                 Len(s))
       ELSE Fail(st)

-----------------------------------------------------------------------------
(* init *)

\* What unpack_dir_to_ramfs leaves out.
Skipped(entry) == Len(entry.bytes) > UnpackMax

\* One turn of unpack_dir_to_ramfs: a directory is created or found, a file is
\* created and filled unless it is too large or there already.
unpack_entry(fs, path, entry) ==
    IF ~CanCreate(fs, path) THEN fs
    ELSE IF entry.kind = "dir" THEN AddInode(fs, path, "dir")
    ELSE IF Skipped(entry) THEN fs
    ELSE LET f == AddInode(fs, path, "file")
             i == NewInode(fs)
         IN Written(f, i, 0, Len(entry.bytes), Patch(f.disk, Base(i), entry.bytes))

\* lookup("/dev/stdin").unwrap_or(root), and so on.
StdInode(fs, path) == IF path \in DOMAIN fs.dir THEN fs.dir[path] ELSE fs.dir[Root]

\* The end of init, the image unpacked: descriptors 0, 1 and 2.
init_table(st) ==
    [st EXCEPT !.tab =
        0 :> NewWrapper(StdInode(st.fs, <<"dev", "stdin">>), TRUE, FALSE) @@
        1 :> NewWrapper(StdInode(st.fs, <<"dev", "stdout">>), FALSE, TRUE) @@
        2 :> NewWrapper(StdInode(st.fs, <<"dev", "stderr">>), FALSE, TRUE) @@ @]

-----------------------------------------------------------------------------
(* The table.  fds 0, 1 and 2 of init are never handed out again. *)

\* Mutant: the descriptor is the number of entries, so a closed one comes back.
alloc_fd_count(st, inode, r, w) ==
    LET fd == Cardinality(DOMAIN st.tab) IN Done([st EXCEPT !.tab = fd :> NewWrapper(inode, r, w) @@ @], fd)

alloc_fd(st, inode, r, w) ==
    Done([st EXCEPT !.tab = st.next :> NewWrapper(inode, r, w) @@ @, !.next = @ + 1], st.next)

remove_fd(st, fd) == [st EXCEPT !.tab = [f \in DOMAIN @ \ {fd} |-> @[f]]]

\* The part of open before alloc_fd: O_CREAT makes no difference.
open_lookup(st, path) == IF path \in DOMAIN st.fs.dir THEN Done(st, st.fs.dir[path]) ELSE Fail(st)

read(st, fd, n) == IF fd \in DOMAIN st.tab THEN WrapperRead(st, fd, n) ELSE Fail(st)

\* Descriptors 1 and 2 go to the host's stdout whatever the table says.
write(st, fd, s) ==
    IF fd \in {1, 2} THEN Done(st, Len(s))
    ELSE IF fd \in DOMAIN st.tab THEN WrapperWrite(st, fd, s) ELSE Fail(st)

close(st, fd) == Done(remove_fd(st, fd), 0)

lseek(st, fd, pos) ==
    IF fd \in DOMAIN st.tab THEN Done([st EXCEPT !.tab[fd].offset = pos], 0) ELSE Fail(st)

\* get_file_wrapper, and then, the table unlocked, the metadata of the clone's inode.
stat_clone(st, fd) == IF fd \in DOMAIN st.tab THEN Done(st, st.tab[fd].inode) ELSE Fail(st)
stat_metadata(st, inode) == Done(st, st.fs.len[inode])

\* readdir: the names of the directory, and then those of them still there.
readdir_list(st, path) ==
    IF path \in DOMAIN st.fs.dir /\ ~IsFile(st.fs, st.fs.dir[path])
    THEN Done(st, Names(st.fs, path)) ELSE Fail(st)
readdir_find(st, path, names) == Done(st, names \cap Names(st.fs, path))

-----------------------------------------------------------------------------
(* The calls on directories.  A parent is given by its descriptor. *)

DirOf(st, fd) == CHOOSE p \in DOMAIN st.fs.dir : st.fs.dir[p] = st.tab[fd].inode
Child(st, fd, name) == Append(DirOf(st, fd), name)
IsDirFd(st, fd) == fd \in DOMAIN st.tab /\ ~IsFile(st.fs, st.tab[fd].inode)

\* create up to alloc_fd, which it calls with FD_TABLE still locked.
create(st, fd, name) ==
    IF IsDirFd(st, fd) /\ CanCreate(st.fs, Child(st, fd, name))
    THEN Done([st EXCEPT !.fs = AddInode(@, Child(st, fd, name), "file")], NewInode(st.fs))
    ELSE Fail(st)

link(st, fd, name, target) ==
    IF /\ IsDirFd(st, fd) /\ target \in DOMAIN st.tab
       /\ IsFile(st.fs, st.tab[target].inode)
       /\ CanCreate(st.fs, Child(st, fd, name))
    THEN Done([st EXCEPT !.fs.dir = Child(st, fd, name) :> st.tab[target].inode @@ @], 0)
    ELSE Fail(st)

unlink(st, fd, name) ==
    IF /\ IsDirFd(st, fd) /\ Child(st, fd, name) \in DOMAIN st.fs.dir
       /\ IsFile(st.fs, st.fs.dir[Child(st, fd, name)])
    THEN Done([st EXCEPT !.fs.dir = [p \in DOMAIN @ \ {Child(st, fd, name)} |-> @[p]]], 0)
    ELSE Fail(st)

\* rename asks the new parent to move an entry named by the inode's number: no
\* file of the image or of a program has such a name, and the move fails.
rename(st, old, fd, name) == Fail(st)

\* set_metadata, flush, sync and poll change nothing the table or the files hold.
set_metadata(st, fd) == IF fd \in DOMAIN st.tab THEN Done(st, 0) ELSE Fail(st)
flush(st, fd) == IF fd \in DOMAIN st.tab THEN Done(st, 0) ELSE Fail(st)
sync(st, fd) == IF fd \in DOMAIN st.tab THEN Done(st, 0) ELSE Fail(st)
poll(st, fd) == IF fd \in DOMAIN st.tab THEN Done(st, 0) ELSE Fail(st)
set_nonblocking(st, fd) == Done(st, 0)
=============================================================================
