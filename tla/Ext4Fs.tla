------------------------------- MODULE Ext4Fs -------------------------------
(***************************************************************************)
(* The operations of common_service/ext4fdtab: the ext4 image itself is the *)
(* disk, and a descriptor keeps the inode as it was when it was opened.     *)
(***************************************************************************)
EXTENDS FileSystem

\* A FileWrapper holds a copy of the inode: size is the st_size of that copy.
NewWrapper(fs, inode, r, w) ==
    [inode |-> inode, offset |-> 0, readable |-> r, writable |-> w, size |-> fs.len[inode]]

WrapperRead(st, fd, n) ==
    LET w == st.tab[fd]
        k == Available(st.fs, w.inode, w.offset, n)
    IN IF w.readable /\ IsFile(st.fs, w.inode)
       THEN Done([st EXCEPT !.tab[fd].offset = @ + k],
                 Ext4Read(st.fs.disk, Base(w.inode) + w.offset, k))
       ELSE Fail(st)

WrapperWrite(st, fd, s) ==
    LET w == st.tab[fd]
    IN IF w.writable /\ IsFile(st.fs, w.inode)
       THEN Done([st EXCEPT !.fs = Written(@, w.inode, w.offset, Len(s),
                                           Ext4WriteOffset(@.disk, Base(w.inode) + w.offset, s)),
                            !.tab[fd].offset = @ + Len(s)],
                 Len(s))
       ELSE Fail(st)

\* ext4_file_open(path, "r"): the flags of the caller are not looked at.
open_lookup(st, path) == IF path \in DOMAIN st.fs.dir THEN Done(st, st.fs.dir[path]) ELSE Fail(st)

alloc_fd(st, inode, r, w) ==
    Done([st EXCEPT !.tab = st.next :> NewWrapper(st.fs, inode, r, w) @@ @, !.next = @ + 1], st.next)

remove_fd(st, fd) == [st EXCEPT !.tab = [f \in DOMAIN @ \ {fd} |-> @[f]]]

read(st, fd, n) == IF fd \in DOMAIN st.tab THEN WrapperRead(st, fd, n) ELSE Fail(st)

write(st, fd, s) ==
    IF fd \in {1, 2} THEN Done(st, Len(s))
    ELSE IF fd \in DOMAIN st.tab THEN WrapperWrite(st, fd, s) ELSE Fail(st)

\* FileWrapper::stat: of the copy.
stat(st, fd) == IF fd \in DOMAIN st.tab THEN Done(st, st.tab[fd].size) ELSE Fail(st)

close(st, fd) == Done(remove_fd(st, fd), 0)

lseek(st, fd, pos) ==
    IF fd \in DOMAIN st.tab THEN Done([st EXCEPT !.tab[fd].offset = pos], 0) ELSE Fail(st)

readdir(st, path) ==
    IF path \in DOMAIN st.fs.dir /\ ~IsFile(st.fs, st.fs.dir[path])
    THEN Done(st, Names(st.fs, path)) ELSE Fail(st)
=============================================================================
