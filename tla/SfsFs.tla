-------------------------------- MODULE SfsFs --------------------------------
(***************************************************************************)
(* The operations of common_service/rcore_sfsfdtab: a SimpleFileSystem made *)
(* afresh on a RAM disk and filled from the image, behind a table of        *)
(* descriptors.  The table's code is that of rcorefdtab, taken over function *)
(* by function (R!), except where the definitions below say otherwise.      *)
(***************************************************************************)
EXTENDS FileSystem

R == INSTANCE RcoreFs WITH UnpackMax <- FileCap  \* no limit of its own

NewWrapper(inode, r, w) == R!NewWrapper(inode, r, w)

\* FileWrapper::read and write; SFS reaches the bytes through the block device.
WrapperRead(st, fd, n) ==
    LET w == st.tab[fd]
        k == Available(st.fs, w.inode, w.offset, n)
    IN IF w.readable /\ IsFile(st.fs, w.inode)
       THEN Done([st EXCEPT !.tab[fd].offset = @ + k],
                 SfsRead(st.fs.disk, Base(w.inode) + w.offset, k))
       ELSE Fail(st)

WrapperWrite(st, fd, s) ==
    LET w == st.tab[fd]
    IN IF w.writable /\ IsFile(st.fs, w.inode)
       THEN Done([st EXCEPT !.fs = Written(@, w.inode, w.offset, Len(s),
                                           SfsWrite(@.disk, Base(w.inode) + w.offset, s)),
                            !.tab[fd].offset = @ + Len(s)],
                 Len(s))
       ELSE Fail(st)

\* One turn of unpack_dir_to_sfs: resize and write_at, whatever the size.
unpack_entry(fs, path, entry) ==
    IF ~CanCreate(fs, path) THEN fs
    ELSE IF entry.kind = "dir" THEN AddInode(fs, path, "dir")
    ELSE LET f == AddInode(fs, path, "file")
             i == NewInode(fs)
         IN Written(f, i, 0, Len(entry.bytes), SfsWrite(f.disk, Base(i), entry.bytes))

-----------------------------------------------------------------------------
alloc_fd(st, inode, r, w) == R!alloc_fd(st, inode, r, w)
remove_fd(st, fd) == R!remove_fd(st, fd)

open_lookup(st, path) == R!open_lookup(st, path)

\* Mutant: a file that came up since the lookup is replaced.
open_create_over(st, path) ==
    Done([st EXCEPT !.fs = AddInode(@, <<Last(path)>>, "file")], NewInode(st.fs))

\* The branch of open that creates the file, in the root directory; the path
\* was looked up before, and another thread may have created it since.
open_create(st, path) ==
    IF CanCreate(st.fs, <<Last(path)>>) /\ Len(path) = 1
    THEN Done([st EXCEPT !.fs = AddInode(@, path, "file")], NewInode(st.fs))
    ELSE Fail(st)

read(st, fd, n) == IF fd \in DOMAIN st.tab THEN WrapperRead(st, fd, n) ELSE Fail(st)

write(st, fd, s) ==
    IF fd \in {1, 2} THEN Done(st, Len(s))
    ELSE IF fd \in DOMAIN st.tab THEN WrapperWrite(st, fd, s) ELSE Fail(st)

close(st, fd) == Done(remove_fd(st, fd), 0)
lseek(st, fd, pos) == R!lseek(st, fd, pos)
stat_clone(st, fd) == R!stat_clone(st, fd)
stat_metadata(st, inode) == R!stat_metadata(st, inode)
readdir_list(st, path) == R!readdir_list(st, path)
readdir_find(st, path, names) == R!readdir_find(st, path, names)

create(st, fd, name) == R!create(st, fd, name)
link(st, fd, name, target) == R!link(st, fd, name, target)
unlink(st, fd, name) == R!unlink(st, fd, name)
rename(st, old, fd, name) == R!rename(st, old, fd, name)
set_metadata(st, fd) == R!set_metadata(st, fd)
flush(st, fd) == R!flush(st, fd)
sync(st, fd) == R!sync(st, fd)
poll(st, fd) == R!poll(st, fd)
set_nonblocking(st, fd) == R!set_nonblocking(st, fd)
=============================================================================
