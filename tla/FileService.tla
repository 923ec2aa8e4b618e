----------------------------- MODULE FileService -----------------------------
(***************************************************************************)
(* The functions of an isolation as users of its file service.  A client is *)
(* a function's thread working through as_std::fs::File (and, for the calls *)
(* File does not wrap, the service's own symbols); the service is one of    *)
(* rcorefdtab, rcore_sfsfdtab, ext4fdtab and ruxfdtab.  A step is a         *)
(* critical section: what happens between taking and releasing the table's  *)
(* lock, or one call to the file system outside of it.                      *)
(***************************************************************************)
EXTENDS FileSystem

CONSTANTS Clients,
          Plans,     \* what may run: the service, whether it can mount, the image, the programs
          Byte,      \* the bytes files hold
          UnpackMax, FdMax,
          Chunk,     \* the buffer of read_to_end, 1024 bytes
          DiskSize,  \* Bound: the size of the image
          StaleFd,   \* a descriptor that is not open, for calls on File 0
          None

ASSUME FileServiceAssumption ==
    /\ Chunk \in Nat \ {0} /\ DiskSize \in Nat
    /\ None \notin Clients

RC == INSTANCE RcoreFs
SF == INSTANCE SfsFs
E4 == INSTANCE Ext4Fs
RX == INSTANCE RuxFs

VARIABLES plan,    \* the plan that runs
          st,      \* the service: file system, FD_TABLE, NEXT_FD
          init,    \* INIT_DONE: "no", "busy" or "done"
          todo,    \* the client that forced it and the image entries it has yet to unpack
          locked,  \* the client that never gives FD_TABLE back, or None
          cl,      \* client -> [ip, at, val, hs, got, size, names, end]
          rest,    \* client -> what its write_all has still to write
          buf,     \* client -> the bytes its last read returned
          missed   \* the paths that open reported as missing

vars == <<plan, st, init, todo, locked, cl, rest, buf, missed>>
svc == plan.svc

Op(c) == plan.prog[c][cl[c].ip]
Fd(c) == IF Op(c).h = 0 THEN StaleFd ELSE cl[c].hs[Op(c).h]

\* An image that is a file system of its own (external): the disk with its files on it.
OnDisk(fs, e) ==
    LET f == AddInode(fs, e.path, e.kind)
        i == NewInode(fs)
    IN Written(f, i, 0, Len(e.bytes), Patch(f.disk, Base(i), e.bytes))
Mounted(image) ==
    LET f[n \in 0..Len(image)] ==
            IF n = 0 THEN EmptyFs(DiskFrom(Zeros(DiskSize))) ELSE OnDisk(f[n - 1], image[n])
    IN f[Len(image)]

\* RamFS::new, the RAM disk of the image's size, and the image of ext4 and ruxfs.
FirstFs ==
    IF svc \in {"rcore", "sfs"} \/ ~plan.mounts THEN EmptyFs(NewDisk(DiskSize)) ELSE Mounted(plan.image)

Init ==
    /\ plan \in Plans
    /\ st = [fs |-> FirstFs, tab |-> IF svc = "rux" THEN RX!StdTable ELSE <<>>, next |-> 3]
    /\ init = "no" /\ todo = [by |-> None, image |-> <<>>]
    /\ locked = None
    /\ cl = [c \in Clients |->
               [ip |-> 1, at |-> "call", val |-> 0, hs |-> <<>>, got |-> <<>>, size |-> 0, names |-> {}, end |-> "ok"]]
    /\ rest = [c \in Clients |-> <<>>]
    /\ buf = [c \in Clients |-> <<>>]
    /\ missed = {}

-----------------------------------------------------------------------------
(* The service that runs *)

Read(fd, n) ==
    CASE svc = "rcore" -> RC!read(st, fd, n) [] svc = "sfs" -> SF!read(st, fd, n)
      [] svc = "ext4" -> E4!read(st, fd, n) [] svc = "rux" -> RX!read(st, fd, n)
Write(fd, s) ==
    CASE svc = "rcore" -> RC!write(st, fd, s) [] svc = "sfs" -> SF!write(st, fd, s)
      [] svc = "ext4" -> E4!write(st, fd, s) [] svc = "rux" -> RX!write(st, fd, s)
Close(fd) ==
    CASE svc = "rcore" -> RC!close(st, fd) [] svc = "sfs" -> SF!close(st, fd)
      [] svc = "ext4" -> E4!close(st, fd) [] svc = "rux" -> RX!close(st, fd)
Lseek(fd, pos) ==
    CASE svc = "rcore" -> RC!lseek(st, fd, pos) [] svc = "sfs" -> SF!lseek(st, fd, pos)
      [] svc = "ext4" -> E4!lseek(st, fd, pos) [] svc = "rux" -> RX!lseek(st, fd, pos)
Lookup(path) ==
    CASE svc = "rcore" -> RC!open_lookup(st, path) [] svc = "sfs" -> SF!open_lookup(st, path)
      [] svc = "ext4" -> E4!open_lookup(st, path)
AllocFd(inode, r, w) ==
    CASE svc = "rcore" -> RC!alloc_fd(st, inode, r, w) [] svc = "sfs" -> SF!alloc_fd(st, inode, r, w)
      [] svc = "ext4" -> E4!alloc_fd(st, inode, r, w)

-----------------------------------------------------------------------------
(* INIT_DONE: the first call of any client runs init, the others wait for it. *)

\* Mutant: a call goes ahead as soon as init has begun.
ReadyEarly(c) == init # "no" /\ todo.by # c

Ready(c) == init = "done"

StartInit(c) ==
    /\ init = "no" /\ cl[c].at = "call"
    /\ init' = "busy"
    /\ todo' = [by |-> c, image |-> IF svc \in {"rcore", "sfs"} /\ plan.mounts THEN plan.image ELSE <<>>]
    /\ UNCHANGED <<plan, st, locked, cl, rest, buf, missed>>

\* The next entry of the image into the file system.
Unpack(c) ==
    /\ init = "busy" /\ todo.by = c /\ todo.image # <<>>
    /\ LET e == Head(todo.image)
       IN st' = [st EXCEPT !.fs = IF svc = "rcore" THEN RC!unpack_entry(@, e.path, e)
                                                   ELSE SF!unpack_entry(@, e.path, e)]
    /\ todo' = [todo EXCEPT !.image = Tail(@)]
    /\ UNCHANGED <<plan, init, locked, cl, rest, buf, missed>>

FinishInit(c) ==
    /\ init = "busy" /\ todo.by = c /\ todo.image = <<>>
    /\ init' = "done"
    /\ st' = IF svc = "rcore" THEN RC!init_table(st) ELSE st
    /\ UNCHANGED <<plan, todo, locked, cl, rest, buf, missed>>

-----------------------------------------------------------------------------
(* A client's own state *)

Advance(c, r) == cl' = [cl EXCEPT ![c] = [r EXCEPT !.ip = @ + 1, !.at = "call"]]

\* The function returns the error or panics: its handles are dropped on the way out.
GiveUp(c, how) ==
    /\ cl' = [cl EXCEPT ![c].at = "drop", ![c].end = how]
    /\ rest' = [rest EXCEPT ![c] = <<>>]

Calls(c, ops) ==
    /\ cl[c].at = "call" /\ cl[c].ip \in DOMAIN plan.prog[c] /\ Op(c).op \in ops
    /\ Ready(c)

-----------------------------------------------------------------------------
(* File::create and File::open *)

Path(c) == Op(c).path
Creat(c) == Op(c).op = "create"
Mode(c) == IF Creat(c) THEN "RDWR" ELSE "RD"
WithHandle(c, fd) == [cl[c] EXCEPT !.hs = Append(@, fd)]

\* ruxfdtab: one critical section of GLOBAL_LOCK.
OpenRux(c) ==
    /\ Calls(c, {"create", "open"}) /\ svc = "rux"
    /\ LET r == RX!open(st, Path(c), Creat(c), Mode(c))
       IN /\ st' = r.st
          /\ \/ r.ret = "ok" /\ Advance(c, WithHandle(c, r.val)) /\ UNCHANGED <<rest, missed>>
             \/ r.ret # "ok" /\ GiveUp(c, r.ret)
                /\ missed' = missed \cup (IF DOMAIN st.tab = 0..FdMax THEN {} ELSE {Path(c)})
    /\ UNCHANGED <<plan, init, todo, locked, buf>>

\* The others look the path up before they lock the table.
OpenLookup(c) ==
    /\ Calls(c, {"create", "open"}) /\ svc # "rux"
    /\ LET r == IF plan.mounts THEN Lookup(Path(c)) ELSE Fail(st)
       IN \/ /\ r.ret = "ok"
             /\ cl' = [cl EXCEPT ![c].at = "alloc", ![c].val = r.val]
             /\ UNCHANGED <<rest, missed>>
          \/ /\ r.ret # "ok" /\ svc = "sfs" /\ Creat(c) /\ plan.mounts
             /\ cl' = [cl EXCEPT ![c].at = "create"]
             /\ UNCHANGED <<rest, missed>>
          \/ /\ r.ret # "ok" /\ ~(svc = "sfs" /\ Creat(c) /\ plan.mounts)
             /\ GiveUp(c, r.ret) /\ missed' = missed \cup {Path(c)}
    /\ UNCHANGED <<plan, st, init, todo, locked, buf>>

OpenCreate(c) ==
    /\ cl[c].at = "create"
    /\ LET r == SF!open_create(st, Path(c))
       IN /\ st' = r.st
          /\ \/ r.ret = "ok" /\ cl' = [cl EXCEPT ![c].at = "alloc", ![c].val = r.val] /\ UNCHANGED rest
             \/ r.ret # "ok" /\ GiveUp(c, r.ret)
    /\ UNCHANGED <<plan, init, todo, locked, buf, missed>>

OpenAlloc(c) ==
    /\ cl[c].at = "alloc" /\ locked = None
    /\ LET r == AllocFd(cl[c].val, RD(Mode(c)), WR(Mode(c)))
       IN st' = r.st /\ Advance(c, WithHandle(c, r.val))
    /\ UNCHANGED <<plan, init, todo, locked, rest, buf, missed>>

-----------------------------------------------------------------------------
(* The other operations of File *)

\* Mutant: read_to_end reads on at the end of the file.
ReadEndsNever(c, s) == FALSE

\* read_to_end stops at an empty read.
ReadEnds(c, s) == s = <<>>

\* read_to_end: one call of read.
ReadToEnd(c) ==
    /\ Calls(c, {"read_to_end"}) \/ cl[c].at = "read"
    /\ locked = None
    /\ LET r == Read(Fd(c), Chunk)
           got == IF cl[c].at = "read" THEN cl[c].got ELSE <<>>
       IN /\ st' = r.st
          /\ \/ /\ r.ret = "ok" /\ buf' = [buf EXCEPT ![c] = r.val] /\ UNCHANGED rest
                /\ IF ReadEnds(c, r.val)
                   THEN Advance(c, [cl[c] EXCEPT !.got = got \o r.val])
                   ELSE cl' = [cl EXCEPT ![c].at = "read", ![c].got = got \o r.val]
             \/ r.ret # "ok" /\ GiveUp(c, r.ret) /\ UNCHANGED buf
    /\ UNCHANGED <<plan, init, todo, locked, missed>>

\* write_all: one call of write with what is left; Ok(0) would panic.
WriteAll(c) ==
    /\ cl[c].at = "write" /\ locked = None
    /\ LET r == Write(Fd(c), rest[c])
       IN /\ st' = r.st
          /\ \/ /\ r.ret = "ok" /\ r.val # 0
                /\ rest' = [rest EXCEPT ![c] = SubSeq(@, r.val + 1, Len(@))]
                /\ rest'[c] = <<>> => Advance(c, cl[c])
                /\ rest'[c] # <<>> => UNCHANGED cl
             \/ r.ret # "ok" /\ GiveUp(c, r.ret)
    /\ UNCHANGED <<plan, init, todo, locked, buf, missed>>

BeginWrite(c) ==
    /\ Calls(c, {"write_all"})
    /\ rest' = [rest EXCEPT ![c] = Op(c).bytes]
    /\ cl' = [cl EXCEPT ![c].at = "write"]
    /\ UNCHANGED <<plan, st, init, todo, locked, buf, missed>>

Seek(c) ==
    /\ Calls(c, {"seek"}) /\ locked = None
    /\ LET r == Lseek(Fd(c), Op(c).pos)
       IN /\ st' = r.st
          /\ \/ r.ret = "ok" /\ Advance(c, cl[c]) /\ UNCHANGED rest
             \/ r.ret # "ok" /\ GiveUp(c, r.ret)
    /\ UNCHANGED <<plan, init, todo, locked, buf, missed>>

\* File::metadata.  rcorefdtab and rcore_sfsfdtab clone the entry under the lock ...
Metadata(c) ==
    /\ Calls(c, {"metadata"}) /\ locked = None
    /\ LET r == CASE svc = "rcore" -> RC!stat_clone(st, Fd(c)) [] svc = "sfs" -> SF!stat_clone(st, Fd(c))
                  [] svc = "ext4" -> E4!stat(st, Fd(c)) [] svc = "rux" -> RX!stat(st, Fd(c))
       IN \/ /\ r.ret = "ok" /\ svc \in {"rcore", "sfs"} /\ UNCHANGED rest
             /\ cl' = [cl EXCEPT ![c].at = "stat", ![c].val = r.val]
          \/ /\ r.ret = "ok" /\ svc \in {"ext4", "rux"} /\ UNCHANGED rest
             /\ Advance(c, [cl[c] EXCEPT !.size = r.val])
          \/ r.ret # "ok" /\ GiveUp(c, r.ret)
    /\ UNCHANGED <<plan, st, init, todo, locked, buf, missed>>

\* ... and ask the inode after it.
MetadataOfClone(c) ==
    /\ cl[c].at = "stat"
    /\ LET r == IF svc = "rcore" THEN RC!stat_metadata(st, cl[c].val) ELSE SF!stat_metadata(st, cl[c].val)
       IN Advance(c, [cl[c] EXCEPT !.size = r.val])
    /\ UNCHANGED <<plan, st, init, todo, locked, rest, buf, missed>>

-----------------------------------------------------------------------------
(* Calls that File does not wrap *)

Readdir(c) ==
    /\ Calls(c, {"readdir"})
    /\ LET r == CASE svc = "rcore" -> RC!readdir_list(st, Path(c)) [] svc = "sfs" -> SF!readdir_list(st, Path(c))
                  [] svc = "ext4" -> E4!readdir(st, Path(c)) [] svc = "rux" -> RX!readdir(st, Path(c))
       IN \/ /\ r.ret = "ok" /\ svc \in {"rcore", "sfs"} /\ UNCHANGED rest
             /\ cl' = [cl EXCEPT ![c].at = "find", ![c].names = r.val]
          \/ /\ r.ret = "ok" /\ svc \in {"ext4", "rux"} /\ UNCHANGED rest
             /\ Advance(c, [cl[c] EXCEPT !.names = r.val])
          \/ r.ret # "ok" /\ GiveUp(c, r.ret)
    /\ UNCHANGED <<plan, st, init, todo, locked, buf, missed>>

ReaddirFind(c) ==
    /\ cl[c].at = "find"
    /\ LET r == IF svc = "rcore" THEN RC!readdir_find(st, Path(c), cl[c].names)
                                 ELSE SF!readdir_find(st, Path(c), cl[c].names)
       IN Advance(c, [cl[c] EXCEPT !.names = r.val])
    /\ UNCHANGED <<plan, st, init, todo, locked, rest, buf, missed>>

\* Descriptors 0 and 1, which no client opened.
Stdio(c) ==
    /\ Calls(c, {"stdin", "print"}) /\ locked = None
    /\ LET r == IF Op(c).op = "stdin" THEN Read(0, Chunk) ELSE Write(1, Op(c).bytes)
       IN /\ st' = r.st
          /\ \/ r.ret = "ok" /\ Advance(c, cl[c]) /\ UNCHANGED rest
             \/ r.ret # "ok" /\ GiveUp(c, r.ret)
    /\ UNCHANGED <<plan, init, todo, locked, buf, missed>>

\* create of rcorefdtab and rcore_sfsfdtab: alloc_fd, called with FD_TABLE locked, locks it again.
CreateAt(c) ==
    /\ Calls(c, {"mknod"}) /\ locked = None
    /\ LET r == IF svc = "rcore" THEN RC!create(st, Fd(c), Op(c).name) ELSE SF!create(st, Fd(c), Op(c).name)
       IN /\ st' = r.st
          /\ \/ /\ r.ret = "ok" /\ locked' = c /\ UNCHANGED rest
                /\ cl' = [cl EXCEPT ![c].at = "stuck"]
             \/ r.ret # "ok" /\ Advance(c, cl[c]) /\ UNCHANGED <<rest, locked>>
    /\ UNCHANGED <<plan, init, todo, buf, missed>>

DirCall(c) ==
    LET fd == Fd(c)
        op == Op(c)
    IN IF svc = "rcore"
       THEN CASE op.op = "link" -> RC!link(st, fd, op.name, cl[c].hs[op.target])
              [] op.op = "unlink" -> RC!unlink(st, fd, op.name)
              [] op.op = "rename" -> RC!rename(st, cl[c].hs[op.target], fd, op.name)
              [] op.op = "set_metadata" -> RC!set_metadata(st, fd) [] op.op = "flush" -> RC!flush(st, fd)
              [] op.op = "sync" -> RC!sync(st, fd) [] op.op = "poll" -> RC!poll(st, fd)
              [] op.op = "set_nonblocking" -> RC!set_nonblocking(st, fd)
       ELSE CASE op.op = "link" -> SF!link(st, fd, op.name, cl[c].hs[op.target])
              [] op.op = "unlink" -> SF!unlink(st, fd, op.name)
              [] op.op = "rename" -> SF!rename(st, cl[c].hs[op.target], fd, op.name)
              [] op.op = "set_metadata" -> SF!set_metadata(st, fd) [] op.op = "flush" -> SF!flush(st, fd)
              [] op.op = "sync" -> SF!sync(st, fd) [] op.op = "poll" -> SF!poll(st, fd)
              [] op.op = "set_nonblocking" -> SF!set_nonblocking(st, fd)

\* The others answer with a bool, which the caller is free to ignore.
DirOps(c) ==
    /\ Calls(c, {"link", "unlink", "rename", "set_metadata", "flush", "sync", "poll", "set_nonblocking"})
    /\ locked = None
    /\ st' = DirCall(c).st
    /\ Advance(c, cl[c])
    /\ UNCHANGED <<plan, init, todo, locked, rest, buf, missed>>

-----------------------------------------------------------------------------
(* The checks of user/simple_file, and the end of a function *)

Check(c) ==
    /\ cl[c].at = "call" /\ cl[c].ip \in DOMAIN plan.prog[c]
    /\ \/ /\ Op(c).op = "assert_eq"
          /\ IF cl[c].got = Op(c).bytes THEN Advance(c, cl[c]) /\ UNCHANGED rest ELSE GiveUp(c, "panic")
       \/ /\ Op(c).op = "check_size"
          /\ IF cl[c].size = Len(cl[c].got) THEN Advance(c, cl[c]) /\ UNCHANGED rest ELSE GiveUp(c, "err")
    /\ UNCHANGED <<plan, st, init, todo, locked, buf, missed>>

Return(c) ==
    /\ cl[c].at = "call" /\ cl[c].ip \notin DOMAIN plan.prog[c]
    /\ cl' = [cl EXCEPT ![c].at = "drop"]
    /\ UNCHANGED <<plan, st, init, todo, locked, rest, buf, missed>>

\* Drop for File, the last handle first; close(fd).expect("close failed").
DropFile(c) ==
    /\ cl[c].at = "drop" /\ cl[c].hs # <<>> /\ locked = None
    /\ LET r == Close(Last(cl[c].hs))
       IN /\ st' = r.st
          /\ cl' = [cl EXCEPT ![c].hs = Front(@), ![c].end = IF r.ret = "ok" THEN @ ELSE "abort"]
    /\ UNCHANGED <<plan, init, todo, locked, rest, buf, missed>>

End(c) ==
    /\ cl[c].at = "drop" /\ cl[c].hs = <<>>
    /\ cl' = [cl EXCEPT ![c].at = "end"]
    /\ UNCHANGED <<plan, st, init, todo, locked, rest, buf, missed>>

Step(c) ==
    \/ StartInit(c) \/ Unpack(c) \/ FinishInit(c)
    \/ OpenRux(c) \/ OpenLookup(c) \/ OpenCreate(c) \/ OpenAlloc(c)
    \/ ReadToEnd(c) \/ BeginWrite(c) \/ WriteAll(c) \/ Seek(c) \/ Metadata(c) \/ MetadataOfClone(c)
    \/ Readdir(c) \/ ReaddirFind(c) \/ Stdio(c) \/ CreateAt(c) \/ DirOps(c)
    \/ Check(c) \/ Return(c) \/ DropFile(c) \/ End(c)

Next == \E c \in Clients : Step(c)

Spec == Init /\ [][Next]_vars /\ \A c \in Clients : WF_vars(Step(c))

-----------------------------------------------------------------------------
(* What the service promises *)

\* What the image holds for a service: rcorefdtab leaves the large files out.
Served ==
    IF plan.mounts
    THEN SelectSeq(plan.image, LAMBDA e : svc = "rcore" => e.kind = "dir" \/ ~RC!Skipped(e))
    ELSE <<>>

\* The files as they can be seen: before init has ended, those of the image.
\* The n-th entry of the image becomes inode n.
Files ==
    IF init = "done" THEN [i \in {j \in Inodes(st.fs) : IsFile(st.fs, j)} |-> Content(st.fs, i)]
    ELSE [n \in {k \in DOMAIN Served : Served[k].kind = "file"} |-> Served[n].bytes]

Abstract == INSTANCE FdService WITH
    Bytes <- Byte,
    data <- Files,
    fds <- [fd \in {f \in DOMAIN st.tab \ 0..2 : IsFile(st.fs, st.tab[f].inode)} |->
               [inode |-> st.tab[fd].inode, offset |-> st.tab[fd].offset,
                readable |-> st.tab[fd].readable, writable |-> st.tab[fd].writable]]

\* Every service is the table of descriptors of FdService: a read returns the
\* bytes at its descriptor's own position, a write changes those bytes of that
\* file and no others although files share blocks that are read, changed and
\* written back whole (sfs_apis.rs:57-81, ext4_apis.rs:58-82), and the image
\* appears at once although it is unpacked entry by entry.
ImplementsFd == Abstract!Spec

\* A File's descriptor stays in the table until the File is dropped, and no two
\* Files have the same one, with alloc_fd (rc_apis.rs:187-196) as well as with
\* the table of ruxfdtab, which hands out closed descriptors again.
OwnHandles ==
    \A c \in Clients : \A i \in DOMAIN cl[c].hs :
        /\ cl[c].hs[i] \in DOMAIN st.tab \ 0..2
        /\ \A d \in Clients : \A j \in DOMAIN cl[d].hs :
               cl[c].hs[i] = cl[d].hs[j] => c = d /\ i = j

\* No call gets past INIT_DONE (sfs_apis.rs:280-284) before the whole image is
\* there, although rcore_sfsfdtab publishes GLOBAL_FS before it unpacks: a file
\* of the image is never reported as missing.
ImageServed == \A k \in DOMAIN Served : Served[k].path \notin missed

\* The path of the i-th File of c.
Opens(c) == SelectSeq(plan.prog[c], LAMBDA o : o.op \in {"create", "open"})

\* Two functions that create the same file at the same time (sfs_apis.rs:335-349:
\* lookup and create are separate) end up with the same file or one of them with
\* an error, never with two files.
OneInode ==
    \A c, d \in Clients : \A i \in DOMAIN cl[c].hs, j \in DOMAIN cl[d].hs :
        Opens(c)[i].path = Opens(d)[j].path =>
            st.tab[cl[c].hs[i]].inode = st.tab[cl[d].hs[j]].inode

\* c runs simple_file, and no other client writes to its file.
Checks(c) == \E k \in DOMAIN plan.prog[c] : plan.prog[c][k].op = "assert_eq"
Alone(c) ==
    \A d \in Clients \ {c} : \A k \in DOMAIN plan.prog[d] :
        plan.prog[d][k].op = "create" => plan.prog[d][k].path # Opens(c)[1].path

\* simple_file (user/simple_file/src/lib.rs:89-146) reads back what it wrote, of
\* the size it wrote, exactly when the service lets it create the file
\* (rcorefdtab and ext4fdtab ignore O_CREAT) or the image has it, and the image's
\* file is not longer than what it writes (File::create does not truncate).
RoundTrip ==
    \A c \in Clients : Checks(c) /\ Alone(c) /\ cl[c].at = "end" =>
        LET p == Opens(c)[1].path
            old == SelectSeq(Served, LAMBDA e : e.path = p)
            data == (CHOOSE k \in DOMAIN plan.prog[c] : plan.prog[c][k].op = "assert_eq")
        IN cl[c].end = "ok" <=>
              /\ plan.mounts
              /\ IF old = <<>> THEN svc \in {"sfs", "rux"}
                 ELSE Len(old[1].bytes) <= Len(plan.prog[c][data].bytes)

\* Every function gets through its calls and drops its Files, unless one has
\* called create (rc_apis.rs:373-396): that one holds FD_TABLE and waits for it.
CallsReturn == <>(locked # None \/ \A c \in Clients : cl[c].at = "end")
=============================================================================
