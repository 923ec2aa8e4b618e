-------------------------------- MODULE Fdtab --------------------------------
(***************************************************************************)
(* The descriptor table (common_service/fdtab) over its two backends: the   *)
(* FAT file service (common_service/fatfs) and the socket service (module   *)
(* Socket), as the threads of one isolation use them through as_std.        *)
(*                                                                          *)
(* FD_TABLE is a spin lock that read, write, lseek, stat and accept keep    *)
(* while the backend works.  A fatfs call locks FTABLE, never waits with it *)
(* and takes no other lock, so it is one step.  open, connect, bind, close  *)
(* and the end of accept call the backend outside FD_TABLE.                 *)
(***************************************************************************)
EXTENDS Socket

CONSTANTS MaxPos,       \* bound: position in a file
          MaxFds        \* bound: descriptors of one thread

ASSUME FdtabAssumption ==
    /\ {MaxPos, MaxFds} \subseteq Nat
    /\ \A p \in Programs : p.calls \in [Threads -> Nat] /\ \A t \in Threads :
          p.ops[t] \subseteq {"open", "create", "read", "write", "lseek", "close",
                            "connect", "bind", "accept", "addrinfo"}

VARIABLES fdLock,     \* holder of FD_TABLE
          fdtab,        \* FD_TABLE: a sequence; the descriptor is the index + 2
          ftable,       \* FTABLE: the positions of the open FAT files, by handle
          fs,           \* FS_REF_ADDR and FTABLE's poisoning: uninit, ok, poisoned
          exists,       \* files that are on the image
          pc,           \* [Threads -> ...]: where a thread is in fdtab
          own,          \* [Threads -> ...]: its descriptors, what each stands for, and
                        \* the position its calls' results say it is at
          calls          \* [Threads -> Nat]

fileVars == <<ftable, fs, exists>>
vars == <<prog, netVars, fdLock, fdtab, fileVars, pc, own, calls>>

DiskFails == "disk" \in prog.fails

None == [mode |-> "none", src |-> "none", h |-> 0]
Idle == [at |-> "idle", fd |-> 0, file |-> None]
File(mode, src, h) == [mode |-> mode, src |-> src, h |-> h]
Closed == MaxPos + 1      \* a handle of FTABLE that was taken

Init ==
    /\ NetInit
    /\ fdLock = Nobody
    /\ fdtab = <<>>
    /\ ftable = <<>>
    /\ fs = "uninit"
    /\ exists \in SUBSET prog.files
    /\ pc = [t \in Threads |-> Idle]
    /\ own = [t \in Threads |-> <<>>]
    /\ calls = [t \in Threads |-> 0]

Fds(t) == DOMAIN own[t]

\* A thread starts a call.
Starts(t, op) ==
    /\ op \in prog.ops[t]
    /\ pc[t].at = "idle" /\ calls[t] < prog.calls[t]
    /\ op \in {"open", "create", "connect", "bind", "accept"} => Cardinality(Fds(t)) < MaxFds
    /\ calls' = [calls EXCEPT ![t] = @ + 1]
Goto(t, at, fd, file) == pc' = [pc EXCEPT ![t] = [at |-> at, fd |-> fd, file |-> file]]

\* The result of the thread's socket call is used up.
Returned(t) ==
    /\ call[t].op = "none"
    /\ ret' = [ret EXCEPT ![t] = Err]
    /\ UNCHANGED <<net, socks, call>>

-----------------------------------------------------------------------------
(* open: fatfs_open, then add_file *)

\* get_fs_ref cannot open the image: the thread panics with FTABLE locked.
OpenPanics(t) ==
    /\ Starts(t, "open") /\ fs = "uninit"
    /\ fs' = "poisoned"
    /\ Goto(t, "dead", 0, None)
    /\ UNCHANGED <<netVars, fdLock, fdtab, ftable, exists, own>>

Open(t, f, create) ==
    /\ Starts(t, IF create THEN "create" ELSE "open")
    /\ IF fs = "poisoned" \/ (~create /\ f \notin exists)
       THEN /\ fs' = IF fs = "uninit" THEN "ok" ELSE fs
            /\ UNCHANGED <<ftable, exists, pc>>
       ELSE /\ fs' = "ok"
            /\ exists' = exists \cup {f}
            /\ ftable' = Append(ftable, 0)
            /\ Goto(t, "add", 0, File(IF create THEN "RDWR" ELSE "RD", "fat", Len(ftable) + 1))
    /\ UNCHANGED <<netVars, fdLock, fdtab, own>>

\* FdTable::add_file: the first free entry, or a new one.
FreeFd ==
    IF \E fd \in DOMAIN fdtab : fdtab[fd] = None
    THEN CHOOSE fd \in DOMAIN fdtab :
            fdtab[fd] = None /\ \A k \in 1..(fd - 1) : fdtab[k] # None
    ELSE Len(fdtab) + 1

\* Mutant: a new entry's descriptor is one too high.
AddFileHigh(t) ==
    /\ pc[t].at = "add" /\ fdLock = Nobody
    /\ fdtab' = [fd \in DOMAIN fdtab \cup {FreeFd} |->
                    IF fd = FreeFd THEN pc[t].file ELSE fdtab[fd]]
    /\ own' = [own EXCEPT ![t] =
                [fd \in DOMAIN @ \cup {FreeFd + 1} |-> IF fd = FreeFd + 1 THEN [file |-> pc[t].file, pos |-> 0] ELSE @[fd]]]
    /\ Goto(t, "idle", 0, None)
    /\ UNCHANGED <<netVars, fdLock, fileVars, calls>>

AddFile(t) ==
    /\ pc[t].at = "add" /\ fdLock = Nobody
    /\ fdtab' = [fd \in DOMAIN fdtab \cup {FreeFd} |->
                    IF fd = FreeFd THEN pc[t].file ELSE fdtab[fd]]
    /\ own' = [own EXCEPT ![t] =
                [fd \in DOMAIN @ \cup {FreeFd} |-> IF fd = FreeFd THEN [file |-> pc[t].file, pos |-> 0] ELSE @[fd]]]
    /\ Goto(t, "idle", 0, None)
    /\ UNCHANGED <<netVars, fdLock, fileVars, calls>>

-----------------------------------------------------------------------------
(* read, write, lseek, stat: with_file *)

CanRead(file) == file.mode \in {"RD", "RDWR"}
CanWrite(file) == file.mode = "RDWR"

\* A call on a socket keeps FD_TABLE until the socket service returns.
OnSocket(t, fd, op, n) ==
    /\ fdLock' = t
    /\ Enter(t, op, fdtab[fd].h, n)
    /\ Goto(t, "io", fd, fdtab[fd])
    /\ UNCHANGED <<net, socks, ret, fdtab, fileVars, own>>

\* A call on a FAT file: its position, and what the result tells the caller.
OnFile(t, fd, pos, told) ==
    /\ ftable' = [ftable EXCEPT ![fdtab[fd].h] = pos]
    /\ own' = [own EXCEPT ![t][fd].pos = told]
    /\ UNCHANGED <<netVars, fdLock, fdtab, fs, exists, pc>>

Fails == UNCHANGED <<netVars, fdLock, fdtab, fileVars, own, pc>>

\* fatfs_read: up to n bytes, fewer at the end of the file or none on an error.
Read(t, fd, n) ==
    /\ Starts(t, "read") /\ fd \in Fds(t) /\ fdLock = Nobody
    /\ \/ ~CanRead(fdtab[fd]) /\ Fails
       \/ CanRead(fdtab[fd]) /\ fdtab[fd].src = "net" /\ OnSocket(t, fd, "recv", n)
       \/ /\ CanRead(fdtab[fd]) /\ fdtab[fd].src = "fat"
          /\ LET pos == ftable[fdtab[fd].h]
             IN \E k \in 0..Least(n, MaxPos - pos) :
                   OnFile(t, fd, pos + k, own[t][fd].pos + k)

\* fatfs_write: an error of the image is dropped and all of n reported.
Write(t, fd, n) ==
    /\ Starts(t, "write") /\ fd \in Fds(t) /\ fdLock = Nobody
    /\ \/ ~CanWrite(fdtab[fd]) /\ Fails
       \/ CanWrite(fdtab[fd]) /\ fdtab[fd].src = "net" /\ OnSocket(t, fd, "send", n)
       \/ /\ CanWrite(fdtab[fd]) /\ fdtab[fd].src = "fat"
          /\ LET pos == ftable[fdtab[fd].h]
             IN /\ pos + n <= MaxPos /\ own[t][fd].pos + n <= MaxPos
                /\ \E k \in IF DiskFails THEN 0..n ELSE {n} :
                      OnFile(t, fd, pos + k, own[t][fd].pos + n)

\* fatfs_seek; on a socket an error.
Lseek(t, fd, pos) ==
    /\ Starts(t, "lseek") /\ fd \in Fds(t) /\ fdLock = Nobody
    /\ IF fdtab[fd].src = "net" THEN Fails ELSE OnFile(t, fd, pos, pos)

IOEnd(t) ==
    /\ pc[t].at = "io" /\ Returned(t)
    /\ fdLock' = Nobody
    /\ Goto(t, "idle", 0, None)
    /\ UNCHANGED <<fdtab, fileVars, own, calls>>

-----------------------------------------------------------------------------
(* close: remove_file, then the backend's close *)

Close(t, fd) ==
    /\ Starts(t, "close") /\ fd \in Fds(t) /\ fdLock = Nobody
    /\ fdtab' = [fdtab EXCEPT ![fd] = None]
    /\ own' = [own EXCEPT ![t] = [k \in DOMAIN @ \ {fd} |-> @[k]]]
    /\ IF fdtab[fd].src = "net"
       THEN Enter(t, "close", fdtab[fd].h, 0) /\ Goto(t, "wait", fd, fdtab[fd])
       ELSE Goto(t, "close", fd, fdtab[fd]) /\ UNCHANGED call
    /\ UNCHANGED <<net, socks, ret, fdLock, fileVars>>

\* Mutant: the file behind the descriptor's new entry is closed.
FatfsCloseAgain(t) ==
    /\ pc[t].at = "close"
    /\ LET h == IF fdtab[pc[t].fd].src = "fat" THEN fdtab[pc[t].fd].h ELSE pc[t].file.h
       IN IF ftable[h] = Closed
          THEN Goto(t, "failed", 0, None) /\ UNCHANGED ftable
          ELSE /\ ftable' = [ftable EXCEPT ![h] = Closed]
               /\ Goto(t, "idle", 0, None)
    /\ UNCHANGED <<netVars, fdLock, fdtab, fs, exists, own, calls>>

\* fatfs_close; the drop of a File panics on an error.
FatfsClose(t) ==
    /\ pc[t].at = "close"
    /\ LET h == pc[t].file.h
       IN IF ftable[h] = Closed
          THEN Goto(t, "failed", 0, None) /\ UNCHANGED ftable
          ELSE /\ ftable' = [ftable EXCEPT ![h] = Closed]
               /\ Goto(t, "idle", 0, None)
    /\ UNCHANGED <<netVars, fdLock, fdtab, fs, exists, own, calls>>

\* A name lookup, or the end of a socket's close.
Lookup(t) ==
    /\ Starts(t, "addrinfo")
    /\ Enter(t, "dns", 1, 0)
    /\ Goto(t, "wait", 0, None)
    /\ UNCHANGED <<net, socks, ret, fdLock, fdtab, fileVars, own>>

WaitEnd(t) ==
    /\ pc[t].at = "wait" /\ Returned(t)
    /\ Goto(t, "idle", 0, None)
    /\ UNCHANGED <<fdLock, fdtab, fileVars, own, calls>>

-----------------------------------------------------------------------------
(* connect, bind, accept *)

NewSocket(t, op) ==
    /\ Starts(t, op)
    /\ Enter(t, op, 1, 0)
    /\ Goto(t, op, 0, None)
    /\ UNCHANGED <<net, socks, ret, fdLock, fdtab, fileVars, own>>

NewSocketEnd(t) ==
    /\ pc[t].at \in {"connect", "bind"} /\ Returned(t)
    /\ IF ret[t].ok
       THEN Goto(t, "add", 0, File(IF pc[t].at = "bind" THEN "RD" ELSE "RDWR", "net", ret[t].val))
       ELSE Goto(t, "idle", 0, None)
    /\ UNCHANGED <<fdLock, fdtab, fileVars, own, calls>>

\* with_file_mut: smol_accept runs with FD_TABLE locked.
Accept(t, fd) ==
    /\ Starts(t, "accept") /\ fd \in Fds(t) /\ own[t][fd].file.mode = "RD" /\ fdLock = Nobody
    /\ IF fdtab[fd].src = "net"
       THEN /\ fdLock' = t
            /\ Enter(t, "accept", fdtab[fd].h, 0)
            /\ Goto(t, "accept", fd, fdtab[fd])
       ELSE UNCHANGED <<fdLock, call, pc>>
    /\ UNCHANGED <<net, socks, ret, fdtab, fileVars, own>>

\* The listening descriptor gets the new socket, a new one the old socket.
AcceptEnd(t) ==
    /\ pc[t].at = "accept" /\ Returned(t)
    /\ fdLock' = Nobody
    /\ IF ret[t].ok
       THEN /\ fdtab' = [fdtab EXCEPT ![pc[t].fd].h = ret[t].val]
            /\ own' = [own EXCEPT ![t][pc[t].fd].file.h = ret[t].val]
            /\ Goto(t, "add", 0, File("RDWR", "net", pc[t].file.h))
       ELSE Goto(t, "idle", 0, None) /\ UNCHANGED <<fdtab, own>>
    /\ UNCHANGED <<fileVars, calls>>

-----------------------------------------------------------------------------
\* A step inside a call that a thread has begun.
CallStep(t) ==
    /\ UNCHANGED prog
    /\ \/ NetStep(t) /\ UNCHANGED <<fdLock, fdtab, fileVars, pc, own, calls>>
       \/ AddFile(t) \/ IOEnd(t) \/ FatfsClose(t) \/ WaitEnd(t)
       \/ NewSocketEnd(t) \/ AcceptEnd(t)

CallBegin(t) ==
    /\ UNCHANGED prog
    /\ \/ OpenPanics(t) \/ Lookup(t)
       \/ \E f \in prog.files, create \in BOOLEAN : Open(t, f, create)
       \/ \E op \in {"connect", "bind"} : NewSocket(t, op)
       \/ \E fd \in Fds(t) :
             \/ Close(t, fd) \/ Accept(t, fd)
             \/ \E n \in 1..prog.bytes : Read(t, fd, n) \/ Write(t, fd, n)
             \/ \E pos \in 0..MaxPos : Lseek(t, fd, pos)

PeerStep == Peer /\ UNCHANGED <<prog, fdLock, fdtab, fileVars, pc, own, calls>>
WaitFailure(t) == WaitFails(t) /\ UNCHANGED <<prog, fdLock, fdtab, fileVars, pc, own, calls>>

Next == PeerStep \/ \E t \in Threads : CallBegin(t) \/ CallStep(t) \/ WaitFailure(t)

Spec == Init /\ [][Next]_vars

\* Threads are scheduled and a lock that is free again and again is got; peers
\* answer: they go on accepting, sending, reading and closing.
Fairness ==
    /\ \A t \in Threads : SF_vars(CallStep(t))
    /\ WF_vars(PeerStep)

FairSpec == Spec /\ Fairness

-----------------------------------------------------------------------------
(* Properties *)

\* The threads about to publish or close a file: between a backend's call and
\* the table's, or after it.
Pending(src) == {t \in Threads : pc[t].at \in {"add", "close", "wait"} /\ pc[t].file.src = src}

\* Another descriptor, or a call about to close or publish it, has the file.
Shared(fd) ==
    LET same(f) == f.src = fdtab[fd].src /\ f.h = fdtab[fd].h
    IN \/ \E other \in DOMAIN fdtab \ {fd} : same(fdtab[other])
       \/ \E t \in Pending(fdtab[fd].src) : same(pc[t].file)

\* A descriptor stands for what its owner opened until the owner closes it,
\* though descriptors, and the sockets' slots addrinfo frees, are reused and
\* accept changes the socket behind one.  It has its file or TCP socket alone,
\* and a file is where the results of its owner's calls say, as long as the
\* image takes what is written: fatfs_write reports success whatever happens
\* (lib.rs:84-109, apis.rs:99-177, socket apis.rs:36, 58, 79, fatfs apis.rs:121-127).
OwnFd ==
    \A t \in Threads : \A fd \in Fds(t) :
        LET mine == own[t][fd]
        IN /\ fd \in DOMAIN fdtab
           /\ fdtab[fd] = mine.file
           /\ ~Shared(fd)
           /\ fdtab[fd].src = "net" => socks[fdtab[fd].h].st \notin {"free", "dns"}
           /\ mine.file.src = "fat" /\ ~DiskFails => mine.pos = ftable[mine.file.h]

\* Every FAT file that is open is reachable, through a descriptor or from a call
\* under way: close and failing calls leak none (fatfs lib.rs:66-84).  And
\* closing a file one owns succeeds, as the drop of a File asserts (as_std fs.rs:76).
NoFileLeak ==
    /\ \A h \in DOMAIN ftable :
          ftable[h] # Closed =>
              \/ \E fd \in DOMAIN fdtab : fdtab[fd].src = "fat" /\ fdtab[fd].h = h
              \/ \E t \in Pending("fat") : pc[t].file.h = h
    /\ \A t \in Threads : pc[t].at # "failed"

\* A send on a connection that its peer refused, reset or closed: smol_send
\* waits for a state that will not come (socket apis.rs:110-133).
StuckSend(t) == In(t, "send") /\ call[t].cur < call[t].n /\ Sock(t).st = "closed"

\* When peers answer, every call returns, though FD_TABLE and the network locks
\* are kept while a call waits; the one exception is a send on a connection that
\* is gone, which keeps them for ever (apis.rs:13-93, 146-177).
CallsReturn ==
    \A t \in Threads :
        pc[t].at # "idle" ~> \/ pc[t].at \in {"idle", "failed", "dead"}
                           \/ \E u \in Threads : StuckSend(u)
==============================================================================
