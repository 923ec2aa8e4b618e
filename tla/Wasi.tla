-------------------------------- MODULE Wasi --------------------------------
(***************************************************************************)
(* WebAssembly functions: the drivers under user/wasmtime_*, which set up a *)
(* guest and call its _start, and the WASI calls of wasmtime_wasi_api the   *)
(* guest makes, over the ruxfdtab and mm services.                          *)
(*                                                                          *)
(* The guests of a stage run in parallel; those of one module (one loaded   *)
(* library) share its statics: WASI_STATE, FD2PATH, JMP_BUF_MAP, INIT_LOCK  *)
(* and MUST_OPEN_ROOT.  All guests share the descriptor table and the slot  *)
(* register.  A guest is a sequence of calls, as its C program or the       *)
(* Python interpreter makes them.  Names are numbers, in their order.       *)
(***************************************************************************)
EXTENDS FileSystem, FiniteSetsExt, WasmDrivers

CONSTANTS Guests, Plans, None,
          FdMax,       \* Bound: as in RuxFs
          Header,      \* size of a WasiDirent
          NameLen,     \* [name -> length]
          Dot, DotDot,  \* the names "." and ".."
          Zero, Garbage \* contents of a buffer nobody filled, of freed memory

RX == INSTANCE RuxFs

VARIABLES plan,       \* module, stage, configuration, driver and program of every guest
          st,         \* the rux service
          state,      \* WASI_STATE: [module -> partial, id -> args]
          fd2path,    \* FD2PATH: [module -> partial, fd -> path]
          jmp,        \* JMP_BUF_MAP: [module -> partial, id -> guest whose frame it is]
          lock,       \* holders of FD2PATH's lock and of INIT_LOCK: [module -> [..]]
          root,       \* MUST_OPEN_ROOT has been evaluated, by module
          register,   \* mm's BUFFER_REGISTER: partial, slot -> [by, size, val], the guest
                      \* whose memory it points to, and what was there (not in the code)
          g           \* [Guests -> the state of a guest]

vars == <<plan, st, state, fd2path, jmp, lock, root, register, g>>
libos == <<st, register>>
statics == <<state, fd2path, jmp, lock, root>>

\* A guest: its status, where it is, the calls left, its open descriptors and
\* their paths, its memory, and what its calls gave it.
Guest(prog) ==
    [status |-> "idle", pc |-> "setjmp", prog |-> prog, pre |-> {}, hs |-> <<>>, fd |-> 0,
     alive |-> FALSE, mem |-> <<>>, argc |-> <<0, 0>>, argv |-> <<>>,
     cookie |-> 0, cap |-> 0, seen |-> <<>>, before |-> {}, after |-> {},
     got |-> <<>>, home |-> None]

Modules == {plan.of[x].module : x \in Guests}

Init ==
    /\ plan \in Plans
    /\ st = [fs |-> plan.fs, tab |-> RX!StdTable, next |-> 0]
    /\ state = [m \in Modules |-> <<>>] /\ fd2path = [m \in Modules |-> <<>>]
    /\ jmp = [m \in Modules |-> <<>>]
    /\ lock = [m \in Modules |-> [path |-> None, init |-> None]]
    /\ root = [m \in Modules |-> FALSE]
    /\ register = <<>>
    /\ g = [x \in Guests |-> Guest(plan.of[x].prog)]

Fn(x) == plan.of[x]
Mod(x) == Fn(x).module
At(x, pc) == g[x].status = "run" /\ g[x].pc = pc
Put(f, k, v) == [y \in DOMAIN f \cup {k} |-> IF y = k THEN v ELSE f[y]]
Set(x, r) == g' = [g EXCEPT ![x] = r @@ @]

\* A panic, which rust_main catches, or an error the function returns.
Fails(x) == Set(x, [status |-> "err", alive |-> FALSE])

-----------------------------------------------------------------------------
(* The drivers *)

\* The functions of a stage start once those of the stages before are over.
\* main reads the arguments; the first function of wasmtime_longchain leaves a
\* buffer for the last.
Begin(x) ==
    /\ g[x].status = "idle"
    /\ \A y \in Guests : Fn(y).stage < Fn(x).stage => g[y].status = "ok"
    /\ IF Accepts(Fn(x), Fn(x).conf) THEN Set(x, [status |-> "run"]) ELSE Fails(x)
    /\ register' = IF "puts" \in Fn(x).driver
                   THEN Put(register, "Conference", [by |-> None, size |-> 0, val |-> Zero]) ELSE register
    /\ UNCHANGED <<st, statics>>

\* Mutant: an entry that is there stays.
SetjmpOnce(x) ==
    /\ At(x, "setjmp")
    /\ jmp' = IF "setjmp" \in Fn(x).driver
              THEN [jmp EXCEPT ![Mod(x)] = IF Fn(x).id \in DOMAIN @ THEN @ ELSE Put(@, Fn(x).id, x)] ELSE jmp
    /\ Set(x, [pc |-> "args"])
    /\ UNCHANGED <<libos, state, fd2path, lock, root>>

\* The Python drivers save their frame for proc_exit.
Setjmp(x) ==
    /\ At(x, "setjmp")
    /\ jmp' = IF "setjmp" \in Fn(x).driver
              THEN [jmp EXCEPT ![Mod(x)] = Put(@, Fn(x).id, x)] ELSE jmp
    /\ Set(x, [pc |-> "args"])
    /\ UNCHANGED <<libos, state, fd2path, lock, root>>

\* Mutant: one entry for all guests of the module.
SetArgsShared(x) ==
    /\ At(x, "args")
    /\ state' = IF "args" \in Fn(x).driver
                THEN [state EXCEPT ![Mod(x)] = [i \in DOMAIN @ \cup {Fn(x).id} |-> Fn(x).args]] ELSE state
    /\ Set(x, [pc |-> "root"])
    /\ UNCHANGED <<libos, fd2path, jmp, lock, root>>

\* set_wasi_args, set_wasi_state
SetArgs(x) ==
    /\ At(x, "args")
    /\ state' = IF "args" \in Fn(x).driver
                THEN [state EXCEPT ![Mod(x)] = Put(@, Fn(x).id, Fn(x).args)] ELSE state
    /\ Set(x, [pc |-> "root"])
    /\ UNCHANGED <<libos, fd2path, jmp, lock, root>>

\* MUST_OPEN_ROOT: the first guest of the module opens "/", the others wait for it.
OpenRoot(x) ==
    /\ At(x, "root")
    /\ IF "root" \in Fn(x).driver /\ ~root[Mod(x)]
       THEN \E r \in {RX!open(st, Root, FALSE, "RD")} :
               /\ st' = r.st
               /\ root' = [root EXCEPT ![Mod(x)] = TRUE]
               /\ IF r.ret = "ok" THEN Set(x, [pc |-> "lock"]) ELSE Fails(x)
       ELSE UNCHANGED <<st, root>> /\ Set(x, [pc |-> "lock"])
    /\ UNCHANGED <<state, fd2path, jmp, lock, register>>

\* INIT_LOCK around build_wasm; then the instance and its memory are made.
LockInit(x) ==
    /\ At(x, "lock") /\ lock[Mod(x)].init = None
    /\ lock' = [lock EXCEPT ![Mod(x)].init = x]
    /\ Set(x, [pc |-> "build"])
    /\ UNCHANGED <<libos, state, fd2path, jmp, root>>

Build(x) ==
    /\ At(x, "build")
    /\ lock' = [lock EXCEPT ![Mod(x)].init = None]
    /\ Set(x, [pc |-> "call", alive |-> TRUE])
    /\ UNCHANGED <<libos, state, fd2path, jmp, root>>

-----------------------------------------------------------------------------
(* The calls of a guest.  A call that unwraps an error panics.               *)

Op(x) == Head(g[x].prog)
Calls(x, op) == At(x, "call") /\ g[x].prog # <<>> /\ Op(x).op = op
Goes(x, r) == Set(x, r @@ [pc |-> "call", prog |-> Tail(g[x].prog)])
\* The descriptor a call is about: the guest's last, or one that is not open.
Fd(x) == IF g[x].hs = <<>> THEN FdMax + 1 ELSE Last(g[x].hs).fd

\* args_sizes_get: the number of arguments, and their bytes with the zeros.
Bytes(args) == MapThenSumSet(LAMBDA i : Len(args[i]) + 1, DOMAIN args)
args_sizes_get(x) ==
    /\ Calls(x, "args")
    /\ IF Fn(x).id \in DOMAIN state[Mod(x)]
       THEN LET args == state[Mod(x)][Fn(x).id]
            IN Set(x, [argc |-> <<Len(args), Bytes(args)>>, pc |-> "argv"])
       ELSE Fails(x)
    /\ UNCHANGED <<libos, statics>>

\* args_get: the addresses in argv, the arguments behind each other in argv_buf.
args_get(x) ==
    /\ At(x, "argv")
    /\ LET args == state[Mod(x)][Fn(x).id]
           start[i \in 1..Len(args)] == IF i = 1 THEN 0 ELSE start[i - 1] + Len(args[i - 1]) + 1
       IN Goes(x, [argv |-> [i \in DOMAIN args |-> [at |-> start[i], arg |-> args[i]]]])
    /\ UNCHANGED <<libos, statics>>

\* path_open: libos open, then the entry in FD2PATH.  Rights and flags of the
\* call become mode and O_CREAT; ruxfdtab does not look at O_APPEND.
path_open(x) ==
    /\ Calls(x, "open")
    /\ \E r \in {RX!open(st, Op(x).path, Op(x).creat, Op(x).mode)} :
          /\ st' = r.st
          /\ IF r.ret = "ok" THEN Set(x, [pc |-> "fd2path", fd |-> r.val])
             ELSE Goes(x, <<>>)        \* Noent
    /\ UNCHANGED <<register, statics>>

\* Mutant: an entry that is there stays.
set_fd2path_once(x) ==
    /\ At(x, "fd2path") /\ lock[Mod(x)].path = None
    /\ fd2path' = [fd2path EXCEPT ![Mod(x)] =
                      IF g[x].fd \in DOMAIN @ THEN @ ELSE Put(@, g[x].fd, Op(x).path)]
    /\ Goes(x, [hs |-> Append(g[x].hs, [fd |-> g[x].fd, path |-> Op(x).path, type |-> None])])
    /\ UNCHANGED <<libos, state, jmp, lock, root>>

set_fd2path(x) ==
    /\ At(x, "fd2path") /\ lock[Mod(x)].path = None
    /\ fd2path' = [fd2path EXCEPT ![Mod(x)] = Put(@, g[x].fd, Op(x).path)]
    /\ Goes(x, [hs |-> Append(g[x].hs, [fd |-> g[x].fd, path |-> Op(x).path, type |-> None])])
    /\ UNCHANGED <<libos, state, jmp, lock, root>>

\* fd_close leaves the entry in FD2PATH.
fd_close(x) ==
    /\ Calls(x, "close")
    /\ \E r \in {RX!close(st, Fd(x))} :
          /\ st' = r.st
          /\ IF r.ret = "ok" THEN Goes(x, [hs |-> Front(g[x].hs)]) ELSE Fails(x)
    /\ UNCHANGED <<register, statics>>

\* A libos call for each buffer of the vector, until one fails.
EachBuffer(x, one(_, _)) ==
    /\ LET next(r, b) == IF r.ret = "ok" THEN one(r.st, b) ELSE r
       IN \E r \in {FoldLeft(next, Done(st, 0), Op(x).iovs)} :
             /\ st' = r.st
             /\ IF r.ret = "ok" THEN Goes(x, <<>>) ELSE Fails(x)
    /\ UNCHANGED <<register, statics>>

fd_read(x) ==
    Calls(x, "read") /\ EachBuffer(x, LAMBDA s, b : RX!read(s, Fd(x), Len(b)))

fd_write(x) ==
    Calls(x, "write") /\ EachBuffer(x, LAMBDA s, b : RX!write(s, Fd(x), b))

\* path_filestat_get: open, stat, close.
path_filestat_get(x) ==
    /\ \/ /\ Calls(x, "stat")
          /\ \E r \in {RX!open(st, Op(x).path, FALSE, "RD")} :
                /\ st' = r.st
                /\ IF r.ret = "ok" THEN Set(x, [pc |-> "stat", fd |-> r.val]) ELSE Goes(x, <<>>)
       \/ /\ At(x, "stat")
          /\ UNCHANGED st
          /\ IF RX!stat(st, g[x].fd).ret = "ok" THEN Set(x, [pc |-> "statclose"]) ELSE Fails(x)
       \/ /\ At(x, "statclose")
          /\ st' = RX!close(st, g[x].fd).st
          /\ IF RX!close(st, g[x].fd).ret = "ok" THEN Goes(x, <<>>) ELSE Fails(x)
    /\ UNCHANGED <<register, statics>>

\* fd_prestat_get, fd_prestat_dir_name: descriptor 3 is "/", there is no other.
fd_prestat(fd) == IF fd = 3 THEN [ret |-> "Success", path |-> Root] ELSE [ret |-> "Badf", path |-> <<>>]

\* Before main the guest asks for its directories, from 3 on (wasi-libc, external).
Preopens(x) ==
    /\ \/ Calls(x, "preopens") /\ Set(x, [pc |-> "prestat", fd |-> 3])
       \/ /\ At(x, "prestat")
          /\ \E r \in {fd_prestat(g[x].fd)} :
                IF r.ret = "Badf" THEN Goes(x, <<>>)
                ELSE Set(x, [fd |-> g[x].fd + 1, pre |-> g[x].pre \cup {[fd |-> g[x].fd, path |-> r.path]}])
    /\ UNCHANGED <<libos, statics>>

\* fd_fdstat_get: what is not one of the first four is taken to be a file.
fd_fdstat_get(x) ==
    /\ Calls(x, "fdstat")
    /\ LET type(fd) == IF fd < 3 THEN "CharacterDevice" ELSE IF fd = 3 THEN "Directory" ELSE "RegularFile"
       IN Goes(x, IF g[x].hs = <<>> THEN <<>>
                  ELSE [hs |-> [g[x].hs EXCEPT ![Len(g[x].hs)].type = type(Fd(x))]])
    /\ UNCHANGED <<libos, statics>>

\* The calls that only say Success, or write what they say into the guest's
\* memory: the time, an empty environment, random bytes.  fd_seek does not seek.
EnvironCalls == {"clock_res_get", "clock_time_get", "environ_get", "environ_sizes_get", "fd_advise"}
FdStubs == {"fd_fdstat_set_flags", "fd_filestat_get", "fd_filestat_set_size", "fd_filestat_set_times",
            "fd_pread", "fd_pwrite"}
SeekStubs == {"fd_seek", "fd_sync", "fd_tell"}
LinkStubs == {"path_filestat_set_times", "path_link"}
PathStubs == {"path_readlink", "path_remove_directory", "path_rename", "path_symlink", "path_unlink_file",
              "poll_oneoff"}
SockStubs == {"random_get", "sched_yield", "sock_accept", "sock_recv", "sock_send", "sock_shutdown"}

Unchanging(x) ==
    /\ At(x, "call") /\ g[x].prog # <<>>
    /\ Op(x).op \in EnvironCalls \cup FdStubs \cup SeekStubs \cup LinkStubs \cup PathStubs \cup SockStubs
                     \cup {"fd_datasync", "path_create_directory"}
    /\ Goes(x, <<>>)
    /\ UNCHANGED <<libos, statics>>

-----------------------------------------------------------------------------
(* fd_readdir, and the guest's loop around it (wasi-libc, external)          *)

\* The entries with "." and "..", sorted by name.
Entries(names) ==
    LET all == names \cup {Dot, DotDot}
    IN [i \in 1..Cardinality(all) |-> CHOOSE n \in all : Cardinality({m \in all : m < n}) = i - 1]
Size(e, from, to) == MapThenSumSet(LAMBDA i : Header + NameLen[e[i]], from..to)

\* The cookie of an entry is its place: the last one that fits after cookie.
LastFit(e, cookie, cap) == Max({k \in cookie..Len(e) : Size(e, cookie + 1, k) <= cap})

\* Mutant: the entry that did not fit is skipped.
PageSkipping(e, cookie, cap, last) ==
    [entries |-> SubSeq(e, cookie + 1, last), next |-> IF last < Len(e) THEN last + 1 ELSE last,
     used |-> IF last < Len(e) THEN cap ELSE Size(e, cookie + 1, last)]

\* The entries after the first cookie ones, as many as fit; part of one more
\* fills the buffer.
Page(e, cookie, cap, last) ==
    [entries |-> SubSeq(e, cookie + 1, last), next |-> last,
     used |-> IF last < Len(e) THEN cap ELSE Size(e, cookie + 1, last)]

\* opendir's descriptor is open; the guest starts with an empty buffer.
StartList(x) ==
    /\ Calls(x, "list")
    /\ Set(x, [pc |-> "readdir", cookie |-> 0, cap |-> Op(x).cap, seen |-> <<>>,
               before |-> Names(st.fs, Op(x).path), after |-> {}])
    /\ UNCHANGED <<libos, statics>>

\* FD2PATH stays locked until fd_readdir returns.
LockPaths(x) ==
    /\ At(x, "readdir") /\ lock[Mod(x)].path = None
    /\ lock' = [lock EXCEPT ![Mod(x)].path = x]
    /\ Set(x, [pc |-> "page"])
    /\ UNCHANGED <<libos, state, fd2path, jmp, root>>

\* A descriptor without a path, or of a file, makes the call panic.
ReaddirOf(x) ==
    IF Fd(x) \in DOMAIN fd2path[Mod(x)] THEN RX!readdir(st, fd2path[Mod(x)][Fd(x)]) ELSE Panic(st)

\* The guest goes on after the last entry it got, with more room if it got
\* none, until a page does not fill its buffer.
Turn(x, names, p) ==
    IF p.used < g[x].cap THEN Goes(x, [seen |-> g[x].seen \o p.entries, after |-> names])
    ELSE Set(x, [pc |-> "readdir", seen |-> g[x].seen \o p.entries, cookie |-> p.next,
                 cap |-> IF p.entries = <<>> THEN 2 * g[x].cap ELSE g[x].cap])

OnePage(x) ==
    \E r \in {ReaddirOf(x)} :
        IF r.ret # "ok" THEN Fails(x)
        ELSE \E e \in {Entries(r.val)} : \E last \in {LastFit(e, g[x].cookie, g[x].cap)} :
                \E p \in {Page(e, g[x].cookie, g[x].cap, last)} : Turn(x, r.val, p)

\* Mutant: a panic leaves the lock held.
fd_readdir_locked(x) ==
    /\ At(x, "page")
    /\ OnePage(x)
    /\ lock' = [lock EXCEPT ![Mod(x)].path = IF ReaddirOf(x).ret = "ok" THEN None ELSE @]
    /\ UNCHANGED <<libos, state, fd2path, jmp, root>>

\* The lock is released when the call returns, and when it unwinds.
fd_readdir(x) ==
    /\ At(x, "page")
    /\ OnePage(x)
    /\ lock' = [lock EXCEPT ![Mod(x)].path = None]
    /\ UNCHANGED <<libos, state, fd2path, jmp, root>>

-----------------------------------------------------------------------------
(* Data buffers: the register holds pointers into the memory of the guests   *)

\* buffer_register: the slot is entered before the pointer and the size are.
RegisterSlot(x) ==
    /\ Calls(x, "register")
    /\ register' = Put(register, Op(x).slot, [by |-> None, size |-> 0, val |-> Op(x).val])
    /\ Set(x, [pc |-> "pointer", mem |-> Put(g[x].mem, Op(x).slot, Op(x).val)])
    /\ UNCHANGED <<st, statics>>

buffer_register(x) ==
    /\ At(x, "pointer")
    /\ register' = [s \in DOMAIN register |->
                       IF s = Op(x).slot THEN [by |-> x, size |-> Op(x).size, val |-> Op(x).val]
                       ELSE register[s]]
    /\ Goes(x, <<>>)
    /\ UNCHANGED <<st, statics>>

\* The guest frees its buffer: its allocator may write there.
FreeBuffer(x) ==
    /\ Calls(x, "free")
    /\ \E v \in {g[x].mem[Op(x).slot], Garbage} : Goes(x, [mem |-> Put(g[x].mem, Op(x).slot, v)])
    /\ UNCHANGED <<libos, statics>>

\* What the pointer of an entry leads to: nothing good once the store is gone.
Points(e, slot) == IF e.by # None /\ g[e.by].alive THEN {g[e.by].mem[slot]} ELSE {Zero, Garbage}

\* access_buffer takes the entry out and copies what it points to.  Without an
\* entry it makes a buffer of zeros, which is freed before it is copied, and
\* leaves a pointer to it in the slot "".
access_buffer(x) ==
    /\ Calls(x, "access")
    /\ LET slot == Op(x).slot
           there == slot \in DOMAIN register
           none == [by |-> None, size |-> Op(x).size, val |-> Zero]
           e == IF there THEN register[slot] ELSE none
       IN /\ register' = IF there THEN [s \in DOMAIN register \ {slot} |-> register[s]]
                         ELSE Put(register, "", none)
          /\ IF e.size # Op(x).size THEN Fails(x)
             ELSE \E v \in Points(e, slot) :
                    Goes(x, [got |-> Append(g[x].got, [slot |-> slot, val |-> v, there |-> there, from |-> e])])
    /\ UNCHANGED <<st, statics>>

-----------------------------------------------------------------------------
(* How a guest ends *)

\* proc_exit(0) jumps to the frame saved under the guest's id, over the store;
\* other codes panic.
proc_exit(x) ==
    /\ Calls(x, "exit")
    /\ IF Op(x).code = 0 /\ Fn(x).id \in DOMAIN jmp[Mod(x)]
       THEN Set(x, [status |-> "ok", home |-> jmp[Mod(x)][Fn(x).id]])
       ELSE Fails(x)
    /\ UNCHANGED <<libos, statics>>

\* Mutant: the store is never forgotten.
StartReturnsDrop(x) ==
    /\ At(x, "call") /\ g[x].prog = <<>>
    /\ Set(x, [status |-> "ok", alive |-> FALSE])
    /\ UNCHANGED <<libos, statics>>

\* _start returns: the driver forgets the store, or drops it, and with it the
\* guest's memory.  The last function of wasmtime_longchain wants its buffer.
StartReturns(x) ==
    /\ At(x, "call") /\ g[x].prog = <<>>
    /\ IF "takes" \in Fn(x).driver /\ "Conference" \notin DOMAIN register
       THEN Fails(x)
       ELSE Set(x, [status |-> "ok", alive |-> "forget" \in Fn(x).driver])
    /\ register' = IF "takes" \in Fn(x).driver
                   THEN [s \in DOMAIN register \ {"Conference"} |-> register[s]] ELSE register
    /\ UNCHANGED <<st, statics>>

Driver(x) == Setjmp(x) \/ SetArgs(x) \/ OpenRoot(x) \/ LockInit(x) \/ Build(x)
Call(x) ==
    \/ args_sizes_get(x) \/ args_get(x) \/ Preopens(x) \/ fd_fdstat_get(x) \/ Unchanging(x)
    \/ path_open(x) \/ set_fd2path(x) \/ fd_close(x) \/ fd_read(x) \/ fd_write(x) \/ path_filestat_get(x)
    \/ StartList(x) \/ LockPaths(x) \/ fd_readdir(x)
    \/ RegisterSlot(x) \/ buffer_register(x) \/ FreeBuffer(x) \/ access_buffer(x)
    \/ proc_exit(x) \/ StartReturns(x)

Step(x) == (Begin(x) \/ Driver(x) \/ Call(x)) /\ UNCHANGED plan
Next == \E x \in Guests : Step(x)

\* Every function has a thread of its own, which goes on.
Spec == Init /\ [][Next]_vars /\ \A x \in Guests : WF_vars(Step(x))

-----------------------------------------------------------------------------
(* Properties *)

Over(x) == g[x].status \in {"ok", "err"}

\* A descriptor a guest holds is open, of a file of the path it asked for, and
\* FD2PATH of its module says that path, whoever had the descriptor before
\* (fd_close leaves the entry, the next path_open overwrites it).  A file's
\* type is what fd_fdstat_get says.  Where the driver opened "/", the preopened
\* descriptors fd_prestat_get tells of are open, and of the paths it says.
FdPaths ==
    \A x \in Guests : g[x].status = "run" =>
        /\ \A i \in DOMAIN g[x].hs :
              LET h == g[x].hs[i]
              IN /\ h.fd \in DOMAIN st.tab /\ st.tab[h.fd].inode = st.fs.dir[h.path]
                 /\ fd2path[Mod(x)][h.fd] = h.path
                 /\ IsFile(st.fs, st.fs.dir[h.path]) => h.type \in {None, "RegularFile"}
        /\ "root" \in Fn(x).driver => \A p \in g[x].pre :
              p.fd \in DOMAIN st.tab /\ st.tab[p.fd].inode = st.fs.dir[p.path]

\* A guest that lists a directory page by page, with fd_readdir's cookies, gets
\* every name that was there when it began, also when other guests create
\* files between two pages, and each once if nothing was created meanwhile.
ListedOnce ==
    \A x \in Guests : LET l == g[x] IN l.after # {} =>
        /\ l.before \subseteq ToSet(l.seen)
        /\ l.before = l.after => Len(l.seen) = Cardinality(ToSet(l.seen))

\* The arguments args_get gives a guest are those its own driver set, and they
\* fit the sizes args_sizes_get told it to allocate.
ArgsOwn ==
    \A x \in Guests : LET v == g[x].argv IN v # <<>> =>
        /\ [i \in DOMAIN v |-> v[i].arg] = Fn(x).args
        /\ g[x].argc[1] = Len(v)
        /\ g[x].argc[2] = Last(v).at + Len(Last(v).arg) + 1

\* The buffer of the slot outlives its guest: the driver forgets its store and
\* the guest does not free it.
Kept(y, slot) ==
    /\ "forget" \in Fn(y).driver
    /\ ~\E i \in DOMAIN Fn(y).prog : Fn(y).prog[i].op = "free" /\ Fn(y).prog[i].slot = slot

\* The program of the guest registers the slot.
Registers(y, slot) == \E i \in DOMAIN Fn(y).prog : Fn(y).prog[i].op = "register" /\ Fn(y).prog[i].slot = slot

\* What access_buffer gives is what buffer_register was called with, unless the
\* driver of the guest that registered it dropped its store or that guest freed
\* the buffer; and no slot that a guest of an earlier stage registered is missing.
Delivered ==
    \A x \in Guests : \A i \in DOMAIN g[x].got :
        LET o == g[x].got[i]
        IN /\ o.there /\ Kept(o.from.by, o.slot) => o.val = o.from.val
           /\ ~o.there => ~\E y \in Guests : Fn(y).stage < Fn(x).stage /\ Registers(y, o.slot)

\* proc_exit returns to the driver that called the guest, also when another
\* function ran under the same id before (JMP_BUF_MAP is keyed by the id).
ExitsHome == \A x \in Guests : g[x].home \in {None, x}

\* Every function that starts ends: no lock stays held, and no page of
\* fd_readdir leaves the guest where it was.
GuestsEnd == \A x \in Guests : g[x].status = "run" ~> Over(x)
==============================================================================
