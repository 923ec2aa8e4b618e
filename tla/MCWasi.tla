------------------------------- MODULE MCWasi -------------------------------
EXTENDS Wasi

CONSTANTS g1, g2, g3

\* "." and ".." sort before the names of files, the directory among them.
MCNameLen == (1 :> 1) @@ (2 :> 2) @@ [n \in 3..7 |-> 1]
D == <<3>>
F(n) == <<3, n>>

\* "/" with the directory 3, which holds the files 4 and 6.
MCFs == AddInode(AddInode(AddInode(EmptyFs(Zeros(12)), D, "dir"), F(4), "file"), F(6), "file")

Open(p, c, m) == [op |-> "open", path |-> p, creat |-> c, mode |-> m]
Create(p) == Open(p, TRUE, "RDWR")
Close == [op |-> "close"]
List(p, cap) == <<Open(p, FALSE, "RD"), [op |-> "list", path |-> p, cap |-> cap], Close>>
Stat(p) == [op |-> "stat", path |-> p]
Args == [op |-> "args"]
Stub(c) == [op |-> c]
AskDirs == [op |-> "preopens"]
Fdstat == [op |-> "fdstat"]
ReadV(iovs) == [op |-> "read", iovs |-> iovs]
WriteV(iovs) == [op |-> "write", iovs |-> iovs]
Reg(s, v, n) == [op |-> "register", slot |-> s, val |-> v, size |-> n]
Free(s) == [op |-> "free", slot |-> s]
Acc(s, n) == [op |-> "access", slot |-> s, size |-> n]
Exit(c) == [op |-> "exit", code |-> c]

MCCanonical == [t \in {"0", "1", "2", "9"} |-> t] @@ ("01" :> "1")

\* The arguments of groups, and of functions that have their own.
Sort == [sorter_num |-> "01", merger_num |-> "2"]
Words == [reducer_num |-> "1", mapper_num |-> "01"]
Py == "pyfile_path" :> "x"
Nr(n) == "func_num" :> n

\* The function at place idx of the group that is the given stage.
Func(stage, idx, mod, driver(_), group, own, prog) ==
    LET a == to_isolation(group, own, idx)
    IN driver(a) @@ [module |-> mod, stage |-> stage, idx |-> idx, conf |-> a, prog |-> prog]
Plan(a, b, c) == [fs |-> MCFs, of |-> g1 :> a @@ g2 :> b @@ g3 :> c]
Idle(stage, idx, group) == Func(stage, idx, "idle", wasmtime_write, group, <<>>, <<Stub("fd_seek")>>)

\* Two functions of one module side by side: descriptors, paths and arguments.
Parallel ==
    {Plan(Func(1, 0, "m", wasmtime_mapper, Words, <<>>,
               <<AskDirs, Args>> \o List(D, 6) \o <<Open(F(4), FALSE, "RD"), Fdstat, Close>>),
          Func(1, 1, "m", wasmtime_mapper, Words, <<>>, <<Args, Create(F(5)), WriteV(<<<<1>>, <<2>>>>), Close>>),
          Idle(1, 2, Words)),
     Plan(Func(1, 0, "m", wasmtime_spliter, Sort, <<>>, List(D, 2)),
          Func(1, 1, "n", wasmtime_sorter, Sort, <<>>, <<Args, Create(F(5)), Close, Create(F(3)), Stat(F(4))>>),
          Func(1, 2, "n", wasmtime_sorter, Sort, <<>>, <<Args, Stat(F(7)), Open(F(9), FALSE, "RD")>>)),
     Plan(Func(1, 0, "m", wasmtime_merger, Sort, <<>>, List(F(4), 6)),
          Func(1, 1, "m", wasmtime_merger, Sort, <<>>,
               List(D, 9) \o <<Open(F(6), FALSE, "RD"), ReadV(<<<<0>>>>), WriteV(<<<<1>>>>)>>),
          Func(1, 2, "m", wasmtime_merger, Sort, <<>>, <<Close, Open(D, FALSE, "WR"), Stub("random_get")>>)),
     Plan(Func(1, 0, "m", wasmtime_checker, Sort, <<>>, <<[op |-> "list", path |-> Root, cap |-> 6]>>),
          Func(1, 1, "m", wasmtime_checker, Sort, <<>>, List(Root, 9) \o <<Fdstat>>),
          Func(1, 2, "m", wasmtime_checker, Sort, <<>>, <<Open(F(4), FALSE, "RD"), Stub("fd_pread")>>))}

\* Stages that hand buffers on; functions of one id in the same module.
Chains ==
    {Plan(Func(1, 0, "m", wasmtime_mapper, Words, <<>>, <<Reg("s", 1, 2), Reg("t", 2, 2)>>),
          Func(2, 0, "r", wasmtime_reducer, Words, <<>>, <<Acc("s", 2)>>),
          Func(2, 1, "r", wasmtime_reducer, Words, <<>>, <<Acc("t", 2), Acc("u", 2)>>)),
     Plan(Func(1, 0, "l", wasmtime_longchain, <<>>, Nr("0"), <<Args, Reg("s", 1, 2), Free("s")>>),
          Func(2, 0, "l", wasmtime_longchain, Nr("1"), <<>>, <<Args, Acc("s", 2), Reg("t", 2, 2), Free("t")>>),
          Func(3, 0, "l", wasmtime_longchain, Nr("1"), Nr("9"), <<Args, Acc("t", 2)>>)),
     Plan(Func(1, 0, "l", wasmtime_longchain, <<>>, Nr("1"), <<Reg("s", 1, 2)>>),
          Func(2, 0, "l", wasmtime_longchain, <<>>, Nr("9"), <<Args>>),
          Idle(3, 0, <<>>)),
     Plan(Func(1, 0, "p", wasmtime_cpython_wordcount, Words, Py, <<Args, Reg("s", 1, 2), Reg("t", 2, 2), Exit(0)>>),
          Func(2, 0, "p", wasmtime_cpython_wordcount, Words, Py, <<Args, Acc("s", 2), Exit(0)>>),
          Func(2, 1, "p", wasmtime_cpython_wordcount, Words, Py, <<Args, Acc("t", 3), Exit(0)>>)),
     Plan(Func(1, 0, "p", wasmtime_cpython, <<>>, Py, <<Args, Exit(0)>>),
          Func(2, 0, "q", wasmtime_cpython_parallel_sort, Py, Sort, <<Args, Exit(0)>>),
          Func(2, 1, "q", wasmtime_cpython_parallel_sort, Py, <<>>, <<Args, Exit(0)>>)),
     Plan(Func(1, 0, "p", wasmtime_cpython_mapper, Words, Py, <<Args, Reg("s", 2, 2), Exit(0)>>),
          Func(2, 0, "q", wasmtime_cpython_reducer, Words, Py, <<Args, Acc("s", 2), Exit(0)>>),
          Func(2, 1, "l", wasmtime_longchain, Words, Nr("x"), <<Args>>)),
     Plan(Func(1, 0, "f", wasmtime_cpython_func, Py, Nr("0"), <<Args, Reg("s", 1, 2)>>),
          Func(2, 0, "f", wasmtime_cpython_func, Py, Nr("01"), <<Acc("s", 2), Exit(0)>>),
          Func(2, 1, "d", wasmtime_trans_data, Py, <<>>, <<Reg("u", 1, 2), Acc("u", 2), Stub("poll_oneoff")>>)),
     Plan(Func(1, 0, "w", wasmtime_write, <<>>, <<>>, <<Args>>),
          Func(1, 1, "w", wasmtime_write, <<>>, <<>>, <<Exit(0)>>),
          Func(1, 2, "p", wasmtime_cpython, <<>>, Py, <<Exit(1)>>))}

MCPlans == Parallel \cup Chains

\* The functions of a group have the places from 0 on.
ASSUME Places ==
    \A p \in MCPlans : \A s \in {p.of[x].stage : x \in {g1, g2, g3}} :
        LET group == {x \in {g1, g2, g3} : p.of[x].stage = s}
        IN {p.of[x].idx : x \in group} = 0..(Cardinality(group) - 1)
=============================================================================
