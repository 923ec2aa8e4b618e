---------------------------- MODULE WasmDrivers ----------------------------
(***************************************************************************)
(* The drivers under user/wasmtime_*: what each makes of the arguments the  *)
(* configuration gives its function, an operator per driver.                *)
(*                                                                          *)
(* A driver is [needs, nums, id, args, driver]: the arguments it unwraps    *)
(* and those it parses as numbers, the id it runs the guest under, the      *)
(* guest's arguments, and what else it does:                                *)
(*   "setjmp"  save its frame in JMP_BUF_MAP    "args"    set_wasi_args     *)
(*   "root"    evaluate MUST_OPEN_ROOT          "forget"  forget the store  *)
(*   "puts", "takes"  leave or want the buffer "Conference"                 *)
(***************************************************************************)
EXTENDS Naturals, Sequences, TLC

CONSTANT Canonical  \* [texts that parse as a u64 -> the number's own text]

\* IsolationGroup::to_isolation: the arguments of the function at place idx of a
\* group.  Its own override the group's, and its place is its id.
to_isolation(args, own, idx) == "id" :> ToString(idx) @@ own @@ args

\* args::get and parse.  What a panic makes of a missing one does not matter.
Arg(a, k) == IF k \in DOMAIN a THEN a[k] ELSE ""
Num(a, k) == IF Arg(a, k) \in DOMAIN Canonical THEN Canonical[a[k]] ELSE ""

\* The driver gets as far as its func_body.
Accepts(d, a) ==
    /\ d.needs \subseteq DOMAIN a
    /\ \A k \in d.nums : Arg(a, k) \in DOMAIN Canonical

Fake == "fake system path!"
Interpreter == "python.wasm"
Guarded == {"args", "root"}

\* A C program, run under its function's id: its numbers follow the id.
CProgram(a, nums) ==
    [needs |-> {"id"}, nums |-> {nums[i] : i \in DOMAIN nums}, id |-> <<Arg(a, "id")>>,
     args |-> <<Fake, Arg(a, "id")>> \o [i \in DOMAIN nums |-> Num(a, nums[i])],
     driver |-> Guarded \cup {"forget"}]

wasmtime_mapper(a) == CProgram(a, <<"reducer_num">>)
wasmtime_spliter(a) == CProgram(a, <<"sorter_num", "merger_num">>)
wasmtime_sorter(a) == CProgram(a, <<"sorter_num", "merger_num">>)
wasmtime_merger(a) == CProgram(a, <<"sorter_num", "merger_num">>)
wasmtime_checker(a) == CProgram(a, <<"sorter_num", "merger_num">>)

\* These drop the store when the guest returns.
wasmtime_reducer(a) == [CProgram(a, <<"mapper_num">>) EXCEPT !.driver = Guarded]

\* The first function of a chain leaves the time it began for the last, number 9.
wasmtime_longchain(a) ==
    [CProgram(a, <<"func_num">>) EXCEPT !.driver =
        Guarded \cup {f \in {"puts"} : Num(a, "func_num") = "0"} \cup {f \in {"takes"} : Num(a, "func_num") = "9"}]

\* One id for every function.
wasmtime_trans_data(a) ==
    [needs |-> {}, nums |-> {}, id |-> <<"0">>, args |-> <<>>, driver |-> {"root"}]

wasmtime_write(a) ==
    [needs |-> {"id"}, nums |-> {}, id |-> <<Arg(a, "id")>>, args |-> <<>>, driver |-> {}]

\* The Python interpreter, which ends with proc_exit.
wasmtime_cpython(a) ==
    [needs |-> {"id", "pyfile_path"}, nums |-> {}, id |-> <<Arg(a, "id")>>,
     args |-> <<Interpreter, Arg(a, "pyfile_path")>>, driver |-> Guarded \cup {"setjmp", "forget"}]

\* With a prefix to the id, and the id and numbers among the arguments.
PythonOf(a, prefix, nums) ==
    [wasmtime_cpython(a) EXCEPT
        !.nums = {nums[i] : i \in DOMAIN nums},
        !.id = <<prefix>> \o @,
        !.args = @ \o <<Arg(a, "id")>> \o [i \in DOMAIN nums |-> Num(a, nums[i])]]

wasmtime_cpython_mapper(a) == PythonOf(a, "mapper_", <<"reducer_num">>)
wasmtime_cpython_reducer(a) == PythonOf(a, "reducer_", <<"mapper_num">>)
wasmtime_cpython_parallel_sort(a) == PythonOf(a, "func_", <<"sorter_num", "merger_num">>)
wasmtime_cpython_wordcount(a) == PythonOf(a, "wordcount_", <<"reducer_num", "mapper_num">>)

\* Numbers instead of ids; the only Python driver that drops the store.
wasmtime_cpython_func(a) ==
    [needs |-> {"pyfile_path"}, nums |-> {"func_num"}, id |-> <<"func_", Num(a, "func_num")>>,
     args |-> <<Interpreter, Arg(a, "pyfile_path"), Num(a, "func_num")>>, driver |-> Guarded \cup {"setjmp"}]
=============================================================================
