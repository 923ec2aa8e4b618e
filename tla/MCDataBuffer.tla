---------------------------- MODULE MCDataBuffer ----------------------------
(* The workflows of isol_config, made small: parallel sort with 2 files and 3 *)
(* mergers, word count with 2 mappers and 2 reducers, a function chain, a     *)
(* data transfer; and workflows a wrong configuration gives: two functions of *)
(* one number, a chain whose first slot is a file_reader's.                   *)
EXTENDS DataBuffer

Id(name, id) == [name |-> name, id |-> id]
Opens(name, id) == [name |-> name, id |-> id, file |-> id]
Reader(id, slot) == [name |-> "file_reader", file |-> id, slot |-> slot]

There(text) == [exists |-> TRUE, text |-> text]
Gone == [exists |-> FALSE]

Plan(app, fn, inputs, fileBased, blocks) ==
    [app |-> app, fn |-> fn, mappers |-> 2, reducers |-> 2, sorters |-> 2, mergers |-> 3,
     inputs |-> inputs, fileBased |-> fileBased,
     blocks |-> blocks]

SortFn ==
    [t \in {1} \X {1, 2} |-> Reader(t[2] - 1, Slot("input-part", t[2] - 1, 0))]
    @@ [t \in {2} \X {1, 2} |-> Id("sorter", t[2] - 1)]
    @@ [t \in {3} \X {1, 2} |-> Id("splitter", t[2] - 1)]
    @@ [t \in {4} \X {1, 2, 3} |-> Id("merger", t[2] - 1)]
    @@ <<5, 1>> :> Id("checker", 0)
CountFn ==
    [t \in {1} \X {1, 2} |-> Opens("mapper", t[2] - 1)]
    @@ [t \in {2} \X {1, 2} |-> Id("reducer", t[2] - 1)]
ChainFn == [t \in (1..3) \X {1} |-> Id("array_sum", t[1] - 1)]
Twice == [t \in {<<1, 1>>, <<1, 2>>, <<2, 1>>} |-> Id("array_sum", t[1] - 1)]
WrongChain == <<1, 1>> :> Reader(0, Slot("slot", 0, 0)) @@ <<2, 1>> :> Id("array_sum", 1)
TransferFn == <<1, 1>> :> Id("func_a", 0) @@ <<2, 1>> :> Id("func_b", 0) @@ <<2, 2>> :> Id("func_b", 0)

Pair(a, b) == 0 :> a @@ 1 :> b
Nums == {There(s) : s \in UNION {[1..n -> {1, 2, 9}] : n \in 0..2} \cup {<<1, 2, 3>>, <<2, 1, 9, Empty>>}}
SortInputs == {Pair(a, b) : a, b \in Nums}
    \cup {Pair(There(<<2, 1, 3>>), There(<<1, Bad, 2>>)), Pair(There(<<1>>), Gone)}
LessInputs == {Pair(There(<<1, 2, 3>>), There(<<3, 1>>)), Pair(There(<<3>>), There(<<2>>))}

Texts == {There(s) : s \in {<<>>, <<<<1>>, <<2>>, <<1>>>>, <<<<>>, <<1>>, <<1, 1, 2>>, <<2, Symbol>>>>}}
CountInputs == {Pair(a, b) : a, b \in Texts} \cup {Pair(Gone, There(<<>>))}
TwoCounts == {Pair(There(<<<<1>>, <<2>>>>), There(<<<<1>>>>)), Pair(There(<<<<2>>>>), There(<<<<1, 2>>, <<2>>>>))}
NoInputs == {Pair(There(<<1>>), Gone)}

MCPlans ==
    {Plan("sort", SortFn, SortInputs, FALSE, 15), Plan("sort", SortFn, LessInputs, TRUE, 15),
     Plan("wordcount", CountFn, CountInputs, FALSE, 4),
     Plan("wordcount", CountFn, TwoCounts, TRUE, 4)}
    \cup {Plan("other", fn, NoInputs, b, 2) : fn \in {ChainFn, WrongChain, TransferFn}, b \in BOOLEAN}
    \cup {Plan("other", Twice, NoInputs, FALSE, 3)}
=============================================================================
