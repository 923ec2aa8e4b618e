---------------------------- MODULE UserFunctions ----------------------------
(***************************************************************************)
(* What the functions under user/ compute: word count (mapper, reducer),    *)
(* parallel sort (file_reader, sorter, splitter, merger, checker), the      *)
(* function chain (array_sum) and the data transfer (func_a, func_b).       *)
(*                                                                          *)
(* A text is a sequence of words and a word a sequence of characters; a     *)
(* file of numbers is a sequence of tokens.                                 *)
(***************************************************************************)
EXTENDS Integers, Sequences, FiniteSets, FiniteSetsExt, Functions, TLC

CONSTANTS MaxU32,    \* u32::MAX, the largest number there is
          Empty, Bad, \* tokens that are blank, and that do not parse
          Symbol      \* the character that is not alphanumeric

\* The sequences one after the other.
Joined(seqs) ==
    LET upTo[n \in 0..Len(seqs)] == IF n = 0 THEN <<>> ELSE upTo[n - 1] \o seqs[n]
    IN upTo[Len(seqs)]

-----------------------------------------------------------------------------
(* Word count *)

\* A hash by 31, reduced at every character; h is the value so far.
getidx(word, reducer_num) ==
    LET h[n \in 0..Len(word)] ==
            IF n = 0 THEN 0 ELSE (h[n - 1] * 31 + word[n]) % reducer_num
    IN h[Len(word)]

\* Words of alphanumeric characters; the empty one, between two blanks, is one.
IsWord(w) == \A i \in DOMAIN w : w[i] # Symbol

\* counter: how often each word of the text occurs.
Counter(text) ==
    LET words == {text[i] : i \in DOMAIN text}
    IN [w \in {v \in words : IsWord(v)} |-> Cardinality({i \in DOMAIN text : text[i] = w})]

\* Mutant: the words of the last reducer are left out.
ShuffleLessOne(counter, r, reducer_num) ==
    [w \in {v \in DOMAIN counter : getidx(v, reducer_num) = r /\ r < reducer_num - 1} |-> counter[w]]

\* What the mapper leaves for reducer r.
Shuffle(counter, r, reducer_num) ==
    [w \in {v \in DOMAIN counter : getidx(v, reducer_num) = r} |-> counter[w]]

\* The reducer adds up what it got from every mapper, one mapper after the other.
Total(shuffles, w) ==
    LET sum[n \in 0..Len(shuffles)] ==
            IF n = 0 THEN 0
            ELSE sum[n - 1] + (IF w \in DOMAIN shuffles[n] THEN shuffles[n][w] ELSE 0)
    IN sum[Len(shuffles)]
Reduce(shuffles) ==
    [w \in UNION {DOMAIN shuffles[i] : i \in DOMAIN shuffles} |-> Total(shuffles, w)]

-----------------------------------------------------------------------------
(* Parallel sort *)

ParsesAll(tokens) == \A i \in DOMAIN tokens : tokens[i] # Bad

\* The numbers the sorter pushes before it meets a token that does not parse.
Pushed(tokens) ==
    LET good == {n \in 0..Len(tokens) : \A i \in 1..n : tokens[i] # Bad}
    IN SelectSeq(SubSeq(tokens, 1, Max(good)), LAMBDA x : x # Empty)

Sorted(s) == SortSeq(s, <)

\* The pivots of sorter 0, at equal distances; the index is out of bounds in an
\* empty array, and in no other.
PivotIdx(len, i, merger_num) == ((i + 1) * len) \div merger_num
PivotsPanic(array, merger_num) == array = <<>> /\ merger_num > 1
Pivots(array, merger_num) ==
    [i \in 1..(merger_num - 1) |-> array[PivotIdx(Len(array), i - 1, merger_num) + 1]]

\* The numbers from start (counted from 0) on that are below the pivot.
Below(numbers, start, pivot) ==
    LET stops == {i \in (start + 1)..Len(numbers) : numbers[i] >= pivot}
    IN SubSeq(numbers, start + 1, IF stops = {} THEN Len(numbers) ELSE Min(stops) - 1)

\* Where the part of the n-th pivot ends: each begins where the one before ended.
PartEnd(numbers, pivots) ==
    LET end[n \in 0..Len(pivots)] ==
            IF n = 0 THEN 0
            ELSE LET start == end[n - 1] IN start + Len(Below(numbers, start, pivots[n]))
    IN end

\* The pivots that get a part: the loop stops when the numbers are used up.
UsedPivots(numbers, pivots) ==
    LET last == {n \in DOMAIN pivots : PartEnd(numbers, pivots)[n] >= Len(numbers)}
    IN IF last = {} THEN Len(pivots) ELSE Min(last)

\* Mutant: the numbers behind the last pivot are dropped.
SplitNoRest(numbers, pivots) ==
    LET end == PartEnd(numbers, pivots)
        used == UsedPivots(numbers, pivots)
    IN [n \in 1..used |-> SubSeq(numbers, end[n - 1] + 1, end[n])] \o << <<>> >>

\* A part for each pivot, and one for the rest.
split_numbers(numbers, pivots) ==
    LET end == PartEnd(numbers, pivots)
        used == UsedPivots(numbers, pivots)
    IN [n \in 1..used |-> SubSeq(numbers, end[n - 1] + 1, end[n])]
       \o << SubSeq(numbers, end[used] + 1, Len(numbers)) >>

\* The partitions whose head merge_partitions may take; one that is u32::MAX is
\* never below the initial min_value.  It takes the first of the least heads.
Open(parts) == {i \in DOMAIN parts : parts[i] # <<>> /\ Head(parts[i]) < MaxU32}
Least(parts) == Min({i \in Open(parts) : \A j \in Open(parts) : Head(parts[i]) <= Head(parts[j])})

\* merge_partitions: left[n] is what is left of the partitions after n rounds.
merge_partitions(parts) ==
    LET all == 0..Len(Joined(parts))
        left[n \in all] ==
            IF n = 0 THEN parts
            ELSE LET before == left[n - 1]
                 IN IF Open(before) = {} THEN before ELSE [before EXCEPT ![Least(before)] = Tail(@)]
        rounds == Cardinality({n \in all : Open(left[n]) # {}})
    IN [n \in 1..rounds |-> Head(left[n - 1][Least(left[n - 1])])]

is_sorted(s) == \A i \in 1..(Len(s) - 1) : s[i] <= s[i + 1]

\* The checker: every result is sorted, and begins no lower than the one before began.
Checks(results) ==
    /\ \A i \in DOMAIN results : is_sorted(results[i])
    /\ LET firsts == SelectSeq(results, LAMBDA r : r # <<>>)
       IN \A i \in 1..(Len(firsts) - 1) : Head(firsts[i]) <= Head(firsts[i + 1])

-----------------------------------------------------------------------------
(* The functions as users of DataBuffer.  f: [name, id, ...] is a function     *)
(* and its arguments, p the numbers of functions of the workflow (part of      *)
(* everyone's arguments), file the contents of the input file it opens.        *)

Slot(prefix, i, j) == <<prefix, i, j>>
Out(slot, type, val) == [slot |-> slot, type |-> type, val |-> val]

\* The slots a function accesses, in this order.
Inputs(f, p) ==
    CASE f.name = "reducer" -> [i \in 1..p.mappers |-> Slot("shuffle", i - 1, f.id)]
      [] f.name = "sorter" -> << Slot("input-part", f.id, 0) >>
      [] f.name = "splitter" -> << Slot("sorter-resp-part", f.id, 0), Slot("pivots", f.id, 0) >>
      [] f.name = "merger" -> [i \in 1..p.sorters |-> Slot("splitter-resp-part", i - 1, f.id)]
      [] f.name = "checker" -> [i \in 1..p.mergers |-> Slot("merge_result", i - 1, 0)]
      [] f.name = "array_sum" -> IF f.id = 0 THEN <<>> ELSE << Slot("slot", f.id - 1, 0) >>
      [] f.name = "func_b" -> << Slot("Conference", 0, 0) >>
      [] OTHER -> <<>>

\* The slots a function may make, by the names it gives them.
Names == {"mapper", "reducer", "file_reader", "sorter", "splitter", "merger", "checker",
          "array_sum", "func_a", "func_b"}
Writes(f, slot) ==
    CASE f.name = "mapper" -> slot[1] = "shuffle" /\ slot[2] = f.id
      [] f.name = "file_reader" -> slot = f.slot
      [] f.name = "sorter" -> slot = Slot("sorter-resp-part", f.id, 0) \/ (f.id = 0 /\ slot[1] = "pivots")
      [] f.name = "splitter" -> slot[1] = "splitter-resp-part" /\ slot[2] = f.id
      [] f.name = "merger" -> slot = Slot("merge_result", f.id, 0)
      [] f.name = "array_sum" -> slot = Slot("slot", f.id, 0)
      [] f.name = "func_a" -> slot = Slot("Conference", 0, 0)
      [] OTHER -> FALSE

\* The types of their fields, which the fingerprint is made of.
InType(f) ==
    CASE f.name = "reducer" -> "HashMap" [] f.name = "sorter" -> "String"
      [] f.name = "array_sum" -> "Stringi32" [] f.name = "func_b" -> "Vec<u64>" [] OTHER -> "Vec<u32>"

\* Given None by from_buffer_slot, func_b returns an error and the others panic,
\* which rust_main catches and returns as an error too.
rust_main(end) == IF end = "panic" THEN "err" ELSE end
OnNone(f) == rust_main(IF f.name = "func_b" THEN "err" ELSE "panic")

\* The mapper makes all its buffers before it fills them, the others one by one.
Batch(f) == f.name = "mapper"

\* fake_data_<id>.txt, counted and shuffled to the reducers.
mapper_func(f, p, text) ==
    [r \in 1..p.reducers |->
        Out(Slot("shuffle", f.id, r - 1), "HashMap", Shuffle(Counter(text), r - 1, p.reducers))]

\* The sorted numbers, and, from sorter 0, the pivots for every splitter.
sorter(f, p, tokens) ==
    LET array == Sorted(Pushed(tokens))
    IN << Out(Slot("sorter-resp-part", f.id, 0), "Vec<u32>", IF ParsesAll(tokens) THEN array ELSE Pushed(tokens)) >>
       \o (IF f.id = 0 /\ ParsesAll(tokens) /\ ~PivotsPanic(array, p.mergers)
           THEN [i \in 1..p.sorters |-> Out(Slot("pivots", i - 1, 0), "Vec<u32>", Pivots(array, p.mergers))]
           ELSE <<>>)

splitter(f, numbers, pivots) ==
    LET parts == split_numbers(numbers, pivots)
    IN [i \in 1..Len(parts) |-> Out(Slot("splitter-resp-part", f.id, i - 1), "Vec<u32>", parts[i])]

merger(f, parts) == << Out(Slot("merge_result", f.id, 0), "Vec<u32>", merge_partitions(parts)) >>

\* The count of the previous function and one more.
array_sum(f, ins) ==
    << Out(Slot("slot", f.id, 0), "Stringi32", (IF f.id = 0 THEN 0 ELSE ins[1]) + 1) >>

\* file_reader makes its buffer, under the name it is given, before it opens the file.
file_reader(f, file) == << Out(f.slot, "String", IF file.exists THEN file.text ELSE <<>>) >>

func_a(f) == << Out(Slot("Conference", 0, 0), "Vec<u64>", [i \in 1..3 |-> i - 1]) >>

\* What a function writes once it has read ins.
Outputs(f, p, file, ins) ==
    CASE f.name = "mapper" -> IF file.exists THEN mapper_func(f, p, file.text) ELSE <<>>
      [] f.name = "file_reader" -> file_reader(f, file)
      [] f.name = "sorter" -> sorter(f, p, ins[1])
      [] f.name = "splitter" -> splitter(f, ins[1], ins[2])
      [] f.name = "merger" -> merger(f, ins)
      [] f.name = "array_sum" -> array_sum(f, ins)
      [] f.name = "func_a" -> func_a(f)
      [] f.name \in {"reducer", "checker", "func_b"} -> <<>>

\* How it ends then.
Ends(f, p, file, ins) ==
    CASE f.name \in {"mapper", "file_reader"} -> IF file.exists THEN "ok" ELSE "err"
      [] f.name = "sorter" ->
            IF ~ParsesAll(ins[1]) THEN "err"
            ELSE IF f.id = 0 /\ PivotsPanic(Pushed(ins[1]), p.mergers) THEN "panic" ELSE "ok"
      [] f.name = "checker" -> IF Checks(ins) THEN "ok" ELSE "err"
      [] OTHER -> "ok"
==============================================================================
