-------------------------- MODULE DataBufferProofs ---------------------------
(***************************************************************************)
(* What a function reads is what a function of an earlier stage wrote for    *)
(* it, and a buffer has one owner, for any workflow that keeps to the order  *)
(* of its stages, any number of functions and any input.                     *)
(***************************************************************************)
EXTENDS DataBuffer, FiniteSetTheorems, TLAPS

-----------------------------------------------------------------------------
(* What a function reads and writes                                         *)

IsSeq(s) == \E S : s \in Seq(S)

\* A sequence of outputs that stay within the slots of function f, each in a
\* slot of its own; what is in a slot of pivots is a sequence.
WellWritten(f, s) ==
    /\ Len(s) \in Nat /\ DOMAIN s = 1..Len(s)
    /\ \A i \in 1..Len(s) : Writes(f, s[i].slot)
    /\ \A i, j \in 1..Len(s) : i # j => s[i].slot # s[j].slot
    /\ \A i \in 1..Len(s) : s[i].type = "Vec<u32>" /\ s[i].slot[1] = "pivots" => IsSeq(s[i].val)

InOrder(f, s, n, prefix, id) ==
    /\ s = [i \in 1..n |-> s[i]] /\ \A i \in 1..n : s[i].slot = <<prefix, id, i - 1>>
    /\ \A slot : slot[1] = prefix /\ slot[2] = id => Writes(f, slot)
    /\ prefix # "pivots"

\* What every function writes.  Only the splitter needs to know that what it
\* took for pivots are some.
LEMMA OutputsWell ==
    ASSUME NEW f, f.name \in Names, NEW p, {p.reducers, p.sorters, p.mergers} \subseteq Nat, NEW file, NEW ins,
           f.name = "splitter" => IsSeq(ins[2])
    PROVE  WellWritten(f, Outputs(f, p, file, ins))
\* A non-empty set of numbers has a least one.
<1>LeastNat. ASSUME NEW T \in SUBSET Nat, T # {}
      PROVE  \E m \in T : \A n \in T : m <= n
  <2> USE <1>LeastNat
  <2>1. PICK x \in T : \A y \in T : ~ (<<y, x>> \in OpToRel(<, Nat))
    BY Zenon, NatLessThanWellFounded, WFMin
  <2>2. ASSUME NEW y \in T PROVE x <= y
    <3>1. ~(y < x)
      BY Zenon, <2>1 DEF OpToRel
    <3> QED  BY <3>1
  <2> QED  BY Zenon, <2>2
\* One output, none, or one for each of n in slots that are numbered.
<1>OneOutput. ASSUME NEW slot, NEW type, NEW val, Writes(f, slot), type # "Vec<u32>" \/ slot[1] # "pivots"
      PROVE  WellWritten(f, << Out(slot, type, val) >>)
  BY <1>OneOutput DEF WellWritten, Out
<1>NoOutput. WellWritten(f, <<>>)
  BY DEF WellWritten
<1>Numbered. ASSUME NEW n \in Nat, NEW s, NEW prefix, NEW id, InOrder(f, s, n, prefix, id)
      PROVE  WellWritten(f, s)
  <2> USE <1>Numbered
  <2> USE DEF InOrder
  <2>1. s \in Seq({s[i] : i \in 1..n}) /\ Len(s) = n /\ DOMAIN s = 1..n
    OBVIOUS
  <2>2. \A i \in 1..n : s[i].slot[1] = prefix /\ s[i].slot[2] = id /\ s[i].slot[3] = i - 1
    OBVIOUS
  <2>3. \A i \in 1..n : Writes(f, s[i].slot)
    BY Zenon, <2>2
  <2>4. \A i, j \in 1..n : i # j => s[i].slot # s[j].slot
    <3> SUFFICES ASSUME NEW i \in 1..n, NEW j \in 1..n, s[i].slot = s[j].slot PROVE i = j
      BY Zenon
    <3>1. i - 1 = j - 1
      BY Zenon, <2>2
    <3> QED  BY <3>1
  <2>5. \A i \in 1..n : s[i].slot[1] # "pivots"
    BY Zenon, <2>2
  <2> QED  BY Zenon, <2>1, <2>3, <2>4, <2>5 DEF WellWritten
\* The mapper's buffers are for its reducers (mapper lib.rs:118-128).
<1>MapperWrites. ASSUME f.name = "mapper", p.reducers \in Nat, NEW text
      PROVE  WellWritten(f, mapper_func(f, p, text))
  <2> USE <1>MapperWrites
  <2>1. PICK s, n : s = mapper_func(f, p, text) /\ n = p.reducers
    BY Zenon
  <2>2. n \in Nat /\ s = [i \in 1..n |-> s[i]] /\ \A i \in 1..n : s[i].slot = <<"shuffle", f.id, i - 1>>
    BY Zenon, <2>1 DEF mapper_func, Out, Slot
  <2>3. \A slot : slot[1] = "shuffle" /\ slot[2] = f.id => Writes(f, slot)
    BY Zenon DEF Writes
  <2>4. InOrder(f, s, n, "shuffle", f.id)
    BY Zenon, <2>2, <2>3 DEF InOrder
  <2> QED  BY Zenon, <2>1, <2>2, <2>4, <1>Numbered
\* The splitter's are its parts, however many there are (splitter lib.rs:49-64).
<1>SplitterWrites. ASSUME f.name = "splitter", NEW numbers, NEW pivots, IsSeq(pivots)
      PROVE  WellWritten(f, splitter(f, numbers, pivots))
  <2> USE <1>SplitterWrites
  <2>1. PICK P : pivots \in Seq(P)
    BY Zenon DEF IsSeq
  <2>2. UsedPivots(numbers, pivots) \in Nat
    <3>1. PICK last : last = {n \in DOMAIN pivots : PartEnd(numbers, pivots)[n] >= Len(numbers)}
      BY Zenon
    <3>2. last \in SUBSET Nat /\ Len(pivots) \in Nat
      BY <2>1, <3>1
    <3>3. last # {} => Min(last) \in Nat
      BY Zenon, <3>2, <1>LeastNat DEF Min
    <3>4. UsedPivots(numbers, pivots) = IF last = {} THEN Len(pivots) ELSE Min(last)
      BY Zenon, <3>1 DEF UsedPivots
    <3> QED  BY Zenon, <3>2, <3>3, <3>4
  <2>3. PICK s, parts : s = splitter(f, numbers, pivots) /\ parts = split_numbers(numbers, pivots)
    BY Zenon
  <2>4. Len(parts) \in Nat
    <3>1. PICK end, used : end = PartEnd(numbers, pivots) /\ used = UsedPivots(numbers, pivots)
      BY Zenon
    <3>2. PICK a, rest : /\ a = [n \in 1..used |-> SubSeq(numbers, end[n - 1] + 1, end[n])]
                         /\ rest = SubSeq(numbers, end[used] + 1, Len(numbers))
      BY Zenon
    <3>3. used \in Nat /\ parts = a \o <<rest>>
      BY Zenon, <2>2, <2>3, <3>1, <3>2 DEF split_numbers
    <3>4. PICK S : S = {a[n] : n \in 1..used} \cup {rest}
      BY Zenon
    <3>5. a \in Seq(S) /\ <<rest>> \in Seq(S)
      <4>1. \A n \in 1..used : a[n] \in S
        BY Zenon, <3>4
      <4>2. a = [n \in 1..used |-> a[n]]
        BY Zenon, <3>2
      <4>3. a \in [1..used -> S]
        BY Zenon, <4>1, <4>2
      <4>4. a \in Seq(S)
        BY <3>3, <4>3
      <4>5. rest \in S
        BY Zenon, <3>4
      <4> QED  BY <4>4, <4>5
    <3> QED  BY <3>3, <3>5
  <2>5. PICK n \in Nat : n = Len(parts)
    BY Zenon, <2>4
  <2>6. s = [i \in 1..n |-> s[i]] /\ \A i \in 1..n : s[i].slot = <<"splitter-resp-part", f.id, i - 1>>
    BY Zenon, <2>3, <2>5 DEF splitter, Out, Slot
  <2>7. \A slot : slot[1] = "splitter-resp-part" /\ slot[2] = f.id => Writes(f, slot)
    BY Zenon DEF Writes
  <2>8. InOrder(f, s, n, "splitter-resp-part", f.id)
    BY Zenon, <2>6, <2>7 DEF InOrder
  <2> QED  BY Zenon, <2>3, <2>8, <1>Numbered
\* Pivots are a sequence, empty when there is one merger or none.
<1>PivotsSeq. ASSUME NEW array, NEW m \in Nat
      PROVE  IsSeq(Pivots(array, m))
  <2> USE <1>PivotsSeq
  <2>1. PICK n \in Nat : 1..n = 1..(m - 1)
    <3>1. CASE m = 0
      <4>1. 1..0 = 1..(m - 1)
        BY <3>1
      <4> QED  BY Zenon, <4>1
    <3>2. CASE m > 0
      BY <3>2
    <3> QED  BY <3>1, <3>2
  <2>2. PICK s : s = Pivots(array, m)
    BY Zenon
  <2>3. PICK S : S = {s[i] : i \in 1..n}
    BY Zenon
  <2>4. s = [i \in 1..n |-> s[i]]
    BY Zenon, <2>1, <2>2 DEF Pivots
  <2>5. s \in [1..n -> S]
    BY Zenon, <2>3, <2>4
  <2>6. s \in Seq(S)
    BY <2>5
  <2> QED  BY Zenon, <2>2, <2>6 DEF IsSeq
\* The sorter's buffers are its numbers and, from sorter 0, the pivots of each
\* splitter (sorter lib.rs:74-133).
<1>SorterWrites. ASSUME f.name = "sorter", p.sorters \in Nat, p.mergers \in Nat, NEW tokens
      PROVE  WellWritten(f, sorter(f, p, tokens))
  <2> USE <1>SorterWrites
  <2>1. PICK array, n, m : array = Sorted(Pushed(tokens)) /\ n = p.sorters /\ m = p.mergers
    BY Zenon
  <2>2. PICK a : a = Out(Slot("sorter-resp-part", f.id, 0), "Vec<u32>", IF ParsesAll(tokens) THEN array ELSE Pushed(tokens))
    BY Zenon
  <2>3. PICK b : b = [i \in 1..n |-> Out(Slot("pivots", i - 1, 0), "Vec<u32>", Pivots(array, m))]
    BY Zenon
  <2>4. \/ sorter(f, p, tokens) = <<a>> \o <<>>
        \/ f.id = 0 /\ sorter(f, p, tokens) = <<a>> \o b
    BY Zenon, <2>1, <2>2, <2>3 DEF sorter
  <2>5. a.slot = <<"sorter-resp-part", f.id, 0>> /\ n \in Nat /\ m \in Nat
    BY Zenon, <2>1, <2>2 DEF Out, Slot
  <2>6. a.slot[1] = "sorter-resp-part" /\ Writes(f, a.slot)
    BY <2>5 DEF Slot, Writes
  <2>7. CASE sorter(f, p, tokens) = <<a>> \o <<>>
    <3>1. <<a>> \o <<>> = <<a>>
      OBVIOUS
    <3> QED  BY <2>6, <2>7, <3>1 DEF WellWritten
  <2>8. CASE f.id = 0 /\ sorter(f, p, tokens) = <<a>> \o b
    <3>1. b = [i \in 1..n |-> b[i]] /\ \A i \in 1..n : b[i].slot = <<"pivots", i - 1, 0>> /\ b[i].val = Pivots(array, m)
      BY Zenon, <2>3 DEF Out, Slot
    <3>2. \A i \in 1..n : b[i].slot[1] = "pivots" /\ b[i].slot[2] = i - 1 /\ IsSeq(b[i].val)
      BY <2>5, <3>1, <1>PivotsSeq
    <3>3. PICK S : S = {a} \cup {b[i] : i \in 1..n}
      BY Zenon
    <3>4. b \in [1..n -> S]
      BY Zenon, <3>1, <3>3
    <3>5. <<a>> \in Seq(S) /\ b \in Seq(S) /\ Len(b) = n
      BY <2>5, <3>3, <3>4
    <3>6. PICK s : s = <<a>> \o b
      BY Zenon
    <3>7. s \in Seq(S) /\ Len(s) = n + 1 /\ s[1] = a /\ \A i \in 2..(n + 1) : s[i] = b[i - 1] /\ i - 1 \in 1..n
      BY <2>5, <3>5, <3>6
    <3>8. \A i \in 2..(n + 1) : s[i].slot[1] = "pivots" /\ s[i].slot[2] = (i - 1) - 1 /\ IsSeq(s[i].val)
      BY Zenon, <3>2, <3>7
    <3>9. \A i \in 1..(n + 1) : i = 1 \/ i \in 2..(n + 1)
      BY <2>5
    <3>10. \A i \in 1..(n + 1) : Writes(f, s[i].slot)
      <4>1. \A i \in 2..(n + 1) : Writes(f, s[i].slot)
        BY Zenon, <2>8, <3>8 DEF Writes
      <4> QED  BY Zenon, <2>6, <3>7, <3>9, <4>1
    <3>11. \A i, j \in 1..(n + 1) : i # j => s[i].slot # s[j].slot
      <4> SUFFICES ASSUME NEW i \in 1..(n + 1), NEW j \in 1..(n + 1), s[i].slot = s[j].slot PROVE i = j
        BY Zenon
      <4>1. CASE i = 1 \/ j = 1
        BY Zenon, <2>6, <3>7, <3>8, <3>9, <4>1
      <4>2. CASE i \in 2..(n + 1) /\ j \in 2..(n + 1)
        <5>1. (i - 1) - 1 = (j - 1) - 1
          BY Zenon, <3>8, <4>2
        <5> QED  BY <5>1
      <4> QED  BY Zenon, <3>9, <4>1, <4>2
    <3>12. \A i \in 1..(n + 1) : s[i].slot[1] = "pivots" => IsSeq(s[i].val)
      BY Zenon, <2>6, <3>7, <3>8, <3>9
    <3>13. Len(s) = n + 1 /\ n + 1 \in Nat /\ DOMAIN s = 1..(n + 1)
      BY <2>5, <3>7
    <3>14. WellWritten(f, s)
      BY Zenon, <3>10, <3>11, <3>12, <3>13 DEF WellWritten
    <3> QED  BY Zenon, <2>8, <3>6, <3>14
  <2> QED  BY Zenon, <2>4, <2>7, <2>8
<1>1. CASE f.name = "mapper"
  BY Zenon, <1>1, <1>MapperWrites, <1>NoOutput DEF Outputs
<1>2. CASE f.name = "sorter"
  BY Zenon, <1>2, <1>SorterWrites DEF Outputs
<1>3. CASE f.name = "splitter"
  BY Zenon, <1>3, <1>SplitterWrites DEF Outputs
<1>4. CASE f.name \in {"reducer", "checker", "func_b"}
  BY Zenon, <1>4, <1>NoOutput DEF Outputs
<1>5. CASE f.name = "merger"
  <2>1. PICK slot : slot = Slot("merge_result", f.id, 0) /\ slot[1] = "merge_result" /\ Writes(f, slot)
    BY Zenon, <1>5 DEF Slot, Writes
  <2> QED  BY Zenon, <1>5, <2>1, <1>OneOutput DEF Outputs, merger
<1>6. CASE f.name = "array_sum"
  <2>1. PICK slot : slot = Slot("slot", f.id, 0) /\ slot[1] = "slot" /\ Writes(f, slot)
    BY Zenon, <1>6 DEF Slot, Writes
  <2> QED  BY Zenon, <1>6, <2>1, <1>OneOutput DEF Outputs, array_sum
<1>7. CASE f.name = "func_a"
  <2>1. PICK slot : slot = Slot("Conference", 0, 0) /\ slot[1] = "Conference" /\ Writes(f, slot)
    BY Zenon, <1>7 DEF Slot, Writes
  <2> QED  BY Zenon, <1>7, <2>1, <1>OneOutput DEF Outputs, func_a
<1>8. CASE f.name = "file_reader"
  <2>1. Writes(f, f.slot) /\ "String" # "Vec<u32>"
    BY Zenon, <1>8 DEF Writes
  <2> QED  BY Zenon, <1>8, <2>1, <1>OneOutput DEF Outputs, file_reader
<1> QED  BY Zenon, <1>1, <1>2, <1>3, <1>4, <1>5, <1>6, <1>7, <1>8 DEF Names

\* The slots a function reads are a sequence, and a splitter's second one is of pivots.
LEMMA InputsSeq ==
    ASSUME NEW f, NEW p, {p.mappers, p.sorters, p.mergers} \subseteq Nat
    PROVE  /\ Len(Inputs(f, p)) \in Nat /\ DOMAIN Inputs(f, p) = 1..Len(Inputs(f, p))
           /\ f.name = "splitter" => /\ Len(Inputs(f, p)) = 2 /\ Inputs(f, p)[2][1] = "pivots"
                                     /\ InType(f) = "Vec<u32>"
<1>1. ASSUME NEW s, NEW n \in Nat, s = [i \in 1..n |-> s[i]] PROVE Len(s) \in Nat /\ DOMAIN s = 1..Len(s)
  BY <1>1
<1>2. CASE f.name = "reducer"
  <2>1. PICK s, n : s = Inputs(f, p) /\ n = p.mappers
    BY Zenon
  <2>2. n \in Nat /\ s = [i \in 1..n |-> s[i]]
    BY Zenon, <1>2, <2>1 DEF Inputs
  <2> QED  BY Zenon, <1>1, <1>2, <2>1, <2>2
<1>3. CASE f.name = "merger"
  <2>1. PICK s, n : s = Inputs(f, p) /\ n = p.sorters
    BY Zenon
  <2>2. n \in Nat /\ s = [i \in 1..n |-> s[i]]
    BY Zenon, <1>3, <2>1 DEF Inputs
  <2> QED  BY Zenon, <1>1, <1>3, <2>1, <2>2
<1>4. CASE f.name = "checker"
  <2>1. PICK s, n : s = Inputs(f, p) /\ n = p.mergers
    BY Zenon
  <2>2. n \in Nat /\ s = [i \in 1..n |-> s[i]]
    BY Zenon, <1>4, <2>1 DEF Inputs
  <2> QED  BY Zenon, <1>1, <1>4, <2>1, <2>2
<1>5. CASE f.name = "splitter"
  BY <1>5 DEF Inputs, Slot, InType
<1>6. CASE f.name \notin {"reducer", "merger", "checker", "splitter"}
  <2>1. \/ Inputs(f, p) = <<>> \/ \E a : Inputs(f, p) = <<a>>
    BY Zenon, <1>6 DEF Inputs
  <2> QED  BY <1>6, <2>1
<1> QED  BY Zenon, <1>2, <1>3, <1>4, <1>5, <1>6

\* A function that is over succeeded or not, rust_main sees to it.
LEMMA EndsAs ==
    ASSUME NEW f, NEW p, NEW file, NEW ins
    PROVE  rust_main(Ends(f, p, file, ins)) \in {"ok", "err"} /\ OnNone(f) = "err" /\ rust_main("panic") = "err"
BY Zenon DEF rust_main, Ends, OnNone

-----------------------------------------------------------------------------
(* The invariant                                                            *)

LocRec(G) == [taken : Seq(G), got : Seq(G), made : Nat, inserted : Nat, filled : Nat]

Types ==
    /\ plan \in Plans /\ tasks = DOMAIN plan.fn /\ run \in Nat
    /\ status \in [tasks -> {"idle", "running", "ok", "err"}]
    /\ \E G : loc \in [tasks -> LocRec(G)]

\* A function has read its inputs.
Full(t) == Len(loc[t].got) = Len(InSlots(t))

\* How far a function is, and that the stages before it are done.
Step(t) ==
    /\ Len(loc[t].got) <= Len(loc[t].taken) /\ Len(loc[t].taken) <= Len(InSlots(t))
    /\ loc[t].made > 0 => Full(t) /\ loc[t].made <= Len(Outs(t))
    /\ loc[t].filled > 0 => Full(t) /\ loc[t].filled <= Len(Outs(t))
    /\ plan.fileBased => loc[t].made = 0 /\ loc[t].inserted = 0 /\ Len(loc[t].taken) = Len(loc[t].got)
    /\ ~plan.fileBased => loc[t].filled <= loc[t].inserted /\ loc[t].inserted <= loc[t].made
    /\ status[t] = "idle" => loc[t] = Fresh
    /\ status[t] = "ok" => Full(t) /\ loc[t].filled = Len(Outs(t))
    /\ status[t] # "idle" => \A u \in tasks : u[1] < t[1] => status[u] = "ok"

Steps == \A t \in tasks : Step(t)

\* A value that a function wrote to slot s.
Written(c, s) ==
    /\ c # Uninit /\ c.slot = s /\ c.by \in tasks /\ Writes(Fn(c.by), s)
    /\ c.type = "Vec<u32>" /\ s[1] = "pivots" => IsSeq(c.val)

\* What a function has got.
Got ==
    \A t \in tasks : \A i \in DOMAIN loc[t].got :
        /\ Written(loc[t].got[i], InSlots(t)[i]) /\ loc[t].got[i].type = InType(Fn(t))
        /\ loc[t].got[i].run = run \/ (plan.fileBased /\ ~WrittenNow(InSlots(t)[i]))

\* The buffer at an address was entered in slot s as of the type.
Entered(addr, s, type) ==
    \E u \in tasks : \E j \in 1..loc[u].inserted :
        addr = <<u, j>> /\ Outs(u)[j].slot = s /\ Outs(u)[j].type = type

\* By reference: what is in the register, in the functions' hands and in the heap.
Register == \A s \in DOMAIN register : Entered(register[s].addr, s, register[s].type)
Taken ==
    ~plan.fileBased =>
        \A t \in tasks : \A i \in DOMAIN loc[t].taken : Entered(loc[t].taken[i], InSlots(t)[i], InType(Fn(t)))
Apart ==
    ~plan.fileBased => \A t \in tasks : \A i \in DOMAIN loc[t].taken :
        /\ \A s \in DOMAIN register : register[s].addr # loc[t].taken[i]
        /\ \A u \in tasks \ {t} : \A k \in DOMAIN loc[u].taken : loc[u].taken[k] # loc[t].taken[i]
Heap ==
    ~plan.fileBased => \A u \in tasks : \A j \in 1..loc[u].made :
        /\ <<u, j>> \in DOMAIN heap
        /\ heap[<<u, j>>] = IF j <= loc[u].filled THEN Cell(u, j) ELSE Uninit

\* By file: what is on the image, and what this run left of it.
Byte(c, s) ==
    /\ Written(c, s) /\ c.run \in Nat /\ c.run <= run
    /\ c.run = run => \E j \in 1..loc[c.by].filled : Outs(c.by)[j].slot = s
Image == plan.fileBased => \A s \in DOMAIN image :
            IsSeq(image[s]) /\ image[s] # <<>> /\ \A k \in DOMAIN image[s] : Byte(image[s][k], s)

Current(bytes) ==
    /\ Size(bytes[1]) \in Nat /\ Size(bytes[1]) <= Len(bytes)
    /\ \A k \in 1..Size(bytes[1]) : bytes[k] = bytes[1]
    /\ \A k \in (Size(bytes[1]) + 1)..Len(bytes) : bytes[k].run < run
Read(s) == \E t \in tasks : s \in Range(InSlots(t))
Now ==
    plan.fileBased => \A u \in tasks : \A j \in 1..loc[u].filled : \A s :
        s = Outs(u)[j].slot => /\ s \in DOMAIN image /\ image[s][1].run = run
                               /\ Read(s) => Current(image[s])

Ref == Register /\ Taken /\ Apart /\ Heap
IInv == Types /\ Steps /\ Got /\ Ref /\ Image /\ Now

-----------------------------------------------------------------------------
(* What follows from it in one state                                        *)

\* A function of the workflow and the slots it reads.
LEMMA PlanIs ==
    ASSUME Types, NEW t \in tasks
    PROVE  /\ Fn(t).name \in Names /\ {plan.mappers, plan.reducers, plan.sorters, plan.mergers} \subseteq Nat
           /\ t[1] \in Nat /\ Len(InSlots(t)) \in Nat /\ DOMAIN InSlots(t) = 1..Len(InSlots(t))
<1>1. plan \in Plans /\ t \in DOMAIN plan.fn
  BY Zenon DEF Types
<1>2. /\ plan.fn[t].name \in Names /\ {plan.mappers, plan.reducers, plan.sorters, plan.mergers} \subseteq Nat
      /\ t[1] \in Nat
  BY Zenon, <1>1, DataBufferAssumption
<1> QED  BY Zenon, <1>2, InputsSeq DEF Fn, InSlots

\* A slot that a function reads is written by earlier stages, and by one function
\* if it is a file.
LEMMA WritersOf ==
    ASSUME Types, NEW t \in tasks, NEW i \in DOMAIN InSlots(t), NEW u \in tasks, Writes(Fn(u), InSlots(t)[i])
    PROVE  /\ u[1] < t[1]
           /\ plan.fileBased => \A v \in tasks : Writes(Fn(v), InSlots(t)[i]) => v = u
<1>1. PICK slot : slot = InSlots(t)[i]
  BY Zenon
<1>2. slot \in Range(Inputs(plan.fn[t], plan)) /\ plan \in Plans /\ t \in DOMAIN plan.fn
  BY Zenon, <1>1 DEF Range, InSlots, Fn, Types
<1>3. PICK W : W = {v \in DOMAIN plan.fn : Writes(plan.fn[v], slot)}
  BY Zenon
<1>4. (\A v \in W : v[1] < t[1]) /\ (plan.fileBased => \A v, w \in W : v = w)
  BY Zenon, <1>2, <1>3, StagedAssumption
<1>5. \A v \in tasks : Writes(Fn(v), slot) => v \in W
  BY Zenon, <1>3 DEF Fn, Types
<1> QED  BY Zenon, <1>1, <1>4, <1>5

\* The parts of a function's state.
LEMMA LocIs ==
    ASSUME Types, NEW t \in tasks
    PROVE  /\ Len(loc[t].taken) \in Nat /\ DOMAIN loc[t].taken = 1..Len(loc[t].taken)
           /\ Len(loc[t].got) \in Nat /\ DOMAIN loc[t].got = 1..Len(loc[t].got)
           /\ loc[t].made \in Nat /\ loc[t].inserted \in Nat /\ loc[t].filled \in Nat
<1>1. PICK G : loc \in [tasks -> LocRec(G)]
  BY Zenon DEF Types
<1>2. loc[t] \in LocRec(G)
  BY Zenon, <1>1
<1>3. loc[t].taken \in Seq(G) /\ loc[t].got \in Seq(G)
  BY Zenon, <1>2 DEF LocRec
<1> QED  BY <1>2, <1>3 DEF LocRec

\* What a function writes once it has read its inputs.
LEMMA OutsWell ==
    ASSUME Types, Got, NEW t \in tasks, Full(t)
    PROVE  WellWritten(Fn(t), Outs(t))
<1>1. Fn(t).name \in Names /\ {plan.mappers, plan.reducers, plan.sorters, plan.mergers} \subseteq Nat
  BY Zenon, PlanIs
<1>2. Fn(t).name = "splitter" => IsSeq(Ins(t)[2])
  <2> SUFFICES ASSUME Fn(t).name = "splitter" PROVE IsSeq(Ins(t)[2])
    BY Zenon
  <2>1. Len(InSlots(t)) = 2 /\ InSlots(t)[2][1] = "pivots" /\ InType(Fn(t)) = "Vec<u32>"
    BY Zenon, <1>1, InputsSeq DEF InSlots
  <2>2. 2 \in DOMAIN loc[t].got
    BY <2>1, LocIs DEF Full
  <2>3. IsSeq(loc[t].got[2].val)
    BY Zenon, <2>1, <2>2 DEF Got, Written
  <2> QED  BY Zenon, <2>2, <2>3 DEF Ins
<1> QED  BY Zenon, <1>1, <1>2, OutputsWell DEF Outs

\* A value that a function has got is of an input of it.
LEMMA InGot ==
    ASSUME Types, Steps, NEW t \in tasks, NEW i \in DOMAIN loc[t].got
    PROVE  i \in DOMAIN InSlots(t)
<1>1. PICK n \in Nat, k \in Nat, m \in Nat :
          /\ n = Len(loc[t].got) /\ k = Len(loc[t].taken) /\ m = Len(InSlots(t))
          /\ DOMAIN loc[t].got = 1..n /\ DOMAIN InSlots(t) = 1..m
  BY Zenon, LocIs, PlanIs
<1>2. n <= k /\ k <= m
  BY Zenon, <1>1 DEF Steps, Step
<1> QED  BY <1>1, <1>2

\* A buffer that was entered is of a function that has read its inputs.
LEMMA EnteredIs ==
    ASSUME Types, Steps, Got, NEW u \in tasks, NEW j \in 1..loc[u].inserted
    PROVE  /\ ~plan.fileBased /\ Full(u) /\ j \in 1..loc[u].made /\ j \in 1..Len(Outs(u))
           /\ WellWritten(Fn(u), Outs(u)) /\ Writes(Fn(u), Outs(u)[j].slot)
<1>1. loc[u].made \in Nat /\ loc[u].inserted \in Nat /\ loc[u].inserted > 0
  BY LocIs
<1>2. ~plan.fileBased /\ loc[u].inserted <= loc[u].made /\ loc[u].made > 0
  BY <1>1 DEF Steps, Step
<1>3. Full(u) /\ loc[u].made <= Len(Outs(u))
  BY Zenon, <1>2 DEF Steps, Step
<1>4. WellWritten(Fn(u), Outs(u))
  BY Zenon, <1>3, OutsWell
<1>5. Len(Outs(u)) \in Nat
  BY Zenon, <1>4 DEF WellWritten
<1>6. j \in 1..loc[u].made /\ j \in 1..Len(Outs(u))
  BY <1>1, <1>2, <1>3, <1>5
<1> QED  BY Zenon, <1>2, <1>3, <1>4, <1>6 DEF WellWritten

\* Likewise one that was filled, or written to a file.
LEMMA FilledIs ==
    ASSUME Types, Steps, Got, NEW u \in tasks, NEW j \in 1..loc[u].filled
    PROVE  /\ Full(u) /\ j \in 1..Len(Outs(u))
           /\ WellWritten(Fn(u), Outs(u)) /\ Writes(Fn(u), Outs(u)[j].slot)
<1>1. loc[u].filled \in Nat /\ loc[u].filled > 0
  BY LocIs
<1>2. Full(u) /\ loc[u].filled <= Len(Outs(u))
  BY Zenon, <1>1 DEF Steps, Step
<1>3. WellWritten(Fn(u), Outs(u))
  BY Zenon, <1>2, OutsWell
<1>4. j \in 1..Len(Outs(u))
  BY <1>1, <1>2, <1>3 DEF WellWritten
<1> QED  BY Zenon, <1>2, <1>3, <1>4 DEF WellWritten

\* A value as Cell makes it.
LEMMA CellIs ==
    ASSUME NEW t, NEW i
    PROVE  /\ Cell(t, i) # Uninit /\ Cell(t, i).slot = Outs(t)[i].slot /\ Cell(t, i).type = Outs(t)[i].type
           /\ Cell(t, i).val = Outs(t)[i].val /\ Cell(t, i).by = t /\ Cell(t, i).run = run
<1>1. DOMAIN Uninit = {"slot"}
  BY Zenon DEF Uninit
<1>2. "run" \in DOMAIN Cell(t, i)
  BY Zenon DEF Cell
<1> QED  BY <1>1, <1>2 DEF Cell

-----------------------------------------------------------------------------
(* Steps that leave the functions' data alone                               *)

\* What a function writes follows from what it got.
LEMMA OutsSame ==
    ASSUME NEW u, UNCHANGED <<plan, input>>, loc'[u].got = loc[u].got
    PROVE  /\ Fn(u)' = Fn(u) /\ InSlots(u)' = InSlots(u) /\ Full(u)' = Full(u) /\ Outs(u)' = Outs(u)
           /\ run' = run => \A j : Cell(u, j)' = Cell(u, j)
<1>1. Fn(u)' = Fn(u) /\ FileOf(u)' = FileOf(u)
  BY Zenon DEF Fn, FileOf
<1>2. InSlots(u)' = InSlots(u) /\ Ins(u)' = Ins(u)
  BY Zenon, <1>1 DEF InSlots, Ins
<1>3. Full(u)' = Full(u) /\ Outs(u)' = Outs(u)
  BY Zenon, <1>1, <1>2 DEF Full, Outs
<1> QED  BY Zenon, <1>1, <1>2, <1>3 DEF Cell

LEMMA InitIInv == Init => IInv
<1> SUFFICES ASSUME Init PROVE IInv
  BY Zenon
<1>1. loc = [t \in tasks |-> Fresh] /\ status = [t \in tasks |-> "idle"]
  BY Zenon DEF Init, Scheduler!Init
<1>2. Types
  <2>1. Fresh \in LocRec({})
    BY DEF Fresh, LocRec
  <2>2. loc \in [tasks -> LocRec({})]
    BY Zenon, <1>1, <2>1
  <2> QED  BY Zenon, <1>1, <2>2 DEF Types, Init
<1>3. ASSUME NEW t \in tasks
      PROVE  /\ loc[t] = Fresh /\ loc[t].taken = <<>> /\ loc[t].got = <<>> /\ loc[t].made = 0 /\ loc[t].inserted = 0
             /\ loc[t].filled = 0 /\ status[t] = "idle"
  BY Zenon, <1>1 DEF Fresh
<1>4. Steps
  <2> SUFFICES ASSUME NEW t \in tasks PROVE Step(t)
    BY Zenon DEF Steps
  <2>1. Len(InSlots(t)) \in Nat
    BY Zenon, <1>2, PlanIs
  <2> QED  BY <1>3, <2>1 DEF Step
<1>5. Got /\ Now
  BY <1>3 DEF Got, Now
<1>6. Ref /\ Image
  BY <1>3 DEF Init, Ref, Register, Taken, Apart, Heap, Image
<1> QED  BY Zenon, <1>2, <1>4, <1>5, <1>6 DEF IInv

\* A step that changes the status of functions, and may take an entry from the
\* register: what the invariant says of the rest stays.
LEMMA DataSame ==
    ASSUME IInv, UNCHANGED <<tasks, plan, input, heap, image, loc, run>>,
           register' = register \/ \E s : register' = Without(register, s)
    PROVE  Got' /\ Ref' /\ Image' /\ Now'
<1> USE DEF IInv
<1>1. /\ \A u : Fn(u)' = Fn(u) /\ InSlots(u)' = InSlots(u) /\ Outs(u)' = Outs(u)
      /\ \A u, j : Cell(u, j)' = Cell(u, j)
  BY Zenon, OutsSame
<1>2. (\A s : WrittenNow(s)' = WrittenNow(s)) /\ (\A c, s : Written(c, s)' = Written(c, s))
  BY Zenon, <1>1 DEF WrittenNow, Written
<1>3. Got'
  BY Zenon, <1>1, <1>2 DEF Got
<1>4. \A a, s, y : Entered(a, s, y)' = Entered(a, s, y)
  BY Zenon, <1>1 DEF Entered
<1>5. \A s \in DOMAIN register' : s \in DOMAIN register /\ register'[s] = register[s]
  BY Zenon DEF Without
<1>6. Register'
  BY Zenon, <1>4, <1>5 DEF Ref, Register
<1>7. Taken' /\ Heap'
  BY Zenon, <1>1, <1>4 DEF Ref, Taken, Heap
<1>8. Apart'
  BY <1>5 DEF Ref, Apart
<1>9. \A c, s : Byte(c, s)' = Byte(c, s)
  BY Zenon, <1>1, <1>2 DEF Byte
<1>10. Image'
  BY Zenon, <1>9 DEF Image
<1>11. Now'
  <2>1. \A s : Read(s)' = Read(s)
    BY Zenon, <1>1 DEF Read
  <2>2. \A b : Current(b)' = Current(b)
    BY Zenon DEF Current
  <2> QED  BY <1>1, <2>1, <2>2 DEF Now
<1> QED  BY Zenon, <1>3, <1>6, <1>7, <1>8, <1>10, <1>11 DEF Ref

\* A function begins, when the stages before its own are done.
LEMMA BeginIInv ==
    ASSUME IInv, NEW t \in tasks, Begin(t), UNCHANGED plan
    PROVE  IInv'
<1> USE DEF IInv
<1>1. /\ status[t] = "idle" /\ status' = [status EXCEPT ![t] = "running"]
      /\ UNCHANGED <<tasks, plan, input, register, heap, image, loc, run>>
      /\ \A u \in tasks : u[1] < t[1] => status[u] = "ok"
  BY Zenon DEF Begin, Scheduler!Begin
<1>2. Types'
  BY Zenon, <1>1 DEF Types
<1>3. Steps'
  <2> SUFFICES ASSUME NEW u \in tasks PROVE Step(u)'
    BY Zenon, <1>1 DEF Steps
  <2>1. Step(u) /\ Full(u)' = Full(u) /\ Outs(u)' = Outs(u) /\ InSlots(u)' = InSlots(u)
    BY Zenon, <1>1, OutsSame DEF Steps
  <2>2. \A v \in tasks : status'[v] = IF v = t THEN "running" ELSE status[v]
    BY Zenon, <1>1 DEF Types
  <2>3. status'[u] # "idle" => \A v \in tasks : v[1] < u[1] => status'[v] = "ok"
    <3>1. \A v \in tasks : status[v] = "ok" => status'[v] = "ok"
      BY Zenon, <1>1, <2>2
    <3>2. CASE u = t
      BY Zenon, <1>1, <3>1, <3>2
    <3>3. CASE u # t
      BY Zenon, <2>1, <2>2, <3>1, <3>3 DEF Step
    <3> QED  BY Zenon, <3>2, <3>3
  <2>4. /\ status'[u] = "idle" => loc'[u] = Fresh
        /\ status'[u] = "ok" => Full(u)' /\ loc'[u].filled = Len(Outs(u)')
    BY <1>1, <2>1, <2>2 DEF Step
  <2> QED  BY Zenon, <1>1, <2>1, <2>3, <2>4 DEF Step
<1>4. Got' /\ Ref' /\ Image' /\ Now'
  BY Zenon, <1>1, DataSame
<1> QED  BY Zenon, <1>2, <1>3, <1>4

\* A function ends: well only if it has written all that it writes.
LEMMA EndIs ==
    ASSUME IInv, NEW t \in tasks, NEW o \in {"ok", "err"}, Scheduler!End(t, o),
           UNCHANGED <<plan, input, heap, image, loc, run>>,
           register' = register \/ \E s : register' = Without(register, s),
           o = "ok" => Full(t) /\ loc[t].filled = Len(Outs(t))
    PROVE  IInv'
<1> USE DEF IInv
<1>1. status[t] = "running" /\ status' = [status EXCEPT ![t] = o] /\ tasks' = tasks
  BY Zenon DEF Scheduler!End
<1>2. Types'
  BY Zenon, <1>1 DEF Types
<1>3. Steps'
  <2> SUFFICES ASSUME NEW u \in tasks PROVE Step(u)'
    BY Zenon, <1>1 DEF Steps
  <2>1. Step(u) /\ Full(u)' = Full(u) /\ Outs(u)' = Outs(u) /\ InSlots(u)' = InSlots(u)
    BY Zenon, <1>1, OutsSame DEF Steps
  <2>2. \A v \in tasks : status'[v] = IF v = t THEN o ELSE status[v]
    BY Zenon, <1>1 DEF Types
  <2>3. status'[u] # "idle" => \A v \in tasks : v[1] < u[1] => status'[v] = "ok"
    <3>1. \A v \in tasks : status[v] = "ok" => status'[v] = "ok"
      BY Zenon, <1>1, <2>2
    <3>2. status'[u] # "idle" => status[u] # "idle"
      BY Zenon, <1>1, <2>2
    <3> QED  BY Zenon, <2>1, <3>1, <3>2 DEF Step
  <2>4. /\ status'[u] = "idle" => loc'[u] = Fresh
        /\ status'[u] = "ok" => Full(u)' /\ loc'[u].filled = Len(Outs(u)')
    BY Zenon, <1>1, <2>1, <2>2 DEF Step
  <2> QED  BY Zenon, <1>1, <2>1, <2>3, <2>4 DEF Step
<1>4. Got' /\ Ref' /\ Image' /\ Now'
  BY Zenon, <1>1, DataSame
<1> QED  BY Zenon, <1>2, <1>3, <1>4

\* A function that panics: run_service makes an error of it.
LEMMA FailIInv ==
    ASSUME IInv, NEW t \in tasks, Fail(t), UNCHANGED <<plan, input, heap, image, run>>,
           register' = register \/ \E s : register' = Without(register, s)
    PROVE  IInv'
<1>1. rust_main("panic") = "err"
  BY Zenon, EndsAs
<1>2. Scheduler!End(t, "err") /\ UNCHANGED loc
  BY Zenon, <1>1 DEF Fail
<1> QED  BY Zenon, <1>2, EndIs

LEMMA NoInputIInv ==
    ASSUME IInv, NEW t \in tasks, NoInput(t), UNCHANGED plan
    PROVE  IInv'
<1>1. OnNone(Fn(t)) = "err"
  BY Zenon, EndsAs
<1>2. Scheduler!End(t, "err")
  BY Zenon, <1>1 DEF NoInput
<1> QED  BY Zenon, <1>2, EndIs DEF NoInput

LEMMA EndIInv ==
    ASSUME IInv, NEW t \in tasks, End(t), UNCHANGED plan
    PROVE  IInv'
<1>1. PICK o : o = rust_main(Ends(Fn(t), plan, FileOf(t), Ins(t)))
  BY Zenon
<1>2. o \in {"ok", "err"}
  BY Zenon, <1>1, EndsAs
<1>3. Scheduler!End(t, o) /\ Full(t) /\ loc[t].filled = Len(Outs(t))
  BY Zenon, <1>1 DEF End, Knows, Full
<1>4. UNCHANGED <<input, heap, image, loc, run, register>>
  BY Zenon DEF End
<1> QED  BY Zenon, <1>2, <1>3, <1>4, EndIs

\* The run is over, or nothing happens.
LEMMA SameIInv ==
    ASSUME IInv, UNCHANGED <<tasks, status, plan, input, register, heap, image, loc, run>>
    PROVE  IInv'
<1> USE DEF IInv
<1>1. Types'
  BY Zenon DEF Types
<1>2. Steps'
  <2> SUFFICES ASSUME NEW u \in tasks PROVE Step(u)'
    BY Zenon DEF Steps
  <2>1. Step(u) /\ Full(u)' = Full(u) /\ Outs(u)' = Outs(u) /\ InSlots(u)' = InSlots(u)
    BY Zenon, OutsSame DEF Steps
  <2> QED  BY Zenon, <2>1 DEF Step
<1>3. Got' /\ Ref' /\ Image' /\ Now'
  BY Zenon, DataSame
<1> QED  BY Zenon, <1>1, <1>2, <1>3

\* The workflow runs again: all that is on the image is of earlier runs.
LEMMA AgainIInv ==
    ASSUME IInv, Again, UNCHANGED plan
    PROVE  IInv'
<1> USE DEF IInv
<1>1. /\ loc' = [t \in tasks |-> Fresh] /\ status' = [t \in tasks |-> "idle"] /\ UNCHANGED <<tasks, image, plan>>
      /\ run' = run + 1 /\ plan.fileBased /\ register' = <<>>
  BY Zenon DEF Again
<1>2. Types'
  <2>1. Fresh \in LocRec({})
    BY DEF Fresh, LocRec
  <2>2. loc' \in [tasks -> LocRec({})]
    BY Zenon, <1>1, <2>1
  <2> QED  BY <1>1, <2>2 DEF Types
<1>3. ASSUME NEW t \in tasks
      PROVE  /\ loc'[t] = Fresh /\ loc'[t].taken = <<>> /\ loc'[t].got = <<>> /\ loc'[t].made = 0 /\ loc'[t].inserted = 0
             /\ loc'[t].filled = 0 /\ status'[t] = "idle"
  BY Zenon, <1>1 DEF Fresh
<1>4. Steps'
  <2> SUFFICES ASSUME NEW t \in tasks PROVE Step(t)'
    BY Zenon, <1>1 DEF Steps
  <2>1. InSlots(t)' = InSlots(t) /\ Len(InSlots(t)) \in Nat
    BY Zenon, <1>1, PlanIs DEF InSlots, Fn
  <2> QED  BY <1>1, <1>3, <2>1 DEF Step
<1>5. Got' /\ Now'
  <2>1. ASSUME NEW t \in tasks PROVE DOMAIN loc'[t].got = {} /\ 1..loc'[t].filled = {}
    BY <1>3
  <2> QED  BY Zenon, <1>1, <2>1 DEF Got, Now
<1>6. Ref'
  <2>1. DOMAIN register' = {}
    BY <1>1
  <2> QED  BY Zenon, <1>1, <2>1 DEF Ref, Register, Taken, Apart, Heap
<1>7. Image'
  <2> SUFFICES ASSUME NEW s \in DOMAIN image, NEW k \in DOMAIN image[s] PROVE Byte(image[s][k], s)'
    BY Zenon, <1>1 DEF Image
  <2>1. PICK c : c = image[s][k]
    BY Zenon
  <2>2. Byte(c, s)
    BY Zenon, <1>1, <2>1 DEF Image
  <2>3. Written(c, s)'
    BY Zenon, <1>1, <2>2 DEF Byte, Written, Fn
  <2>4. c.run \in Nat /\ c.run <= run' /\ c.run # run'
    BY <1>1, <2>2 DEF Byte, Types
  <2>5. Byte(c, s)'
    BY Zenon, <2>3, <2>4 DEF Byte
  <2> QED  BY Zenon, <1>1, <2>1, <2>5
<1> QED  BY Zenon, <1>2, <1>4, <1>5, <1>6, <1>7

-----------------------------------------------------------------------------
(* Steps of a running function on its own data                              *)

\* The state of function t becomes this.
Becomes(t, taken, got, made, inserted, filled) ==
    loc' = [loc EXCEPT ![t] =
              [taken |-> taken, got |-> got, made |-> made, inserted |-> inserted, filled |-> filled]]

LEMMA BecomesIs ==
    ASSUME Types, NEW t \in tasks, NEW taken, NEW got, NEW made \in Nat, NEW inserted \in Nat, NEW filled \in Nat,
           IsSeq(taken), IsSeq(got), Becomes(t, taken, got, made, inserted, filled)
    PROVE  /\ \E G : loc' \in [tasks -> LocRec(G)]
           /\ loc'[t].taken = taken /\ loc'[t].got = got /\ loc'[t].made = made
           /\ loc'[t].inserted = inserted /\ loc'[t].filled = filled
           /\ \A u \in tasks \ {t} : loc'[u] = loc[u]
<1>1. PICK G : loc \in [tasks -> LocRec(G)]
  BY Zenon DEF Types
<1>2. PICK S : taken \in Seq(S)
  BY Zenon DEF IsSeq
<1>3. PICK T : got \in Seq(T)
  BY Zenon DEF IsSeq
<1>4. PICK H : H = G \cup S \cup T
  BY Zenon
<1>5. PICK r : r = [taken |-> taken, got |-> got, made |-> made, inserted |-> inserted, filled |-> filled]
  BY Zenon
<1>6. r.taken = taken /\ r.got = got /\ r.made = made /\ r.inserted = inserted /\ r.filled = filled
  BY Zenon, <1>5
<1>7. r \in LocRec(H)
  <2>1. taken \in Seq(H) /\ got \in Seq(H)
    BY <1>2, <1>3, <1>4
  <2> QED  BY Zenon, <1>5, <2>1 DEF LocRec
<1>8. \A u \in tasks : loc[u] \in LocRec(H)
  <2> SUFFICES ASSUME NEW u \in tasks PROVE loc[u] \in LocRec(H)
    BY Zenon
  <2>1. loc[u] \in LocRec(G)
    BY Zenon, <1>1
  <2>2. loc[u].taken \in Seq(G) /\ loc[u].got \in Seq(G)
    BY Zenon, <2>1 DEF LocRec
  <2>3. loc[u].taken \in Seq(H) /\ loc[u].got \in Seq(H)
    BY <1>4, <2>2
  <2> QED  BY Zenon, <2>1, <2>3 DEF LocRec
<1>9. loc' = [loc EXCEPT ![t] = r]
  BY Zenon, <1>5 DEF Becomes
<1>10. loc'[t] = r /\ \A u \in tasks \ {t} : loc'[u] = loc[u]
  BY Zenon, <1>1, <1>9
<1>11. loc' \in [tasks -> LocRec(H)]
  BY Zenon, <1>1, <1>7, <1>8, <1>9
<1> QED  BY Zenon, <1>6, <1>10, <1>11

\* The state of a function with one part changed.
LEMMA LocRecord ==
    ASSUME Types, NEW t \in tasks, NEW x
    PROVE  /\ IsSeq(loc[t].taken) /\ IsSeq(loc[t].got)
           /\ [loc[t] EXCEPT !.taken = x] =
                 [taken |-> x, got |-> loc[t].got, made |-> loc[t].made,
                  inserted |-> loc[t].inserted, filled |-> loc[t].filled]
           /\ [loc[t] EXCEPT !.got = x] =
                 [taken |-> loc[t].taken, got |-> x, made |-> loc[t].made,
                  inserted |-> loc[t].inserted, filled |-> loc[t].filled]
           /\ [loc[t] EXCEPT !.made = x] =
                 [taken |-> loc[t].taken, got |-> loc[t].got, made |-> x,
                  inserted |-> loc[t].inserted, filled |-> loc[t].filled]
           /\ [loc[t] EXCEPT !.inserted = x] =
                 [taken |-> loc[t].taken, got |-> loc[t].got, made |-> loc[t].made,
                  inserted |-> x, filled |-> loc[t].filled]
           /\ [loc[t] EXCEPT !.filled = x] =
                 [taken |-> loc[t].taken, got |-> loc[t].got, made |-> loc[t].made,
                  inserted |-> loc[t].inserted, filled |-> x]
           /\ \A y : [loc[t] EXCEPT !.taken = x, !.got = y] =
                 [taken |-> x, got |-> y, made |-> loc[t].made,
                  inserted |-> loc[t].inserted, filled |-> loc[t].filled]
<1>1. PICK G : loc \in [tasks -> LocRec(G)]
  BY DEF Types
<1>2. PICK r \in LocRec(G) : r = loc[t]
  BY Zenon, <1>1
<1>3. r.taken \in Seq(G) /\ r.got \in Seq(G)
  BY Zenon, <1>2 DEF LocRec
<1>4. IsSeq(r.taken) /\ IsSeq(r.got)
  BY Zenon, <1>3 DEF IsSeq
<1>5. [r EXCEPT !.taken = x] =
         [taken |-> x, got |-> r.got, made |-> r.made, inserted |-> r.inserted, filled |-> r.filled]
  BY <1>2 DEF LocRec
<1>6. [r EXCEPT !.got = x] =
         [taken |-> r.taken, got |-> x, made |-> r.made, inserted |-> r.inserted, filled |-> r.filled]
  BY <1>2 DEF LocRec
<1>7. [r EXCEPT !.made = x] =
         [taken |-> r.taken, got |-> r.got, made |-> x, inserted |-> r.inserted, filled |-> r.filled]
  BY <1>2 DEF LocRec
<1>8. [r EXCEPT !.inserted = x] =
         [taken |-> r.taken, got |-> r.got, made |-> r.made, inserted |-> x, filled |-> r.filled]
  BY <1>2 DEF LocRec
<1>9. [r EXCEPT !.filled = x] =
         [taken |-> r.taken, got |-> r.got, made |-> r.made, inserted |-> r.inserted, filled |-> x]
  BY <1>2 DEF LocRec
<1>10. ASSUME NEW y
       PROVE  [r EXCEPT !.taken = x, !.got = y] =
                 [taken |-> x, got |-> y, made |-> r.made, inserted |-> r.inserted, filled |-> r.filled]
  <2>1. PICK q : q = [taken |-> x, got |-> r.got, made |-> r.made, inserted |-> r.inserted, filled |-> r.filled]
    BY Zenon
  <2>2. [r EXCEPT !.taken = x, !.got = y] = [q EXCEPT !.got = y]
    BY Zenon, <1>5, <2>1
  <2>3. [q EXCEPT !.got = y] =
           [taken |-> x, got |-> y, made |-> r.made, inserted |-> r.inserted, filled |-> r.filled]
    BY <2>1
  <2> QED  BY Zenon, <2>2, <2>3
<1> QED  BY Zenon, <1>2, <1>4, <1>5, <1>6, <1>7, <1>8, <1>9, <1>10

\* What such a step does: only t's data move, they only grow, and t gets
\* something only while it has inputs to read.
Advance(t) ==
    /\ status[t] = "running" /\ UNCHANGED <<tasks, status, plan, input, run>>
    /\ \E G : loc' \in [tasks -> LocRec(G)]
    /\ \A u \in tasks \ {t} : loc'[u] = loc[u]
    /\ loc'[t].got = loc[t].got \/ ~Full(t)
    /\ loc[t].made <= loc'[t].made /\ loc[t].inserted <= loc'[t].inserted /\ loc[t].filled <= loc'[t].filled

LEMMA AdvanceKeeps ==
    ASSUME IInv, NEW t \in tasks, Advance(t)
    PROVE  /\ Types' /\ \A u \in tasks : Fn(u)' = Fn(u) /\ InSlots(u)' = InSlots(u)
           /\ \A u \in tasks : Full(u) => Full(u)' /\ Outs(u)' = Outs(u) /\ \A j : Cell(u, j)' = Cell(u, j)
           /\ \A a, s, y : Entered(a, s, y) => Entered(a, s, y)'
           /\ Step(t)' => Steps'
           /\ \A c, s : Written(c, s)' = Written(c, s)
<1> USE DEF IInv
<1>1. Types'
  BY Zenon DEF Types, Advance
<1>2. ASSUME NEW u \in tasks PROVE Fn(u)' = Fn(u) /\ InSlots(u)' = InSlots(u)
  BY Zenon DEF Fn, InSlots, Advance
<1>3. ASSUME NEW u \in tasks, Full(u)
      PROVE  Full(u)' /\ Outs(u)' = Outs(u) /\ \A j : Cell(u, j)' = Cell(u, j)
  <2>1. loc'[u].got = loc[u].got /\ UNCHANGED <<plan, input, run>>
    BY Zenon, <1>3 DEF Advance
  <2> QED  BY Zenon, <1>3, <2>1, OutsSame
<1>4. ASSUME NEW a, NEW s, NEW y, Entered(a, s, y) PROVE Entered(a, s, y)'
  <2>1. PICK u \in tasks : \E j \in 1..loc[u].inserted : a = <<u, j>> /\ Outs(u)[j].slot = s /\ Outs(u)[j].type = y
    BY Zenon, <1>4 DEF Entered
  <2>2. PICK j \in 1..loc[u].inserted : a = <<u, j>> /\ Outs(u)[j].slot = s /\ Outs(u)[j].type = y
    BY Zenon, <2>1
  <2>3. Outs(u)' = Outs(u)
    BY Zenon, <1>3, EnteredIs
  <2>4. loc[u].inserted \in Nat /\ loc'[u].inserted \in Nat
    BY Zenon, <1>1, LocIs DEF Types, LocRec, Advance
  <2>5. j \in 1..loc'[u].inserted
    BY <2>4 DEF Advance
  <2>6. u \in tasks'
    BY Zenon DEF Advance
  <2> QED  BY Zenon, <2>2, <2>3, <2>5, <2>6 DEF Entered
<1>5. ASSUME Step(t)', NEW u \in tasks PROVE Step(u)'
  <2>1. CASE u = t
    BY Zenon, <1>5, <2>1
  <2>2. CASE u # t
    <3>1. loc'[u] = loc[u] /\ UNCHANGED <<tasks, status, plan, input, run>>
      BY Zenon, <2>2 DEF Advance
    <3>2. Full(u)' = Full(u) /\ Outs(u)' = Outs(u) /\ InSlots(u)' = InSlots(u) /\ Step(u)
      BY Zenon, <3>1, OutsSame DEF Steps
    <3> QED  BY Zenon, <3>1, <3>2 DEF Step
  <2> QED  BY Zenon, <2>1, <2>2
<1>6. Step(t)' => Steps'
  BY Zenon, <1>5 DEF Steps, Advance
<1>7. ASSUME NEW c, NEW s PROVE Written(c, s)' = Written(c, s)
  BY Zenon DEF Written, Fn, Advance
<1> QED  BY Zenon, <1>1, <1>2, <1>3, <1>4, <1>6, <1>7

\* What it got stays as it was.
LEMMA GotKept ==
    ASSUME IInv, NEW t \in tasks, Advance(t), loc'[t].got = loc[t].got, ~plan.fileBased
    PROVE  Got'
<1> SUFFICES ASSUME NEW u \in tasks, NEW i \in DOMAIN loc[u].got
             PROVE  /\ Written(loc[u].got[i], InSlots(u)[i])' /\ loc'[u].got[i].type = InType(Fn(u)')
                    /\ loc'[u].got[i].run = run'
  <2>1. \A u \in tasks : loc'[u].got = loc[u].got
    BY Zenon DEF Advance
  <2> QED  BY Zenon, <2>1 DEF Got, Advance
<1>1. loc'[u].got = loc[u].got /\ UNCHANGED <<plan, run>>
  BY Zenon DEF Advance
<1>2. PICK c : c = loc[u].got[i]
  BY Zenon
<1>3. PICK s : s = InSlots(u)[i]
  BY Zenon
<1>4. Written(c, s) /\ c.type = InType(Fn(u)) /\ c.run = run
  BY Zenon, <1>2, <1>3 DEF IInv, Got
<1>5. Written(c, s)' /\ InSlots(u)' = InSlots(u) /\ Fn(u)' = Fn(u)
  BY Zenon, <1>4, AdvanceKeeps
<1> QED  BY Zenon, <1>1, <1>2, <1>3, <1>4, <1>5

\* A step that leaves alone what is made and filled leaves the heap as described.
LEMMA HeapKept ==
    ASSUME IInv, NEW t \in tasks, Advance(t), UNCHANGED heap, loc'[t].made = loc[t].made, loc'[t].filled = loc[t].filled
    PROVE  Heap'
<1> SUFFICES ASSUME ~plan.fileBased, NEW u \in tasks, NEW j \in 1..loc[u].made
             PROVE  <<u, j>> \in DOMAIN heap /\ heap[<<u, j>>] = IF j <= loc[u].filled THEN Cell(u, j)' ELSE Uninit
  <2>1. \A u \in tasks : loc'[u].made = loc[u].made /\ loc'[u].filled = loc[u].filled
    BY Zenon DEF Advance
  <2> QED  BY Zenon, <2>1 DEF Heap, Advance
<1>1. Full(u)
  BY LocIs DEF IInv, Steps, Step
<1>2. Cell(u, j)' = Cell(u, j)
  BY Zenon, <1>1, AdvanceKeeps
<1> QED  BY Zenon, <1>2 DEF IInv, Ref, Heap

\* What the functions have in their hands was entered for them.
LEMMA TakenKept ==
    ASSUME IInv, NEW t \in tasks, Advance(t),
           \A u \in tasks : \A i \in DOMAIN loc'[u].taken : \A a :
               a = loc'[u].taken[i] => Entered(a, InSlots(u)[i], InType(Fn(u)))
    PROVE  Taken'
<1>1. ASSUME NEW u \in tasks, NEW i \in DOMAIN loc'[u].taken, NEW a, a = loc'[u].taken[i],
             NEW r, r = InSlots(u)'[i], NEW y, y = InType(Fn(u)')
      PROVE  Entered(a, r, y)'
  <2>1. Fn(u)' = Fn(u) /\ InSlots(u)' = InSlots(u)
    BY Zenon, AdvanceKeeps
  <2>2. Entered(a, r, y)
    BY Zenon, <1>1, <2>1
  <2> QED  BY Zenon, <2>2, AdvanceKeeps
<1>2. tasks' = tasks
  BY Zenon DEF Advance
<1> QED  BY Zenon, <1>1, <1>2 DEF Taken

\* from_buffer_slot by reference: the entry leaves the register as the buffer
\* comes into the function's hands.
LEMMA AccessIInv ==
    ASSUME IInv, NEW t \in tasks, Access(t), UNCHANGED plan
    PROVE  IInv'
<1> USE DEF IInv
<1>1. PICK s : s = NextIn(t)
  BY Zenon
<1>2. PICK e : e = register[s]
  BY Zenon
<1>3. /\ ~plan.fileBased /\ Asks(t) /\ s \in DOMAIN register /\ register' = Without(register, s)
      /\ UNCHANGED <<input, heap, image, run>>
      /\ IF e.type # InType(Fn(t)) THEN Fail(t)
         ELSE loc' = [loc EXCEPT ![t].taken = Append(@, e.addr)] /\ UNCHANGED staged
  BY Zenon, <1>1, <1>2 DEF Access
<1>4. CASE e.type # InType(Fn(t))
  BY Zenon, <1>3, <1>4, FailIInv
<1>5. CASE e.type = InType(Fn(t))
  <2>1. loc' = [loc EXCEPT ![t].taken = Append(@, e.addr)] /\ UNCHANGED <<tasks, status>>
    BY Zenon, <1>3, <1>5 DEF staged
  <2>2. PICK n \in Nat : n = Len(loc[t].taken)
    BY Zenon, LocIs
  <2>3. PICK tk : tk = Append(loc[t].taken, e.addr)
    BY Zenon
  <2>4. IsSeq(tk) /\ Len(tk) = n + 1 /\ (\A i \in 1..n : tk[i] = loc[t].taken[i]) /\ tk[n + 1] = e.addr
        /\ DOMAIN tk = 1..(n + 1) /\ DOMAIN loc[t].taken = 1..n
    <3>1. PICK S : loc[t].taken \in Seq(S)
      BY Zenon, LocRecord DEF IsSeq
    <3>2. tk \in Seq(S \cup {e.addr})
      BY <2>3, <3>1
    <3> QED  BY <2>2, <2>3, <3>1, <3>2 DEF IsSeq
  <2>5. Becomes(t, tk, loc[t].got, loc[t].made, loc[t].inserted, loc[t].filled)
    <3>1. [loc[t] EXCEPT !.taken = tk]
             = [taken |-> tk, got |-> loc[t].got, made |-> loc[t].made,
                inserted |-> loc[t].inserted, filled |-> loc[t].filled]
      BY Zenon, LocRecord
    <3>2. loc' = [loc EXCEPT ![t] = [loc[t] EXCEPT !.taken = tk]]
      BY Zenon, <2>1, <2>3 DEF Types
    <3> QED  BY Zenon, <3>1, <3>2 DEF Becomes
  <2>6. /\ \E G : loc' \in [tasks -> LocRec(G)]
        /\ loc'[t].taken = tk /\ loc'[t].got = loc[t].got /\ loc'[t].made = loc[t].made
        /\ loc'[t].inserted = loc[t].inserted /\ loc'[t].filled = loc[t].filled
        /\ \A u \in tasks \ {t} : loc'[u] = loc[u]
    <3>1. IsSeq(loc[t].got) /\ loc[t].made \in Nat /\ loc[t].inserted \in Nat /\ loc[t].filled \in Nat
      BY Zenon, LocIs, LocRecord
    <3> QED  BY Zenon, <2>4, <2>5, <3>1, BecomesIs
  <2>7. status[t] = "running" /\ n = Len(loc[t].got) /\ n < Len(InSlots(t)) /\ s = InSlots(t)[n + 1]
    BY Zenon, <1>1, <1>3, <2>2 DEF Asks, Running, NextIn
  <2>8. Advance(t)
    BY <1>3, <2>1, <2>6, <2>7, LocIs DEF Advance
  <2>9. Types' /\ Fn(t)' = Fn(t) /\ InSlots(t)' = InSlots(t) /\ \A a, r, y : Entered(a, r, y) => Entered(a, r, y)'
    BY Zenon, <2>8, AdvanceKeeps
  <2>10. Steps'
    <3>1. Full(t)' = Full(t) /\ Outs(t)' = Outs(t) /\ Step(t)
      BY Zenon, <1>3, <2>6, OutsSame DEF Steps
    <3>2. Len(InSlots(t)) \in Nat
      BY Zenon, PlanIs
    <3>3. Step(t)'
      <4>1. Len(loc'[t].got) <= Len(loc'[t].taken) /\ Len(loc'[t].taken) <= Len(InSlots(t)')
        BY <2>4, <2>6, <2>7, <2>9, <3>2
      <4>2. status'[t] # "idle" => \A u \in tasks' : u[1] < t[1] => status'[u] = "ok"
        BY Zenon, <2>1, <3>1 DEF Step
      <4> QED  BY Zenon, <1>3, <2>1, <2>6, <2>7, <3>1, <4>1, <4>2 DEF Step
    <3> QED  BY Zenon, <2>8, <3>3, AdvanceKeeps
  <2>11. Got'
    BY Zenon, <1>3, <2>6, <2>8, GotKept
  <2>12. \A r \in DOMAIN register' : r \in DOMAIN register /\ r # s /\ register'[r] = register[r]
    BY Zenon, <1>3 DEF Without
  <2>13. Register'
    BY Zenon, <2>9, <2>12 DEF Ref, Register
  <2>14. Taken'
    <3>1. ASSUME NEW u \in tasks, NEW i \in DOMAIN loc'[u].taken, NEW a, a = loc'[u].taken[i]
          PROVE  Entered(a, InSlots(u)[i], InType(Fn(u)))
      <4>1. CASE u = t /\ i = n + 1
        BY Zenon, <1>2, <1>3, <1>5, <2>4, <2>6, <2>7, <3>1, <4>1 DEF Ref, Register
      <4>2. CASE ~(u = t /\ i = n + 1)
        <5>1. i \in DOMAIN loc[u].taken /\ loc'[u].taken[i] = loc[u].taken[i]
          BY <2>4, <2>6, <4>2
        <5> QED  BY Zenon, <1>3, <3>1, <5>1 DEF Ref, Taken
      <4> QED  BY Zenon, <4>1, <4>2
    <3> QED  BY Zenon, <2>8, <3>1, TakenKept
  <2>15. Apart'
    <3>1. ASSUME NEW u \in tasks, NEW i \in DOMAIN loc'[u].taken
          PROVE  \/ u = t /\ i = n + 1 /\ loc'[u].taken[i] = e.addr
                 \/ i \in DOMAIN loc[u].taken /\ loc'[u].taken[i] = loc[u].taken[i]
      BY <2>4, <2>6
    <3>2. ASSUME NEW r \in DOMAIN register' PROVE register[r].addr # e.addr
      <4>1. Entered(register[r].addr, r, register[r].type) /\ Entered(e.addr, s, e.type)
        BY Zenon, <1>2, <1>3, <2>12 DEF Ref, Register
      <4> QED  BY <2>12, <4>1 DEF Entered
    <3>3. ASSUME NEW u \in tasks, NEW i \in DOMAIN loc[u].taken PROVE loc[u].taken[i] # e.addr
      BY Zenon, <1>2, <1>3 DEF Ref, Apart
    <3>4. ASSUME NEW u \in tasks, NEW i \in DOMAIN loc'[u].taken, NEW r \in DOMAIN register'
          PROVE  register'[r].addr # loc'[u].taken[i]
      BY <1>3, <2>12, <3>1, <3>2 DEF Ref, Apart
    <3>5. ASSUME NEW u \in tasks, NEW i \in DOMAIN loc'[u].taken, NEW v \in tasks \ {u}, NEW k \in DOMAIN loc'[v].taken
          PROVE  loc'[v].taken[k] # loc'[u].taken[i]
      BY <1>3, <3>1, <3>3 DEF Ref, Apart
    <3> QED  BY <2>1, <3>4, <3>5 DEF Apart
  <2>16. Heap'
    BY Zenon, <1>3, <2>6, <2>8, HeapKept
  <2>17. Image' /\ Now'
    BY Zenon, <1>3 DEF Image, Now
  <2> QED  BY Zenon, <2>9, <2>10, <2>11, <2>13, <2>14, <2>15, <2>16, <2>17 DEF Ref
<1> QED  BY Zenon, <1>4, <1>5

\* What a function leaves with in its own hands, when that does not change.
LEMMA HandsKept ==
    ASSUME IInv, NEW t \in tasks, Advance(t), loc'[t].taken = loc[t].taken, ~plan.fileBased
    PROVE  /\ Taken' /\ \A u \in tasks : loc'[u].taken = loc[u].taken
           /\ UNCHANGED register => Register' /\ Apart'
<1>1. \A u \in tasks : loc'[u].taken = loc[u].taken
  BY Zenon DEF Advance
<1>2. \A u \in tasks : \A i \in DOMAIN loc'[u].taken : \A a :
         a = loc'[u].taken[i] => Entered(a, InSlots(u)[i], InType(Fn(u)))
  BY Zenon, <1>1 DEF IInv, Ref, Taken
<1>3. Taken'
  BY Zenon, <1>2, TakenKept
<1>4. ASSUME UNCHANGED register PROVE Register'
  <2>1. \A a, r, y : Entered(a, r, y) => Entered(a, r, y)'
    BY Zenon, AdvanceKeeps
  <2> QED  BY Zenon, <1>4, <2>1 DEF IInv, Ref, Register
<1>5. ASSUME UNCHANGED register PROVE Apart'
  BY <1>1, <1>5 DEF IInv, Ref, Apart, Advance
<1> QED  BY Zenon, <1>1, <1>3, <1>4, <1>5

\* A function reads through its buffer: the one who wrote it is done.
LEMMA ReadInIInv ==
    ASSUME IInv, NEW t \in tasks, ReadIn(t), UNCHANGED plan
    PROVE  IInv'
<1> USE DEF IInv
<1>1. PICK n \in Nat : n = Len(loc[t].got)
  BY Zenon, LocIs
<1>2. PICK c : c = heap[loc[t].taken[n + 1]]
  BY Zenon
<1>3. /\ status[t] = "running" /\ n < Len(loc[t].taken) /\ loc' = [loc EXCEPT ![t].got = Append(@, c)]
      /\ UNCHANGED <<tasks, status, input, register, heap, image, run>>
  BY Zenon, <1>1, <1>2 DEF ReadIn, Running, staged
<1>4. PICK gt : gt = Append(loc[t].got, c)
  BY Zenon
<1>5. IsSeq(gt) /\ Len(gt) = n + 1 /\ (\A i \in 1..n : gt[i] = loc[t].got[i]) /\ gt[n + 1] = c
      /\ DOMAIN gt = 1..(n + 1) /\ DOMAIN loc[t].got = 1..n
  <2>1. PICK S : loc[t].got \in Seq(S)
    BY Zenon, LocRecord DEF IsSeq
  <2>2. gt \in Seq(S \cup {c})
    BY <1>4, <2>1
  <2> QED  BY <1>1, <1>4, <2>1, <2>2 DEF IsSeq
<1>6. Becomes(t, loc[t].taken, gt, loc[t].made, loc[t].inserted, loc[t].filled)
  <2>1. loc' = [loc EXCEPT ![t] = [loc[t] EXCEPT !.got = gt]]
    BY Zenon, <1>3, <1>4 DEF Types
  <2> QED  BY Zenon, <2>1, LocRecord DEF Becomes
<1>7. /\ \E G : loc' \in [tasks -> LocRec(G)]
      /\ loc'[t].taken = loc[t].taken /\ loc'[t].got = gt /\ loc'[t].made = loc[t].made
      /\ loc'[t].inserted = loc[t].inserted /\ loc'[t].filled = loc[t].filled
      /\ \A u \in tasks \ {t} : loc'[u] = loc[u]
  <2>1. IsSeq(loc[t].taken) /\ loc[t].made \in Nat /\ loc[t].inserted \in Nat /\ loc[t].filled \in Nat
    BY Zenon, LocIs, LocRecord
  <2> QED  BY Zenon, <1>5, <1>6, <2>1, BecomesIs
<1>8. /\ ~plan.fileBased /\ n < Len(InSlots(t)) /\ ~Full(t) /\ n + 1 \in DOMAIN loc[t].taken
      /\ loc[t].made = 0 /\ loc[t].inserted = 0 /\ loc[t].filled = 0 /\ n + 1 <= Len(InSlots(t))
  <2>1. Step(t) /\ Len(loc[t].taken) \in Nat /\ Len(InSlots(t)) \in Nat /\ DOMAIN loc[t].taken = 1..Len(loc[t].taken)
    BY Zenon, LocIs, PlanIs DEF Steps
  <2>2. ~plan.fileBased /\ n < Len(InSlots(t)) /\ n + 1 \in DOMAIN loc[t].taken /\ n + 1 <= Len(InSlots(t))
    BY <1>1, <1>3, <2>1 DEF Step
  <2>3. ~Full(t)
    BY <1>1, <2>2 DEF Full
  <2>4. loc[t].made = 0 /\ loc[t].inserted = 0 /\ loc[t].filled = 0
    BY <2>1, <2>2, <2>3, LocIs DEF Step
  <2> QED  BY Zenon, <2>2, <2>3, <2>4
<1>9. Advance(t)
  BY <1>3, <1>7, <1>8, LocIs DEF Advance
<1>10. Types' /\ Fn(t)' = Fn(t) /\ InSlots(t)' = InSlots(t)
  BY Zenon, <1>9, AdvanceKeeps
<1>11. Steps'
  <2>1. Step(t)'
    <3>1. Len(loc'[t].got) <= Len(loc'[t].taken) /\ Len(loc'[t].taken) <= Len(InSlots(t)')
      BY <1>3, <1>5, <1>7, <1>10, LocIs DEF Steps, Step
    <3>2. status'[t] # "idle" => \A u \in tasks' : u[1] < t[1] => status'[u] = "ok"
      BY Zenon, <1>3 DEF Steps, Step
    <3> QED  BY <1>3, <1>7, <1>8, <3>1, <3>2 DEF Step
  <2> QED  BY <1>9, <2>1, AdvanceKeeps
<1>12. Got'
  <2>1. PICK s : s = InSlots(t)[n + 1]
    BY Zenon
  <2>2. Entered(loc[t].taken[n + 1], s, InType(Fn(t)))
    BY Zenon, <1>8, <2>1 DEF Ref, Taken
  <2>3. PICK u \in tasks : \E j \in 1..loc[u].inserted :
           loc[t].taken[n + 1] = <<u, j>> /\ Outs(u)[j].slot = s /\ Outs(u)[j].type = InType(Fn(t))
    BY Zenon, <2>2 DEF Entered
  <2>4. PICK j \in 1..loc[u].inserted :
           loc[t].taken[n + 1] = <<u, j>> /\ Outs(u)[j].slot = s /\ Outs(u)[j].type = InType(Fn(t))
    BY Zenon, <2>3
  <2>5. j \in 1..loc[u].made /\ j \in 1..Len(Outs(u)) /\ WellWritten(Fn(u), Outs(u)) /\ Writes(Fn(u), s)
    BY Zenon, <2>4, EnteredIs
  <2>6. n + 1 \in DOMAIN InSlots(t)
    BY <1>8, PlanIs
  <2>7. u[1] < t[1]
    BY Zenon, <2>1, <2>5, <2>6, WritersOf
  <2>8. loc[u].filled = Len(Outs(u))
    BY Zenon, <1>3, <2>7 DEF Steps, Step
  <2>9. c = Cell(u, j)
    BY <1>2, <1>8, <2>4, <2>5, <2>8 DEF Ref, Heap
  <2>10. Written(c, s) /\ c.type = InType(Fn(t)) /\ c.run = run
    <3>1. c # Uninit /\ c.slot = s /\ c.type = InType(Fn(t)) /\ c.val = Outs(u)[j].val /\ c.by = u /\ c.run = run
      BY <2>4, <2>9, CellIs
    <3>2. c.type = "Vec<u32>" /\ s[1] = "pivots" => IsSeq(c.val)
      BY Zenon, <2>4, <2>5, <3>1 DEF WellWritten
    <3> QED  BY Zenon, <2>5, <3>1, <3>2 DEF Written
  <2>11. ASSUME NEW v \in tasks, NEW i \in DOMAIN loc'[v].got, NEW d, d = loc'[v].got[i], NEW r, r = InSlots(v)'[i]
         PROVE  Written(d, r)' /\ d.type = InType(Fn(v)') /\ d.run = run'
    <3>1. Fn(v)' = Fn(v) /\ InSlots(v)' = InSlots(v) /\ Written(d, r)' = Written(d, r) /\ run' = run
      BY Zenon, <1>3, <1>9, AdvanceKeeps
    <3>2. Written(d, r) /\ d.type = InType(Fn(v)) /\ d.run = run
      <4>1. CASE v = t /\ i = n + 1
        BY Zenon, <1>5, <1>7, <2>1, <2>10, <2>11, <3>1, <4>1
      <4>2. CASE ~(v = t /\ i = n + 1)
        <5>1. i \in DOMAIN loc[v].got /\ loc'[v].got[i] = loc[v].got[i]
          BY <1>5, <1>7, <4>2
        <5> QED  BY Zenon, <1>8, <2>11, <3>1, <5>1 DEF Got
      <4> QED  BY Zenon, <4>1, <4>2
    <3> QED  BY Zenon, <3>1, <3>2
  <2> QED  BY <1>3, <2>11 DEF Got
<1>13. Taken' /\ Register' /\ Apart'
  BY Zenon, <1>3, <1>7, <1>8, <1>9, HandsKept
<1>14. Heap'
  BY Zenon, <1>3, <1>7, <1>9, HeapKept
<1>15. Image' /\ Now'
  BY Zenon, <1>8 DEF Image, Now
<1> QED  BY Zenon, <1>10, <1>11, <1>12, <1>13, <1>14, <1>15 DEF Ref

\* A step that moves only the counters of function t.
Counts(t, made, inserted, filled) ==
    /\ status[t] = "running" /\ UNCHANGED <<tasks, status, plan, input, run>>
    /\ {made, inserted, filled} \subseteq Nat
    /\ loc[t].made <= made /\ loc[t].inserted <= inserted /\ loc[t].filled <= filled
    /\ Becomes(t, loc[t].taken, loc[t].got, made, inserted, filled)

LEMMA CountsIs ==
    ASSUME IInv, NEW t \in tasks, NEW made, NEW inserted, NEW filled, Counts(t, made, inserted, filled)
    PROVE  /\ Advance(t) /\ Types' /\ \A u \in tasks : loc'[u].got = loc[u].got /\ Outs(u)' = Outs(u)
           /\ \A u \in tasks : \A j : Cell(u, j)' = Cell(u, j)
           /\ loc'[t].taken = loc[t].taken /\ \A u \in tasks \ {t} : loc'[u] = loc[u]
           /\ loc'[t].made = made /\ loc'[t].inserted = inserted /\ loc'[t].filled = filled
           /\ /\ made > 0 => Full(t) /\ made <= Len(Outs(t))
              /\ filled > 0 => Full(t) /\ filled <= Len(Outs(t))
              /\ plan.fileBased => made = 0 /\ inserted = 0
              /\ ~plan.fileBased => filled <= inserted /\ inserted <= made
              => Steps'
<1> USE DEF IInv
<1>1. made \in Nat /\ inserted \in Nat /\ filled \in Nat /\ IsSeq(loc[t].taken) /\ IsSeq(loc[t].got)
  BY Zenon, LocRecord DEF Counts
<1>2. Becomes(t, loc[t].taken, loc[t].got, made, inserted, filled)
  BY Zenon DEF Counts
<1>3. /\ \E G : loc' \in [tasks -> LocRec(G)]
      /\ loc'[t].taken = loc[t].taken /\ loc'[t].got = loc[t].got /\ loc'[t].made = made
      /\ loc'[t].inserted = inserted /\ loc'[t].filled = filled
      /\ \A u \in tasks \ {t} : loc'[u] = loc[u]
  BY Zenon, <1>1, <1>2, BecomesIs
<1>4. Advance(t)
  BY Zenon, <1>3 DEF Advance, Counts
<1>5. ASSUME NEW u \in tasks PROVE loc'[u].got = loc[u].got /\ Outs(u)' = Outs(u) /\ \A j : Cell(u, j)' = Cell(u, j)
  <2>1. loc'[u].got = loc[u].got /\ UNCHANGED <<plan, input, run>>
    BY Zenon, <1>3 DEF Counts
  <2> QED  BY Zenon, <2>1, OutsSame
<1>6. Types'
  BY Zenon, <1>4, AdvanceKeeps
<1>7. ASSUME made > 0 => Full(t) /\ made <= Len(Outs(t)),
             filled > 0 => Full(t) /\ filled <= Len(Outs(t)),
             plan.fileBased => made = 0 /\ inserted = 0,
             ~plan.fileBased => filled <= inserted /\ inserted <= made
      PROVE  Steps'
  <2>1. Full(t)' = Full(t) /\ Outs(t)' = Outs(t) /\ InSlots(t)' = InSlots(t) /\ Step(t)
    BY Zenon, <1>3, OutsSame DEF Steps, Counts
  <2>2. status'[t] = "running" /\ UNCHANGED <<tasks, status, plan>>
    BY Zenon DEF Counts
  <2>3. Step(t)'
    BY Zenon, <1>3, <1>7, <2>1, <2>2 DEF Step
  <2> QED  BY Zenon, <1>4, <2>3, AdvanceKeeps
<1> QED  BY Zenon, <1>3, <1>4, <1>5, <1>6, <1>7

\* with_slot allocates a block; nothing is in it.
LEMMA AllocIInv ==
    ASSUME IInv, NEW t \in tasks, Alloc(t), UNCHANGED plan
    PROVE  IInv'
<1> USE DEF IInv
<1>1. /\ ~plan.fileBased /\ status[t] = "running" /\ Full(t) /\ loc[t].made < Len(Outs(t))
      /\ loc[t].inserted = loc[t].made /\ UNCHANGED <<input, register, image, run>>
  BY Zenon DEF Alloc, Knows, Running, Full
<1>2. CASE Fail(t) /\ UNCHANGED heap
  BY Zenon, <1>1, <1>2, FailIInv
<1>3. CASE /\ heap' = With(heap, <<t, loc[t].made + 1>>, Uninit)
           /\ loc' = [loc EXCEPT ![t].made = @ + 1]
           /\ UNCHANGED staged
  <2>1. PICK m \in Nat : m = loc[t].made + 1
    BY LocIs
  <2>2. Becomes(t, loc[t].taken, loc[t].got, m, loc[t].inserted, loc[t].filled)
    <3>1. loc' = [loc EXCEPT ![t] = [loc[t] EXCEPT !.made = m]]
      BY Zenon, <1>3, <2>1 DEF Types
    <3> QED  BY Zenon, <3>1, LocRecord DEF Becomes
  <2>3. Counts(t, m, loc[t].inserted, loc[t].filled)
    BY <1>1, <1>3, <2>1, <2>2, LocIs DEF Counts, staged
  <2>4. PICK ins \in Nat, fl \in Nat : ins = loc[t].inserted /\ fl = loc[t].filled
    BY Zenon, LocIs
  <2>5. /\ Advance(t) /\ Types' /\ (\A u \in tasks : loc'[u].got = loc[u].got)
        /\ (\A u \in tasks : \A j : Cell(u, j)' = Cell(u, j))
        /\ loc'[t].taken = loc[t].taken /\ (\A u \in tasks \ {t} : loc'[u] = loc[u])
        /\ loc'[t].made = m /\ loc'[t].inserted = ins /\ loc'[t].filled = fl
    BY Zenon, <2>3, <2>4, CountsIs
  <2>6. Step(t) /\ Len(Outs(t)) \in Nat /\ fl <= ins
    BY Zenon, <1>1, <2>4, OutsWell DEF Steps, Step, WellWritten
  <2>7. Steps'
    <3>1. /\ m > 0 => Full(t) /\ m <= Len(Outs(t))
          /\ fl > 0 => Full(t) /\ fl <= Len(Outs(t))
          /\ plan.fileBased => m = 0 /\ ins = 0
          /\ ~plan.fileBased => fl <= ins /\ ins <= m
      BY <1>1, <2>1, <2>4, <2>6, LocIs
    <3>2. Counts(t, m, ins, fl)
      BY Zenon, <2>3, <2>4
    <3> QED  BY Zenon, <3>1, <3>2, CountsIs
  <2>8. Got' /\ Taken' /\ Register' /\ Apart'
    BY Zenon, <1>1, <2>5, GotKept, HandsKept
  <2>9. Heap'
    <3> SUFFICES ASSUME NEW u \in tasks, NEW j \in 1..loc'[u].made
                 PROVE  /\ <<u, j>> \in DOMAIN heap'
                        /\ heap'[<<u, j>>] = IF j <= loc'[u].filled THEN Cell(u, j)' ELSE Uninit
      BY Zenon, <1>3 DEF Heap, staged
    <3>1. DOMAIN heap' = DOMAIN heap \cup {<<t, m>>} /\ heap'[<<t, m>>] = Uninit
          /\ \A a \in DOMAIN heap : a # <<t, m>> => heap'[a] = heap[a]
      BY Zenon, <1>3, <2>1 DEF With
    <3>2. Cell(u, j)' = Cell(u, j)
      BY Zenon, <2>5
    <3>3. CASE u = t /\ j = m
      <4>1. ~(j <= loc'[u].filled)
        <5>1. m = ins + 1
          BY Zenon, <1>1, <2>1, <2>4
        <5>2. loc'[u].filled = fl /\ j = m /\ fl <= ins
          BY Zenon, <2>5, <2>6, <3>3
        <5> QED  BY <5>1, <5>2
      <4> QED  BY Zenon, <3>1, <3>3, <4>1
    <3>4. CASE ~(u = t /\ j = m)
      <4>1. j \in 1..loc[u].made /\ loc'[u].filled = loc[u].filled
        <5>1. CASE u = t
          <6>1. j \in 1..m /\ j # m /\ loc[t].made \in Nat
            BY Zenon, <2>5, <3>4, <5>1, LocIs
          <6>2. j \in 1..loc[t].made
            BY <2>1, <6>1
          <6> QED  BY Zenon, <2>4, <2>5, <5>1, <6>2
        <5>2. CASE u # t
          BY Zenon, <2>5, <5>2
        <5> QED  BY Zenon, <5>1, <5>2
      <4>2. <<u, j>> \in DOMAIN heap /\ heap[<<u, j>>] = IF j <= loc[u].filled THEN Cell(u, j) ELSE Uninit
        BY Zenon, <1>1, <4>1 DEF Ref, Heap
      <4>3. <<u, j>> # <<t, m>>
        BY Zenon, <3>4
      <4> QED  BY Zenon, <3>1, <3>2, <4>1, <4>2, <4>3
    <3> QED  BY Zenon, <3>3, <3>4
  <2>10. Image' /\ Now'
    BY Zenon, <1>1 DEF Image, Now
  <2> QED  BY Zenon, <2>5, <2>7, <2>8, <2>9, <2>10 DEF Ref
<1> QED  BY Zenon, <1>2, <1>3 DEF Alloc

\* with_slot enters the buffer in the register: no function has it in its hands.
LEMMA InsertIInv ==
    ASSUME IInv, NEW t \in tasks, Insert(t), UNCHANGED plan
    PROVE  IInv'
<1> USE DEF IInv
<1>1. PICK i \in Nat : i = loc[t].inserted + 1
  BY LocIs
<1>2. PICK s : s = Outs(t)[i].slot
  BY Zenon
<1>3. PICK e : e = [addr |-> <<t, i>>, type |-> Outs(t)[i].type]
  BY Zenon
<1>4. /\ status[t] = "running" /\ i <= loc[t].made /\ register' = With(register, s, e)
      /\ loc' = [loc EXCEPT ![t].inserted = i] /\ UNCHANGED <<tasks, status, input, heap, image, run>>
  BY Zenon, <1>1, <1>2, <1>3 DEF Insert, Running, staged
<1>5. PICK m \in Nat, fl \in Nat : m = loc[t].made /\ fl = loc[t].filled
  BY Zenon, LocIs
<1>6. Step(t) /\ ~plan.fileBased /\ fl <= i /\ (m > 0 => Full(t) /\ m <= Len(Outs(t)))
      /\ (fl > 0 => Full(t) /\ fl <= Len(Outs(t)))
  BY <1>1, <1>4, <1>5, LocIs DEF Steps, Step
<1>7. Counts(t, m, i, fl)
  <2>1. loc' = [loc EXCEPT ![t] = [loc[t] EXCEPT !.inserted = i]]
    BY Zenon, <1>4 DEF Types
  <2>2. Becomes(t, loc[t].taken, loc[t].got, m, i, fl)
    BY Zenon, <1>5, <2>1, LocRecord DEF Becomes
  <2> QED  BY <1>1, <1>4, <1>5, <2>2, LocIs DEF Counts
<1>8. /\ Advance(t) /\ Types' /\ (\A u \in tasks : loc'[u].got = loc[u].got /\ Outs(u)' = Outs(u))
      /\ loc'[t].taken = loc[t].taken /\ (\A u \in tasks \ {t} : loc'[u] = loc[u])
      /\ loc'[t].made = m /\ loc'[t].inserted = i /\ loc'[t].filled = fl
  BY <1>7, CountsIs
<1>9. Steps'
  <2>1. /\ m > 0 => Full(t) /\ m <= Len(Outs(t))
        /\ fl > 0 => Full(t) /\ fl <= Len(Outs(t))
        /\ plan.fileBased => m = 0 /\ i = 0
        /\ ~plan.fileBased => fl <= i /\ i <= m
    BY Zenon, <1>4, <1>5, <1>6
  <2> QED  BY Zenon, <1>7, <2>1, CountsIs
<1>10. Got' /\ Taken'
  BY Zenon, <1>6, <1>8, GotKept, HandsKept
<1>11. DOMAIN register' = DOMAIN register \cup {s} /\ register'[s] = e
       /\ \A r \in DOMAIN register : r # s => register'[r] = register[r]
  BY Zenon, <1>4 DEF With
<1>12. Register'
  <2>1. ASSUME NEW r \in DOMAIN register', NEW a, a = register'[r].addr, NEW y, y = register'[r].type
        PROVE  Entered(a, r, y)'
    <3>1. CASE r = s
      <4>1. a = <<t, i>> /\ y = Outs(t)[i].type /\ Outs(t)' = Outs(t) /\ i \in 1..loc'[t].inserted /\ t \in tasks'
        BY <1>1, <1>3, <1>4, <1>8, <1>11, <2>1, <3>1, LocIs
      <4> QED  BY Zenon, <1>2, <3>1, <4>1 DEF Entered
    <3>2. CASE r # s
      <4>1. Entered(a, r, y)
        BY Zenon, <1>11, <2>1, <3>2 DEF Ref, Register
      <4> QED  BY Zenon, <1>8, <4>1, AdvanceKeeps
    <3> QED  BY Zenon, <3>1, <3>2
  <2> QED  BY Zenon, <2>1 DEF Register
<1>13. Apart'
  <2>1. \A u \in tasks : loc'[u].taken = loc[u].taken
    BY Zenon, <1>8
  <2>2. ASSUME NEW u \in tasks, NEW k \in DOMAIN loc[u].taken PROVE loc[u].taken[k] # <<t, i>>
    <3>1. Entered(loc[u].taken[k], InSlots(u)[k], InType(Fn(u)))
      BY Zenon, <1>6 DEF Ref, Taken
    <3>2. PICK v \in tasks : \E j \in 1..loc[v].inserted : loc[u].taken[k] = <<v, j>>
      BY Zenon, <3>1 DEF Entered
    <3> QED  BY <1>1, <3>2, LocIs
  <2>3. ASSUME NEW u \in tasks, NEW k \in DOMAIN loc[u].taken, NEW r \in DOMAIN register'
        PROVE  register'[r].addr # loc[u].taken[k]
    <3>1. CASE r = s
      BY <1>3, <1>11, <2>2, <3>1
    <3>2. CASE r # s
      BY <1>6, <1>11, <3>2 DEF Ref, Apart
    <3> QED  BY Zenon, <3>1, <3>2
  <2>4. ASSUME NEW u \in tasks, NEW k \in DOMAIN loc[u].taken, NEW v \in tasks \ {u}, NEW j \in DOMAIN loc[v].taken
        PROVE  loc[v].taken[j] # loc[u].taken[k]
    BY Zenon, <1>6 DEF Ref, Apart
  <2> QED  BY <1>4, <2>1, <2>3, <2>4 DEF Apart
<1>14. Heap'
  BY Zenon, <1>4, <1>5, <1>8, HeapKept
<1>15. Image' /\ Now'
  BY Zenon, <1>6 DEF Image, Now
<1> QED  BY Zenon, <1>8, <1>9, <1>10, <1>12, <1>13, <1>14, <1>15 DEF Ref

\* The function fills its buffer.
LEMMA FillIInv ==
    ASSUME IInv, NEW t \in tasks, Fill(t), UNCHANGED plan
    PROVE  IInv'
<1> USE DEF IInv
<1>1. PICK i \in Nat : i = loc[t].filled + 1
  BY LocIs
<1>2. PICK c : c = Cell(t, i)
  BY Zenon
<1>3. /\ ~plan.fileBased /\ status[t] = "running" /\ i <= loc[t].inserted /\ heap' = [heap EXCEPT ![<<t, i>>] = c]
      /\ loc' = [loc EXCEPT ![t].filled = i] /\ UNCHANGED <<tasks, status, input, register, image, run>>
  BY Zenon, <1>1, <1>2 DEF Fill, Running, staged
<1>4. PICK m \in Nat, ins \in Nat : m = loc[t].made /\ ins = loc[t].inserted
  BY Zenon, LocIs
<1>5. Step(t) /\ ins <= m /\ Full(t) /\ m <= Len(Outs(t)) /\ Len(Outs(t)) \in Nat
  <2>0. Step(t)
    BY Zenon DEF Steps
  <2>1. ins <= m /\ (m > 0 => Full(t) /\ m <= Len(Outs(t)))
    BY Zenon, <1>3, <1>4, <2>0 DEF Step
  <2>2. m > 0
    BY <1>1, <1>3, <1>4, <2>1, LocIs
  <2> QED  BY Zenon, <2>0, <2>1, <2>2, OutsWell DEF WellWritten
<1>6. Counts(t, m, ins, i)
  <2>1. loc' = [loc EXCEPT ![t] = [loc[t] EXCEPT !.filled = i]]
    BY Zenon, <1>3 DEF Types
  <2>2. Becomes(t, loc[t].taken, loc[t].got, m, ins, i)
    BY Zenon, <1>4, <2>1, LocRecord DEF Becomes
  <2> QED  BY <1>1, <1>3, <1>4, <2>2, LocIs DEF Counts
<1>7. /\ Advance(t) /\ Types' /\ (\A u \in tasks : loc'[u].got = loc[u].got /\ Outs(u)' = Outs(u))
      /\ (\A u \in tasks : \A j : Cell(u, j)' = Cell(u, j))
      /\ loc'[t].taken = loc[t].taken /\ (\A u \in tasks \ {t} : loc'[u] = loc[u])
      /\ loc'[t].made = m /\ loc'[t].inserted = ins /\ loc'[t].filled = i
  BY <1>6, CountsIs
<1>8. Steps'
  <2>1. /\ m > 0 => Full(t) /\ m <= Len(Outs(t))
        /\ i > 0 => Full(t) /\ i <= Len(Outs(t))
        /\ plan.fileBased => m = 0 /\ ins = 0
        /\ ~plan.fileBased => i <= ins /\ ins <= m
    BY <1>3, <1>4, <1>5
  <2> QED  BY Zenon, <1>6, <2>1, CountsIs
<1>9. Got' /\ Taken' /\ Register' /\ Apart'
  BY Zenon, <1>3, <1>7, GotKept, HandsKept
<1>10. Heap'
  <2> SUFFICES ASSUME NEW u \in tasks, NEW j \in 1..loc'[u].made
               PROVE  /\ <<u, j>> \in DOMAIN heap'
                      /\ heap'[<<u, j>>] = IF j <= loc'[u].filled THEN Cell(u, j)' ELSE Uninit
    BY Zenon, <1>3 DEF Heap
  <2>1. j \in 1..loc[u].made /\ Cell(u, j)' = Cell(u, j)
    BY Zenon, <1>4, <1>7
  <2>2. <<u, j>> \in DOMAIN heap /\ heap[<<u, j>>] = IF j <= loc[u].filled THEN Cell(u, j) ELSE Uninit
    BY Zenon, <1>3, <2>1 DEF Ref, Heap
  <2>3. DOMAIN heap' = DOMAIN heap /\ \A a \in DOMAIN heap : heap'[a] = IF a = <<t, i>> THEN c ELSE heap[a]
    BY Zenon, <1>3
  <2>4. CASE u = t /\ j = i
    <3>1. heap'[<<u, j>>] = c /\ <<u, j>> \in DOMAIN heap'
      BY Zenon, <2>2, <2>3, <2>4
    <3>2. c = Cell(u, j)'
      BY Zenon, <1>2, <2>1, <2>4
    <3>3. j <= loc'[u].filled
      BY <1>7, <2>4
    <3> QED  BY Zenon, <3>1, <3>2, <3>3
  <2>5. CASE ~(u = t /\ j = i)
    <3>1. <<u, j>> # <<t, i>> /\ (j <= loc'[u].filled <=> j <= loc[u].filled)
      BY <1>1, <1>7, <2>5, LocIs
    <3> QED  BY Zenon, <2>1, <2>2, <2>3, <3>1
  <2> QED  BY Zenon, <2>4, <2>5
<1>11. Image' /\ Now'
  BY Zenon, <1>3 DEF Image, Now
<1> QED  BY Zenon, <1>7, <1>8, <1>9, <1>10, <1>11 DEF Ref

-----------------------------------------------------------------------------
(* By file                                                                  *)

\* What such a step leaves of the files.
LEMMA FileKept ==
    ASSUME IInv, NEW t \in tasks, Advance(t), plan.fileBased, UNCHANGED register
    PROVE  /\ Ref' /\ \A s : Read(s)' = Read(s) /\ \A b : Current(b)' = Current(b)
           /\ \A c, s : Byte(c, s) => Byte(c, s)'
           /\ loc'[t].filled = loc[t].filled =>
                 (\A s : WrittenNow(s)' => WrittenNow(s)) /\ (UNCHANGED image => Image' /\ Now')
<1> USE DEF IInv
<1>1. UNCHANGED <<tasks, plan, run>> /\ \A a, r, y : Entered(a, r, y) => Entered(a, r, y)'
  BY Zenon, AdvanceKeeps DEF Advance
<1>2. Ref'
  BY Zenon, <1>1 DEF Ref, Register, Taken, Apart, Heap
<1>3. ASSUME NEW s PROVE Read(s)' = Read(s)
  <2>1. \A u \in tasks : InSlots(u)' = InSlots(u)
    BY Zenon, AdvanceKeeps
  <2> QED  BY Zenon, <1>1, <2>1 DEF Read
<1>4. ASSUME NEW b PROVE Current(b)' = Current(b)
  BY Zenon, <1>1 DEF Current
<1>5. ASSUME NEW u \in tasks
      PROVE  /\ loc[u].filled \in Nat /\ loc'[u].filled \in Nat /\ loc[u].filled <= loc'[u].filled
             /\ \A j \in 1..loc[u].filled : Outs(u)' = Outs(u)
  <2>1. loc[u].filled \in Nat /\ loc'[u].filled \in Nat
    BY Zenon, LocIs DEF Advance, LocRec
  <2>2. \A j \in 1..loc[u].filled : Outs(u)' = Outs(u)
    BY Zenon, FilledIs, AdvanceKeeps
  <2> QED  BY <2>1, <2>2 DEF Advance
<1>6. ASSUME NEW c, NEW s, Byte(c, s) PROVE Byte(c, s)'
  <2>1. Written(c, s) /\ Written(c, s)' = Written(c, s) /\ c.by \in tasks
    BY Zenon, <1>6, AdvanceKeeps DEF Byte, Written
  <2>2. ASSUME c.run = run, NEW j \in 1..loc[c.by].filled, Outs(c.by)[j].slot = s
        PROVE  j \in 1..loc'[c.by].filled /\ Outs(c.by)'[j].slot = s
    <3>1. PICK u \in tasks : u = c.by
      BY Zenon, <2>1
    <3>2. j \in 1..loc[u].filled /\ Outs(u)[j].slot = s
      BY Zenon, <2>2, <3>1
    <3>3. /\ loc[u].filled \in Nat /\ loc'[u].filled \in Nat /\ loc[u].filled <= loc'[u].filled
          /\ Outs(u)' = Outs(u)
      BY Zenon, <1>5, <3>2
    <3>4. j \in 1..loc'[u].filled
      BY <3>2, <3>3
    <3> QED  BY Zenon, <3>1, <3>2, <3>3, <3>4
  <2> QED  BY Zenon, <1>1, <1>6, <2>1, <2>2 DEF Byte
<1>7. ASSUME loc'[t].filled = loc[t].filled, NEW s, WrittenNow(s)' PROVE WrittenNow(s)
  <2>1. \A u \in tasks : loc'[u].filled = loc[u].filled
    BY Zenon, <1>7 DEF Advance
  <2>2. PICK u \in tasks : \E j \in 1..loc'[u].filled : Outs(u)'[j].slot = s
    BY Zenon, <1>1, <1>7 DEF WrittenNow
  <2> QED  BY Zenon, <1>5, <2>1, <2>2 DEF WrittenNow
<1>8. ASSUME UNCHANGED image PROVE Image'
  BY Zenon, <1>6, <1>8 DEF Image
<1>9. ASSUME loc'[t].filled = loc[t].filled, UNCHANGED image PROVE Now'
  <2>1. \A u \in tasks : loc'[u].filled = loc[u].filled
    BY Zenon, <1>9 DEF Advance
  <2>2. ASSUME NEW u \in tasks, NEW j \in 1..loc[u].filled, NEW s, s = Outs(u)'[j].slot
        PROVE  s \in DOMAIN image /\ image[s][1].run = run /\ (Read(s) => Current(image[s]))
    BY Zenon, <1>5, <2>2 DEF Now
  <2>3. ASSUME NEW s, NEW b, b = image[s], Read(s) => Current(b) PROVE Read(s)' => Current(b)'
    BY Zenon, <1>3, <1>4, <2>3
  <2>4. ASSUME NEW u \in tasks, NEW j \in 1..loc'[u].filled, NEW s, s = Outs(u)'[j].slot
        PROVE  s \in DOMAIN image' /\ image'[s][1].run = run' /\ (Read(s)' => Current(image[s])')
    <3>1. j \in 1..loc[u].filled
      BY Zenon, <2>1
    <3>2. s \in DOMAIN image /\ image[s][1].run = run /\ (Read(s) => Current(image[s]))
      BY Zenon, <2>2, <2>4, <3>1
    <3>3. PICK b : b = image[s] /\ b = image'[s]
      BY Zenon, <1>9
    <3>4. Read(s)' => Current(b)'
      BY Zenon, <2>3, <3>2, <3>3
    <3> QED  BY Zenon, <1>1, <1>9, <3>2, <3>3, <3>4
  <2> QED  BY Zenon, <1>1, <2>4 DEF Now
<1> QED  BY Zenon, <1>2, <1>3, <1>4, <1>6, <1>7, <1>8, <1>9

\* from_buffer_slot by file: the value is of this run if a function of this run
\* wrote the file.
LEMMA ReadFileIInv ==
    ASSUME IInv, NEW t \in tasks, ReadFile(t), UNCHANGED plan
    PROVE  IInv'
<1> USE DEF IInv
<1>1. PICK s : s = NextIn(t)
  BY Zenon
<1>2. PICK c : c = image[s][1]
  BY Zenon
<1>3. plan.fileBased /\ Asks(t) /\ s \in DOMAIN image /\ UNCHANGED <<input, register, heap, image, run>>
  BY Zenon, <1>1 DEF ReadFile
<1>4. CASE Fail(t)
  BY Zenon, <1>3, <1>4, FailIInv
<1>5. CASE /\ c.type = InType(Fn(t)) /\ UNCHANGED staged
           /\ loc' = [loc EXCEPT ![t].taken = Append(@, 0), ![t].got = Append(@, c)]
  <2>1. PICK n \in Nat : n = Len(loc[t].got)
    BY Zenon, LocIs
  <2>2. /\ status[t] = "running" /\ n = Len(loc[t].taken) /\ n < Len(InSlots(t)) /\ s = InSlots(t)[n + 1]
        /\ UNCHANGED <<tasks, status>>
    BY Zenon, <1>1, <1>3, <1>5, <2>1 DEF Asks, Running, NextIn, staged
  <2>3. PICK tk : tk = Append(loc[t].taken, 0)
    BY Zenon
  <2>4. PICK gt : gt = Append(loc[t].got, c)
    BY Zenon
  <2>5. IsSeq(gt) /\ Len(gt) = n + 1 /\ (\A i \in 1..n : gt[i] = loc[t].got[i]) /\ gt[n + 1] = c
        /\ DOMAIN gt = 1..(n + 1) /\ DOMAIN loc[t].got = 1..n
    <3>1. PICK S : loc[t].got \in Seq(S)
      BY Zenon, LocRecord DEF IsSeq
    <3>2. gt \in Seq(S \cup {c})
      BY <2>4, <3>1
    <3> QED  BY <2>1, <2>4, <3>1, <3>2 DEF IsSeq
  <2>6. IsSeq(tk) /\ Len(tk) = n + 1
    <3>1. PICK S : loc[t].taken \in Seq(S)
      BY Zenon, LocRecord DEF IsSeq
    <3>2. tk \in Seq(S \cup {0})
      BY <2>3, <3>1
    <3> QED  BY <2>2, <2>3, <3>1, <3>2 DEF IsSeq
  <2>7. Becomes(t, tk, gt, loc[t].made, loc[t].inserted, loc[t].filled)
    <3>1. loc' = [loc EXCEPT ![t] = [loc[t] EXCEPT !.taken = tk, !.got = gt]]
      BY Zenon, <1>5, <2>3, <2>4 DEF Types
    <3>2. \A y : [loc[t] EXCEPT !.taken = tk, !.got = y] =
                    [taken |-> tk, got |-> y, made |-> loc[t].made,
                     inserted |-> loc[t].inserted, filled |-> loc[t].filled]
      BY LocRecord, Zenon
    <3> QED  BY Zenon, <3>1, <3>2 DEF Becomes
  <2>8. /\ \E G : loc' \in [tasks -> LocRec(G)]
        /\ loc'[t].taken = tk /\ loc'[t].got = gt /\ loc'[t].made = loc[t].made
        /\ loc'[t].inserted = loc[t].inserted /\ loc'[t].filled = loc[t].filled
        /\ \A u \in tasks \ {t} : loc'[u] = loc[u]
    <3>1. loc[t].made \in Nat /\ loc[t].inserted \in Nat /\ loc[t].filled \in Nat
      BY Zenon, LocIs
    <3> QED  BY Zenon, <2>5, <2>6, <2>7, <3>1, BecomesIs
  <2>9. ~Full(t) /\ loc[t].made = 0 /\ loc[t].inserted = 0 /\ loc[t].filled = 0 /\ n + 1 <= Len(InSlots(t))
    <3>1. Step(t) /\ Len(InSlots(t)) \in Nat
      BY Zenon, PlanIs DEF Steps
    <3>2. ~Full(t) /\ n + 1 <= Len(InSlots(t))
      BY <2>1, <2>2, <3>1 DEF Full
    <3>3. ~(loc[t].filled > 0) /\ loc[t].made = 0 /\ loc[t].inserted = 0
      BY Zenon, <1>3, <3>1, <3>2 DEF Step
    <3>4. loc[t].filled = 0
      BY <3>3, LocIs
    <3> QED  BY Zenon, <3>2, <3>3, <3>4
  <2>10. Advance(t)
    <3>1. loc[t].made <= loc'[t].made /\ loc[t].inserted <= loc'[t].inserted /\ loc[t].filled <= loc'[t].filled
      <4>1. 0 <= 0
        OBVIOUS
      <4> QED  BY Zenon, <2>8, <2>9, <4>1
    <3> QED  BY Zenon, <1>3, <2>2, <2>8, <2>9, <3>1 DEF Advance
  <2>11. Types' /\ InSlots(t)' = InSlots(t)
    BY Zenon, <2>10, AdvanceKeeps
  <2>12. Steps'
    <3>1. Step(t)'
      <4>1. Len(loc'[t].got) <= Len(loc'[t].taken) /\ Len(loc'[t].taken) <= Len(InSlots(t)')
            /\ Len(loc'[t].taken) = Len(loc'[t].got)
        <5>1. Len(loc'[t].got) = n + 1 /\ Len(loc'[t].taken) = n + 1 /\ Len(InSlots(t)') = Len(InSlots(t))
          BY Zenon, <2>5, <2>6, <2>8, <2>11
        <5> QED  BY <2>9, <5>1
      <4>2. status'[t] # "idle" => \A u \in tasks' : u[1] < t[1] => status'[u] = "ok"
        BY Zenon, <2>2 DEF Steps, Step
      <4>3. loc'[t].made = 0 /\ loc'[t].inserted = 0 /\ loc'[t].filled = 0
        BY Zenon, <2>8, <2>9
      <4>4. status'[t] = "running" /\ plan'.fileBased
        BY Zenon, <1>3, <2>2
      <4>5. status'[t] # "idle" /\ status'[t] # "ok" /\ ~(loc'[t].made > 0) /\ ~(loc'[t].filled > 0)
        <5>1. ~(0 > 0)
          OBVIOUS
        <5> QED  BY Zenon, <4>3, <4>4, <5>1
      <4> QED  BY Zenon, <4>1, <4>2, <4>3, <4>4, <4>5 DEF Step
    <3> QED  BY Zenon, <2>10, <3>1, AdvanceKeeps
  <2>13. Ref' /\ Image' /\ Now' /\ \A r : WrittenNow(r)' => WrittenNow(r)
    BY Zenon, <1>3, <2>8, <2>10, FileKept
  <2>14. Got'
    <3>1. Byte(c, s)
      <4>1. PICK S : image[s] \in Seq(S)
        BY Zenon, <1>3 DEF Image, IsSeq
      <4>2. 1 \in DOMAIN image[s]
        BY <1>3, <4>1 DEF Image
      <4> QED  BY Zenon, <1>2, <1>3, <4>2 DEF Image
    <3>2. c.run = run \/ ~WrittenNow(s)
      BY Zenon, <1>2, <1>3 DEF Now, WrittenNow
    <3>3. ASSUME NEW v \in tasks, NEW i \in DOMAIN loc'[v].got, NEW d, d = loc'[v].got[i], NEW r, r = InSlots(v)'[i]
          PROVE  Written(d, r)' /\ d.type = InType(Fn(v)') /\ (d.run = run' \/ ~WrittenNow(r)')
      <4>1. Fn(v)' = Fn(v) /\ InSlots(v)' = InSlots(v) /\ Written(d, r)' = Written(d, r) /\ run' = run
        BY Zenon, <1>3, <2>10, AdvanceKeeps
      <4>2. Written(d, r) /\ d.type = InType(Fn(v)) /\ (d.run = run \/ ~WrittenNow(r))
        <5>1. CASE v = t /\ i = n + 1
          <6>1. d = c /\ r = s
            BY Zenon, <2>2, <2>5, <2>8, <3>3, <4>1, <5>1
          <6> QED  BY Zenon, <1>5, <3>1, <3>2, <5>1, <6>1 DEF Byte
        <5>2. CASE ~(v = t /\ i = n + 1)
          <6>1. i \in DOMAIN loc[v].got /\ loc'[v].got[i] = loc[v].got[i]
            BY <2>5, <2>8, <5>2
          <6> QED  BY Zenon, <3>3, <4>1, <6>1 DEF Got
        <5> QED  BY Zenon, <5>1, <5>2
      <4> QED  BY Zenon, <2>13, <4>1, <4>2
    <3> QED  BY <1>3, <2>2, <3>3 DEF Got
  <2> QED  BY Zenon, <2>11, <2>12, <2>13, <2>14
<1> QED  BY Zenon, <1>1, <1>2, <1>4, <1>5 DEF ReadFile

\* Writing z bytes of c over the start of a file that is not cut.
Overwritten(b, old, c, z) ==
    \E new : new = [i \in 1..z |-> c] /\ b = new \o SubSeq(old, Len(new) + 1, Len(old))
Starts(b, old, c, z) ==
    /\ IsSeq(b) /\ b # <<>> /\ Len(b) \in Nat /\ DOMAIN b = 1..Len(b) /\ z <= Len(b) /\ b[1] = c
    /\ \A k \in 1..z : b[k] = c
    /\ \A k \in (z + 1)..Len(b) : k \in DOMAIN old /\ b[k] = old[k]

LEMMA Overwrite ==
    ASSUME NEW c, NEW z \in Nat, z > 0, NEW old, IsSeq(old), NEW b, Overwritten(b, old, c, z)
    PROVE  Starts(b, old, c, z)
<1>1. PICK S : old \in Seq(S)
  BY Zenon DEF IsSeq
<1>0. PICK new : new = [i \in 1..z |-> c] /\ b = new \o SubSeq(old, Len(new) + 1, Len(old))
  BY Zenon DEF Overwritten
<1>2. new \in Seq({c}) /\ Len(new) = z /\ \A k \in 1..z : new[k] = c
  BY <1>0
<1>3. PICK l \in Nat : l = Len(old)
  BY <1>1
<1>4. PICK tail : tail = SubSeq(old, z + 1, l)
  BY Zenon
<1>5. /\ tail \in Seq(S) /\ Len(tail) = (IF z < l THEN l - z ELSE 0) /\ \A k \in 1..Len(tail) : tail[k] = old[z + k]
  BY <1>1, <1>3, <1>4
<1>6. PICK T : new \in Seq(T) /\ tail \in Seq(T)
  <2>1. new \in Seq(S \cup {c}) /\ tail \in Seq(S \cup {c})
    BY <1>2, <1>5
  <2> QED  BY Zenon, <2>1
<1>7. b = new \o tail
  BY Zenon, <1>0, <1>2, <1>3, <1>4
<1>8. b \in Seq(T) /\ Len(b) = z + Len(tail)
  <2>1. b \in Seq(T)
    BY <1>6, <1>7
  <2>2. Len(b) = Len(new) + Len(tail)
    BY <1>6, <1>7
  <2> QED  BY Zenon, <1>2, <2>1, <2>2
<1>9. Len(tail) \in Nat /\ Len(b) \in Nat /\ DOMAIN b = 1..Len(b) /\ z <= Len(b)
  BY <1>5, <1>8
<1>10. \A k \in 1..z : b[k] = c
  BY <1>2, <1>6, <1>7
<1>11. \A k \in (z + 1)..Len(b) : b[k] = tail[k - z]
  BY <1>2, <1>6, <1>7, <1>8, <1>9
<1>12. ASSUME NEW k \in (z + 1)..Len(b) PROVE k \in DOMAIN old /\ b[k] = old[k]
  <2>1. k - z \in 1..Len(tail) /\ z + (k - z) = k /\ k <= l /\ k \in Nat /\ k >= 1
    BY <1>5, <1>8, <1>9
  <2>2. k \in DOMAIN old
    BY <1>1, <1>3, <2>1
  <2> QED  BY Zenon, <1>5, <1>11, <2>1, <2>2
<1>13. IsSeq(b) /\ b # <<>> /\ b[1] = c
  <2>1. 1 \in 1..z /\ Len(b) > 0
    BY <1>9
  <2>2. b # <<>>
    BY <1>8, <2>1
  <2>3. IsSeq(b)
    BY Zenon, <1>8 DEF IsSeq
  <2> QED  BY Zenon, <1>10, <2>1, <2>2, <2>3
<1> QED  BY Zenon, <1>9, <1>10, <1>12, <1>13 DEF Starts

\* DataBuffer's drop by file: the only function that writes the slot writes it
\* once in a run, before anyone who reads it begins.
LEMMA WriteFileIInv ==
    ASSUME IInv, NEW t \in tasks, WriteFile(t), UNCHANGED plan
    PROVE  IInv'
<1> USE DEF IInv
<1>1. PICK i \in Nat : i = loc[t].filled + 1
  BY LocIs
<1>2. PICK s : s = Outs(t)[i].slot
  OBVIOUS
<1>3. PICK c : c = Cell(t, i)
  OBVIOUS
<1>4. PICK z : z = Size(c)
  BY Zenon
<1>5. PICK old : old = IF s \in DOMAIN image THEN image[s] ELSE <<>>
  BY Zenon
<1>6. PICK b : b = Bytes(c) \o SubSeq(old, Len(Bytes(c)) + 1, Len(old))
  BY Zenon
<1>7. /\ plan.fileBased /\ status[t] = "running" /\ Full(t) /\ i <= Len(Outs(t)) /\ z \in 1..MaxFile
      /\ image' = With(image, s, b) /\ loc' = [loc EXCEPT ![t].filled = i]
      /\ UNCHANGED <<tasks, status, input, register, heap, run>>
  <2>1. plan.fileBased /\ Knows(t) /\ i <= Len(Outs(t)) /\ z \in 1..MaxFile /\ UNCHANGED <<staged, input, register, heap, run>>
        /\ loc' = [loc EXCEPT ![t].filled = i]
    BY Zenon, <1>1, <1>3, <1>4 DEF WriteFile
  <2>2. image' = With(image, s, b)
    BY Zenon, <1>1, <1>2, <1>3, <1>5, <1>6 DEF WriteFile
  <2> QED  BY Zenon, <2>1, <2>2 DEF Knows, Running, Full, staged
<1>8. z \in Nat /\ z > 0
  BY <1>7, DataBufferAssumption
<1>9. PICK m \in Nat, ins \in Nat : m = loc[t].made /\ ins = loc[t].inserted
  BY LocIs
<1>10. Step(t) /\ m = 0 /\ ins = 0 /\ WellWritten(Fn(t), Outs(t)) /\ Len(Outs(t)) \in Nat
  BY Zenon, <1>7, <1>9, OutsWell DEF Steps, Step, WellWritten
<1>11. Counts(t, m, ins, i)
  <2>1. loc' = [loc EXCEPT ![t] = [loc[t] EXCEPT !.filled = i]]
    BY Zenon, <1>7 DEF Types
  <2>2. Becomes(t, loc[t].taken, loc[t].got, m, ins, i)
    BY Zenon, <1>9, <2>1, LocRecord DEF Becomes
  <2> QED  BY <1>1, <1>7, <1>9, <2>2, LocIs DEF Counts
<1>12. /\ Advance(t) /\ Types' /\ (\A u \in tasks : loc'[u].got = loc[u].got /\ Outs(u)' = Outs(u))
       /\ (\A u \in tasks \ {t} : loc'[u] = loc[u]) /\ loc'[t].filled = i
  BY <1>11, CountsIs
<1>13. Steps'
  <2>1. /\ m > 0 => Full(t) /\ m <= Len(Outs(t))
        /\ i > 0 => Full(t) /\ i <= Len(Outs(t))
        /\ plan.fileBased => m = 0 /\ ins = 0
        /\ ~plan.fileBased => i <= ins /\ ins <= m
    BY <1>7, <1>10
  <2> QED  BY <1>11, <2>1, CountsIs
<1>14. Ref' /\ (\A r : Read(r)' = Read(r)) /\ (\A d : Current(d)' = Current(d)) /\ \A d, r : Byte(d, r) => Byte(d, r)'
  BY Zenon, <1>7, <1>12, FileKept
<1>15. i \in 1..Len(Outs(t)) /\ Writes(Fn(t), s)
  BY <1>1, <1>2, <1>7, <1>10, LocIs DEF WellWritten
<1>16. IsSeq(old) /\ \A k \in DOMAIN old : s \in DOMAIN image /\ Byte(old[k], s)
  BY <1>5, <1>7 DEF Image, IsSeq
<1>17. /\ IsSeq(b) /\ b # <<>> /\ Len(b) \in Nat /\ DOMAIN b = 1..Len(b) /\ z <= Len(b) /\ b[1] = c
       /\ \A k \in 1..z : b[k] = c
       /\ \A k \in (z + 1)..Len(b) : k \in DOMAIN old /\ b[k] = old[k]
  <2>1. Bytes(c) = [k \in 1..z |-> c]
    BY Zenon, <1>4 DEF Bytes
  <2>2. Overwritten(b, old, c, z)
    BY Zenon, <1>6, <2>1 DEF Overwritten
  <2>3. IsSeq(old)
    BY Zenon, <1>16
  <2>4. Starts(b, old, c, z)
    BY Zenon, <1>8, <2>2, <2>3, Overwrite
  <2> QED  BY Zenon, <2>4 DEF Starts
<1>18. DOMAIN image' = DOMAIN image \cup {s} /\ image'[s] = b /\ \A r \in DOMAIN image : r # s => image'[r] = image[r]
  BY Zenon, <1>7 DEF With
<1>19. /\ c # Uninit /\ c.slot = s /\ c.by = t /\ c.run = run
       /\ Written(c, s)
  <2>1. c # Uninit /\ c.slot = s /\ c.type = Outs(t)[i].type /\ c.val = Outs(t)[i].val /\ c.by = t /\ c.run = run
    BY <1>2, <1>3, CellIs
  <2>2. c.type = "Vec<u32>" /\ s[1] = "pivots" => IsSeq(c.val)
    BY Zenon, <1>2, <1>10, <1>15, <2>1 DEF WellWritten
  <2> QED  BY Zenon, <1>15, <2>1, <2>2 DEF Written
<1>20. Byte(c, s)'
  <2>1. Written(c, s)'
    BY Zenon, <1>12, <1>19, AdvanceKeeps
  <2>2. i \in 1..loc'[t].filled /\ Outs(t)'[i].slot = s
    <3>1. i \in 1..i
      BY <1>1, LocIs
    <3> QED  BY Zenon, <1>2, <1>12, <3>1
  <2> QED  BY <1>7, <1>19, <2>1, <2>2 DEF Byte, Types
<1>21. Image'
  <2>1. ASSUME NEW k \in DOMAIN b, NEW d, d = b[k] PROVE Byte(d, s)'
    <3>1. CASE k \in 1..z
      BY Zenon, <1>17, <1>20, <2>1, <3>1
    <3>2. CASE k \notin 1..z
      <4>1. k \in (z + 1)..Len(b)
        BY <1>8, <1>17, <3>2
      <4>2. Byte(d, s)
        BY Zenon, <1>16, <1>17, <2>1, <4>1
      <4> QED  BY Zenon, <1>14, <4>2
    <3> QED  BY Zenon, <3>1, <3>2
  <2>2. ASSUME NEW r \in DOMAIN image', NEW k \in DOMAIN image'[r], NEW d, d = image'[r][k]
        PROVE  Byte(d, r)'
    <3>1. CASE r = s
      BY Zenon, <1>18, <2>1, <2>2, <3>1
    <3>2. CASE r # s
      <4>1. Byte(d, r)
        BY Zenon, <1>7, <1>18, <2>2, <3>2 DEF Image
      <4> QED  BY Zenon, <1>14, <4>1
    <3> QED  BY Zenon, <3>1, <3>2
  <2>3. ASSUME NEW r \in DOMAIN image' PROVE IsSeq(image'[r]) /\ image'[r] # <<>>
    BY Zenon, <1>7, <1>17, <1>18 DEF Image
  <2> QED  BY Zenon, <2>2, <2>3 DEF Image
<1>22. Now'
  <2>1. ASSUME Read(s) PROVE Current(b)
    <3>1. PICK v \in tasks : s \in Range(InSlots(v))
      BY Zenon, <2>1 DEF Read
    <3>2. PICK n \in DOMAIN InSlots(v) : s = InSlots(v)[n]
      BY Zenon, <3>1 DEF Range
    <3>3. \A u \in tasks : Writes(Fn(u), s) => u = t
      BY Zenon, <1>7, <1>15, <3>2, WritersOf
    <3>4. ASSUME NEW k \in (z + 1)..Len(b) PROVE b[k].run < run
      <4>1. PICK d : d = b[k]
        BY Zenon
      <4>2. Byte(d, s) /\ d.by \in tasks /\ Writes(Fn(d.by), s)
        <5>1. k \in DOMAIN old /\ d = old[k]
          BY Zenon, <1>17, <4>1
        <5>2. Byte(d, s)
          BY Zenon, <1>16, <5>1
        <5> QED  BY Zenon, <5>2 DEF Byte, Written
      <4>3. d.by = t
        BY Zenon, <3>3, <4>2
      <4>4. ASSUME d.run = run PROVE FALSE
        <5>1. PICK j \in 1..loc[t].filled : Outs(t)[j].slot = s
          BY Zenon, <4>2, <4>3, <4>4 DEF Byte
        <5>2. j \in 1..Len(Outs(t)) /\ j # i
          BY <1>1, <1>7, <1>10, LocIs
        <5> QED  BY Zenon, <1>2, <1>10, <1>15, <5>1, <5>2 DEF WellWritten
      <4>5. d.run \in Nat /\ d.run <= run /\ d.run # run /\ run \in Nat
        BY Zenon, <4>2, <4>4 DEF Byte, Types
      <4> QED  BY <4>1, <4>5
    <3> QED  BY Zenon, <1>4, <1>8, <1>17, <3>4 DEF Current
  <2>2. ASSUME NEW u \in tasks, NEW j \in 1..loc'[u].filled, NEW r, r = Outs(u)'[j].slot
        PROVE  r \in DOMAIN image' /\ image'[r][1].run = run /\ (Read(r) => Current(image'[r]))
    <3>1. CASE r = s
      BY Zenon, <1>17, <1>18, <1>19, <2>1, <3>1
    <3>2. CASE r # s
      <4>1. r = Outs(u)[j].slot /\ ~(u = t /\ j = i)
        BY Zenon, <1>2, <1>12, <2>2, <3>2
      <4>2. j \in 1..loc[u].filled
        BY <1>1, <1>12, <4>1, LocIs
      <4>3. r \in DOMAIN image /\ image[r][1].run = run /\ (Read(r) => Current(image[r]))
        BY Zenon, <1>7, <4>1, <4>2 DEF Now
      <4> QED  BY Zenon, <1>18, <3>2, <4>3
    <3> QED  BY Zenon, <3>1, <3>2
  <2>3. ASSUME NEW r, NEW d, d = image'[r], Read(r) => Current(d) PROVE Read(r)' => Current(d)'
    BY Zenon, <1>14, <2>3
  <2>4. ASSUME NEW u \in tasks, NEW j \in 1..loc'[u].filled, NEW r, r = Outs(u)'[j].slot, NEW d, d = image'[r]
        PROVE  r \in DOMAIN image' /\ d[1].run = run' /\ (Read(r)' => Current(d)')
    BY <1>7, <2>2, <2>3, <2>4
  <2> QED  BY <1>7, <2>4 DEF Now
<1>23. Got'
  <2>1. ASSUME NEW v \in tasks, NEW k \in DOMAIN loc[v].got, NEW r, r = InSlots(v)[k], ~WrittenNow(r), WrittenNow(r)'
        PROVE  FALSE
    <3>1. PICK u \in tasks : \E j \in 1..loc'[u].filled : Outs(u)'[j].slot = r
      BY Zenon, <1>7, <2>1 DEF WrittenNow
    <3>2. PICK j \in 1..loc'[u].filled : Outs(u)[j].slot = r
      BY Zenon, <1>12, <3>1
    <3>3. u = t /\ j = i
      <4>1. j \notin 1..loc[u].filled
        BY Zenon, <2>1, <3>2 DEF WrittenNow
      <4>2. u = t
        BY Zenon, <1>12, <4>1
      <4>3. loc[t].filled \in Nat /\ j \in 1..i /\ j \notin 1..loc[t].filled
        BY Zenon, <1>12, <4>1, <4>2, LocIs
      <4> QED  BY <1>1, <4>2, <4>3
    <3>4. k \in DOMAIN InSlots(v)
      BY Zenon, InGot
    <3>5. t[1] < v[1]
      BY Zenon, <1>2, <1>15, <2>1, <3>2, <3>3, <3>4, WritersOf
    <3>6. status[v] # "idle"
      <4>1. status[v] = "idle" => loc[v] = Fresh
        BY Zenon DEF Steps, Step
      <4>2. DOMAIN Fresh.got = {}
        BY DEF Fresh
      <4> QED  BY Zenon, <4>1, <4>2
    <3> QED  BY Zenon, <1>7, <3>5, <3>6 DEF Steps, Step
  <2>2. ASSUME NEW v \in tasks, NEW k \in DOMAIN loc'[v].got, NEW d, d = loc'[v].got[k], NEW r, r = InSlots(v)'[k]
        PROVE  Written(d, r)' /\ d.type = InType(Fn(v)') /\ (d.run = run' \/ ~WrittenNow(r)')
    <3>1. Fn(v)' = Fn(v) /\ InSlots(v)' = InSlots(v) /\ Written(d, r)' = Written(d, r) /\ loc'[v].got = loc[v].got
      BY Zenon, <1>12, AdvanceKeeps
    <3>2. Written(d, r) /\ d.type = InType(Fn(v)) /\ (d.run = run \/ ~WrittenNow(r))
      BY Zenon, <2>2, <3>1 DEF Got
    <3> QED  BY Zenon, <1>7, <2>1, <2>2, <3>1, <3>2
  <2> QED  BY <1>7, <2>2 DEF Got
<1> QED  BY Zenon, <1>12, <1>13, <1>14, <1>21, <1>22, <1>23

-----------------------------------------------------------------------------
(* The theorems                                                             *)

LEMMA Inductive == IInv /\ [Next]_vars => IInv'
<1> SUFFICES ASSUME IInv, [Next]_vars PROVE IInv'
  BY Zenon
<1>1. CASE Next
  <2>1. UNCHANGED plan
    BY Zenon, <1>1 DEF Next
  <2>2. CASE \E t \in tasks :
               \/ Begin(t) \/ Access(t) \/ ReadIn(t) \/ Alloc(t) \/ Insert(t) \/ Fill(t)
               \/ ReadFile(t) \/ WriteFile(t) \/ NoInput(t) \/ End(t)
    <3>1. PICK t \in tasks :
            \/ Begin(t) \/ Access(t) \/ ReadIn(t) \/ Alloc(t) \/ Insert(t) \/ Fill(t)
            \/ ReadFile(t) \/ WriteFile(t) \/ NoInput(t) \/ End(t)
      BY Zenon, <2>2
    <3>2. CASE Begin(t)      BY Zenon, <2>1, <3>2, BeginIInv
    <3>3. CASE Access(t)     BY <2>1, <3>3, AccessIInv
    <3>4. CASE ReadIn(t)     BY <2>1, <3>4, ReadInIInv
    <3>5. CASE Alloc(t)      BY <2>1, <3>5, AllocIInv
    <3>6. CASE Insert(t)     BY <2>1, <3>6, InsertIInv
    <3>7. CASE Fill(t)       BY <2>1, <3>7, FillIInv
    <3>8. CASE ReadFile(t)   BY <2>1, <3>8, ReadFileIInv
    <3>9. CASE WriteFile(t)  BY <2>1, <3>9, WriteFileIInv
    <3>10. CASE NoInput(t)   BY <2>1, <3>10, NoInputIInv
    <3>11. CASE End(t)       BY <2>1, <3>11, EndIInv
    <3> QED  BY Zenon, <3>1, <3>2, <3>3, <3>4, <3>5, <3>6, <3>7, <3>8, <3>9, <3>10, <3>11
  <2>3. ASSUME NEW o \in {"ok", "err", "panicked"}, Return(o) PROVE IInv'
    <3>1. UNCHANGED <<tasks, status, plan, input, register, heap, image, loc, run>>
      BY Zenon, <2>1, <2>3 DEF Return, Scheduler!Return
    <3> QED  BY Zenon, <3>1, SameIInv
  <2>4. CASE Again
    BY Zenon, <2>1, <2>4, AgainIInv
  <2> QED  BY Zenon, <1>1, <2>2, <2>3, <2>4 DEF Next
<1>2. CASE UNCHANGED vars
  BY Zenon, <1>2, SameIInv DEF vars, staged
<1> QED  BY Zenon, <1>1, <1>2

LEMMA Invariance == Spec => []IInv
BY InitIInv, Inductive, PTL DEF Spec

\* A buffer has one owner, whatever functions of a stage ask for its slot, in
\* whatever order: access_buffer removes the entry it hands out, and an address
\* is entered once (mm faas_buffer 25-50).
THEOREM BufferOwned == Spec => []OneOwner
<1>1. ASSUME IInv PROVE OneOwner
  <2> SUFFICES ASSUME ~plan.fileBased, NEW t \in tasks, NEW u \in tasks, t # u,
                      NEW a \in Range(loc[t].taken), a \in Range(loc[u].taken)
               PROVE  FALSE
    BY Zenon DEF OneOwner
  <2>1. PICK i \in DOMAIN loc[t].taken : a = loc[t].taken[i]
    BY Zenon DEF Range
  <2>2. PICK k \in DOMAIN loc[u].taken : a = loc[u].taken[k]
    BY Zenon DEF Range
  <2> QED  BY Zenon, <1>1, <2>1, <2>2 DEF IInv, Ref, Apart
<1> QED  BY <1>1, Invariance, PTL

\* What a function reads is what a function of an earlier stage wrote to that
\* slot in this run, never a buffer that is entered and not filled: with_slot
\* enters a buffer before there is a value in it, and it is the order of the
\* stages alone that keeps a reader away (agent.rs:60-98, mm faas_buffer 25-50).
THEOREM HandedOver == Spec => []Handover
<1>1. ASSUME IInv PROVE Handover
  <2> SUFFICES ASSUME NEW t \in tasks, NEW i \in DOMAIN loc[t].got, NEW c, c = loc[t].got[i], NEW s, s = InSlots(t)[i]
               PROVE  /\ c # Uninit /\ c.slot = s /\ c.by[1] < t[1]
                      /\ c.run = run \/ (plan.fileBased /\ ~WrittenNow(s))
                      /\ plan.fileBased \/ c.type = InType(Fn(t))
    BY DEF Handover
  <2>1. /\ Written(c, s) /\ c.type = InType(Fn(t))
        /\ c.run = run \/ (plan.fileBased /\ ~WrittenNow(s))
    BY Zenon, <1>1 DEF IInv, Got
  <2>2. i \in DOMAIN InSlots(t)
    BY Zenon, <1>1, InGot DEF IInv
  <2>3. c.by \in tasks /\ Writes(Fn(c.by), s) /\ c # Uninit /\ c.slot = s
    BY Zenon, <2>1 DEF Written
  <2>4. c.by[1] < t[1]
    BY Zenon, <1>1, <2>2, <2>3, WritersOf DEF IInv
  <2> QED  BY Zenon, <2>1, <2>3, <2>4
<1> QED  BY <1>1, Invariance, PTL

\* The file a function is about to read begins with the whole of a value that was
\* written in this run, and what is behind it is of earlier runs, though nothing
\* cuts a file that is written again (agent.rs:232, 292-295).
THEOREM FileBegins == Spec => []ImageCurrent
<1>1. ASSUME IInv PROVE ImageCurrent
  <2> SUFFICES ASSUME NEW t \in tasks, plan.fileBased, Asks(t), WrittenNow(NextIn(t))
               PROVE  Begins(image[NextIn(t)], image[NextIn(t)][1])
    BY Zenon DEF ImageCurrent
  <2> SUFFICES ASSUME NEW s, s = NextIn(t), WrittenNow(s), NEW b, b = image[s], NEW v, v = b[1]
               PROVE  Begins(b, v)
    BY Zenon
  <2>1. PICK u \in tasks : \E j \in 1..loc[u].filled : Outs(u)[j].slot = s
    BY Zenon DEF WrittenNow
  <2>2. Len(loc[t].got) + 1 \in DOMAIN InSlots(t)
    <3>1. PICK n \in Nat, m \in Nat : n = Len(loc[t].got) /\ m = Len(InSlots(t)) /\ DOMAIN InSlots(t) = 1..m
      BY Zenon, <1>1, LocIs, PlanIs DEF IInv
    <3>2. n < m
      BY Zenon, <3>1 DEF Asks
    <3> QED  BY <3>1, <3>2
  <2>3. Read(s)
    BY Zenon, <2>2 DEF Read, Range, NextIn
  <2>4. v.run = run /\ Current(b)
    BY Zenon, <1>1, <2>1, <2>3 DEF IInv, Now
  <2> QED  BY Zenon, <2>4 DEF Current, Begins
<1> QED  BY <1>1, Invariance, PTL
==============================================================================
