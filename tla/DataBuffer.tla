----------------------------- MODULE DataBuffer -----------------------------
(***************************************************************************)
(* Intermediate data between the functions of a workflow: as_std's          *)
(* DataBuffer over the mm service's slot register (by reference), or, with  *)
(* the file-based feature, over files of the image.                         *)
(*                                                                          *)
(* The functions are those of module UserFunctions and run under the        *)
(* scheduler StagedRun, which module Workflow implements: stage after       *)
(* stage, in parallel within one.  A function takes its input slots, then   *)
(* makes and fills its output slots.  The register and the heap are the     *)
(* isolation's; the image outlives it.                                      *)
(***************************************************************************)
EXTENDS UserFunctions

CONSTANTS Plans,      \* the workflows: functions by task, numbers of them, inputs,
                       \* buffers the heap has room for, feature
          MaxRuns,      \* bound: runs of the workflow on one image
          MaxFile       \* bound: bytes of a value in a file

ASSUME DataBufferAssumption ==
    /\ {MaxRuns, MaxFile} \subseteq Nat
    /\ \A p \in Plans :
          /\ {p.blocks, p.mappers, p.reducers, p.sorters, p.mergers} \subseteq Nat
          /\ \A t \in DOMAIN p.fn : t[1] \in Nat /\ p.fn[t].name \in Names

\* What isol_config's workflows keep to: a slot is read by a later stage than
\* the one that writes it, and with files it is one function that writes it.
ASSUME StagedAssumption ==
    \A p \in Plans : \A t \in DOMAIN p.fn : \A slot \in Range(Inputs(p.fn[t], p)) :
        LET writers == {u \in DOMAIN p.fn : Writes(p.fn[u], slot)}
        IN /\ \A u \in writers : u[1] < t[1]
           /\ p.fileBased => \A u, v \in writers : u = v

\* The word count's: mappers that read the file of their number, one reducer for
\* each number, and files that hold words.
ASSUME CountAssumption ==
    \A p \in Plans : p.app = "wordcount" =>
        LET reducers == {t \in DOMAIN p.fn : p.fn[t].name = "reducer"}
        IN /\ p.reducers > 0
           /\ \A t \in DOMAIN p.fn \ reducers : p.fn[t].name = "mapper" /\ p.fn[t].file = p.fn[t].id
           /\ {p.fn[t].id : t \in reducers} = 0..(p.reducers - 1)
           /\ \A t, u \in reducers : p.fn[t].id = p.fn[u].id => t = u
           /\ \A in \in p.inputs : \A t \in DOMAIN p.fn \ reducers :
                 LET file == in[p.fn[t].file]
                 IN file.exists => file.text \in Seq(Seq(Nat \cup {Symbol}))

VARIABLES tasks, status, outcome,       \* of StagedRun
          plan,       \* the workflow
          input,      \* the files it reads
          register,   \* BUFFER_REGISTER: partial, slot -> address and fingerprint
          heap,       \* partial, address -> buffer; the n-th buffer of a task is at <<task, n>>
          image,      \* partial, slot -> the bytes of its file, each by the value it is of
          loc,        \* [tasks -> the buffers a function took, what it read, made and filled]
          run         \* number of the run

staged == <<tasks, status, outcome>>
vars == <<staged, plan, input, register, heap, image, loc, run>>

Scheduler == INSTANCE StagedRun WITH Plans <- {DOMAIN p.fn : p \in Plans}

Uninit == [slot |-> "none"]
Fresh == [taken |-> <<>>, got |-> <<>>, made |-> 0, inserted |-> 0, filled |-> 0]

Init ==
    /\ plan \in Plans
    /\ tasks = DOMAIN plan.fn
    /\ Scheduler!Init
    /\ input \in plan.inputs
    /\ register = <<>> /\ heap = <<>> /\ image = <<>>
    /\ loc = [t \in tasks |-> Fresh]
    /\ run = 1

-----------------------------------------------------------------------------
(* Where a function is *)

Without(f, x) == [y \in DOMAIN f \ {x} |-> f[y]]
With(f, x, v) == [y \in DOMAIN f \cup {x} |-> IF y = x THEN v ELSE f[y]]

Fn(t) == plan.fn[t]
FileOf(t) == IF "file" \in DOMAIN Fn(t) THEN input[Fn(t).file] ELSE [exists |-> FALSE]
Running(t) == t \in tasks /\ status[t] = "running"
InSlots(t) == Inputs(Fn(t), plan)

\* It is about to ask for its next input.
Asks(t) == Running(t) /\ Len(loc[t].taken) = Len(loc[t].got) /\ Len(loc[t].got) < Len(InSlots(t))
NextIn(t) == InSlots(t)[Len(loc[t].got) + 1]

\* It has read its inputs: what it writes and how it ends follow.
Knows(t) == Running(t) /\ Len(loc[t].got) = Len(InSlots(t))
Ins(t) == [i \in DOMAIN loc[t].got |-> loc[t].got[i].val]
Outs(t) == Outputs(Fn(t), plan, FileOf(t), Ins(t))
Cell(t, i) ==
    [slot |-> Outs(t)[i].slot, type |-> Outs(t)[i].type, val |-> Outs(t)[i].val, by |-> t, run |-> run]

Fail(t) == Scheduler!End(t, rust_main("panic")) /\ UNCHANGED loc

Begin(t) ==
    /\ Scheduler!Begin(t)
    /\ UNCHANGED <<input, register, heap, image, loc, run>>

-----------------------------------------------------------------------------
(* By reference *)

\* Mutant: access_buffer gets the entry and leaves it.
AccessKeep(t) ==
    /\ ~plan.fileBased /\ Asks(t) /\ NextIn(t) \in DOMAIN register
    /\ LET e == register[NextIn(t)]
       IN IF e.type # InType(Fn(t)) THEN Fail(t)
          ELSE loc' = [loc EXCEPT ![t].taken = Append(@, e.addr)] /\ UNCHANGED staged
    /\ UNCHANGED <<input, register, heap, image, run>>

\* from_buffer_slot: access_buffer removes the entry; then the fingerprint is
\* compared, and the function panics on a wrong one.
Access(t) ==
    /\ ~plan.fileBased /\ Asks(t) /\ NextIn(t) \in DOMAIN register
    /\ LET e == register[NextIn(t)]
       IN /\ register' = Without(register, NextIn(t))
          /\ IF e.type # InType(Fn(t)) THEN Fail(t)
             ELSE loc' = [loc EXCEPT ![t].taken = Append(@, e.addr)] /\ UNCHANGED staged
    /\ UNCHANGED <<input, heap, image, run>>

\* The function reads through its DataBuffer.
ReadIn(t) ==
    /\ Running(t) /\ Len(loc[t].got) < Len(loc[t].taken)
    /\ loc' = [loc EXCEPT ![t].got = Append(@, heap[loc[t].taken[Len(loc[t].got) + 1]])]
    /\ UNCHANGED <<staged, input, register, heap, image, run>>

\* with_slot, buffer_alloc: a block is allocated, or "alloc mem failed" ...
Alloc(t) ==
    LET l == loc[t]
    IN /\ ~plan.fileBased /\ Knows(t)
       /\ l.made < Len(Outs(t)) /\ l.inserted = l.made
       /\ l.filled = l.inserted \/ Batch(Fn(t))
       /\ IF Cardinality(DOMAIN heap) = plan.blocks THEN Fail(t) /\ UNCHANGED heap
          ELSE /\ heap' = With(heap, <<t, l.made + 1>>, Uninit)
               /\ loc' = [loc EXCEPT ![t].made = @ + 1]
               /\ UNCHANGED staged
       /\ UNCHANGED <<input, register, image, run>>

\* ... and entered in the register before anything is in it.
Insert(t) ==
    LET i == loc[t].inserted + 1
    IN /\ Running(t) /\ i <= loc[t].made
       /\ register' = With(register, Outs(t)[i].slot, [addr |-> <<t, i>>, type |-> Outs(t)[i].type])
       /\ loc' = [loc EXCEPT ![t].inserted = i]
       /\ UNCHANGED <<staged, input, heap, image, run>>

\* Mutant: every value goes to the first buffer.
FillFirst(t) ==
    LET i == loc[t].filled + 1
    IN /\ ~plan.fileBased /\ Running(t) /\ i <= loc[t].inserted
       /\ Batch(Fn(t)) => loc[t].inserted = Len(Outs(t))
       /\ heap' = [heap EXCEPT ![<<t, 1>>] = Cell(t, i)]
       /\ loc' = [loc EXCEPT ![t].filled = i]
       /\ UNCHANGED <<staged, input, register, image, run>>

\* The function assigns through its DataBuffer.
Fill(t) ==
    LET i == loc[t].filled + 1
    IN /\ ~plan.fileBased /\ Running(t) /\ i <= loc[t].inserted
       /\ Batch(Fn(t)) => loc[t].inserted = Len(Outs(t))
       /\ heap' = [heap EXCEPT ![<<t, i>>] = Cell(t, i)]
       /\ loc' = [loc EXCEPT ![t].filled = i]
       /\ UNCHANGED <<staged, input, register, image, run>>

-----------------------------------------------------------------------------
(* By file *)

\* How long a value is when serialised.
Size(c) == 1 + (IF c.type = "Stringi32" THEN 0 ELSE Cardinality(DOMAIN c.val))
Bytes(c) == [i \in 1..Size(c) |-> c]

\* The bytes of a file hold one value and nothing else.
Deserializes(bytes) == bytes = Bytes(bytes[1])

\* from_buffer_slot: open, read_to_end, from_slice.  There is no fingerprint,
\* but a value of another type lacks the fields and does not deserialise.
ReadFile(t) ==
    /\ plan.fileBased /\ Asks(t) /\ NextIn(t) \in DOMAIN image
    /\ LET bytes == image[NextIn(t)]
       IN \/ /\ Deserializes(bytes) /\ bytes[1].type = InType(Fn(t))
             /\ loc' = [loc EXCEPT ![t].taken = Append(@, 0), ![t].got = Append(@, bytes[1])]
             /\ UNCHANGED staged
          \/ /\ ~Deserializes(bytes) \/ bytes[1].type # InType(Fn(t))
             /\ Fail(t)
    /\ UNCHANGED <<input, register, heap, image, run>>

\* Mutant: a file that is there is left alone.
WriteFileOnce(t) ==
    LET i == loc[t].filled + 1
        slot == Outs(t)[i].slot
    IN /\ plan.fileBased /\ Knows(t) /\ i <= Len(Outs(t))
       /\ image' = IF slot \in DOMAIN image THEN image ELSE With(image, slot, Bytes(Cell(t, i)))
       /\ loc' = [loc EXCEPT ![t].filled = i]
       /\ UNCHANGED <<staged, input, register, heap, run>>

\* Drop, also of a function that fails: File::create opens the file, which is
\* not cut if it is there, and the value is written from its start.
WriteFile(t) ==
    LET i == loc[t].filled + 1
        slot == Outs(t)[i].slot
        old == IF slot \in DOMAIN image THEN image[slot] ELSE <<>>
        new == Bytes(Cell(t, i))
    IN /\ plan.fileBased /\ Knows(t) /\ i <= Len(Outs(t)) /\ Size(Cell(t, i)) \in 1..MaxFile
       /\ image' = With(image, slot, new \o SubSeq(old, Len(new) + 1, Len(old)))
       /\ loc' = [loc EXCEPT ![t].filled = i]
       /\ UNCHANGED <<staged, input, register, heap, run>>

-----------------------------------------------------------------------------
\* Nothing is in the slot: from_buffer_slot returns None.
NoInput(t) ==
    /\ Asks(t)
    /\ NextIn(t) \notin DOMAIN (IF plan.fileBased THEN image ELSE register)
    /\ Scheduler!End(t, OnNone(Fn(t)))
    /\ UNCHANGED <<input, register, heap, image, loc, run>>

\* The function is over; the drop of a by-reference DataBuffer frees nothing,
\* since "used" is never set.
End(t) ==
    /\ Knows(t) /\ loc[t].filled = Len(Outs(t))
    /\ Scheduler!End(t, rust_main(Ends(Fn(t), plan, FileOf(t), Ins(t))))
    /\ UNCHANGED <<input, register, heap, image, loc, run>>

Return(o) ==
    /\ Scheduler!Return(o)
    /\ UNCHANGED <<input, register, heap, image, loc, run>>

\* The workflow runs again, in a new isolation on the same image, whose input
\* files may have changed.
Again ==
    /\ outcome # "none" /\ plan.fileBased /\ run < MaxRuns
    /\ run' = run + 1
    /\ outcome' = "none"
    /\ status' = [t \in tasks |-> "idle"]
    /\ register' = <<>> /\ heap' = <<>>
    /\ loc' = [t \in tasks |-> Fresh]
    /\ input' \in plan.inputs
    /\ UNCHANGED <<tasks, image>>

Next ==
    /\ \/ \E t \in tasks :
             \/ Begin(t) \/ Access(t) \/ ReadIn(t) \/ Alloc(t) \/ Insert(t) \/ Fill(t)
             \/ ReadFile(t) \/ WriteFile(t) \/ NoInput(t) \/ End(t)
       \/ \E o \in {"ok", "err", "panicked"} : Return(o)
       \/ Again
    /\ UNCHANGED plan

Spec == Init /\ [][Next]_vars

-----------------------------------------------------------------------------
(* Properties *)

\* Some function of this run wrote the slot.
WrittenNow(slot) == \E u \in tasks : \E i \in 1..loc[u].filled : Outs(u)[i].slot = slot

\* What a function reads is what a function of an earlier stage wrote to its
\* slot in this run: never a buffer that is registered and not yet filled, and
\* never a value of an earlier run, unless, by file, no function of this run
\* wrote that slot, as a splitter that runs out of numbers does not (agent.rs:60-86,
\* mm faas_buffer 25-50).  By reference it was written as the type it is read as
\* (agent.rs:96).
Handover ==
    \A t \in tasks : \A i \in DOMAIN loc[t].got :
        LET c == loc[t].got[i]
            slot == InSlots(t)[i]
        IN /\ c # Uninit /\ c.slot = slot /\ c.by[1] < t[1]
           /\ c.run = run \/ (plan.fileBased /\ ~WrittenNow(slot))
           /\ plan.fileBased \/ c.type = InType(Fn(t))

\* A buffer has one owner: no two functions that run in parallel took the same
\* one, though several may ask for a slot (mm faas_buffer 43-50).
OneOwner ==
    ~plan.fileBased => \A t, u \in tasks : t # u => Range(loc[t].taken) \cap Range(loc[u].taken) = {}

\* A file's bytes begin with the whole of a value of this run, v, and those
\* behind it are of earlier ones.
Begins(bytes, v) ==
    /\ v.run = run /\ Size(v) <= Len(bytes)
    /\ \A i \in 1..Size(v) : bytes[i] = v
    /\ \A i \in (Size(v) + 1)..Len(bytes) : bytes[i].run < run

\* The file a function is about to read begins with the whole of a value that
\* was written in this run, and anything behind it is of earlier runs: only a
\* longer value left on the image, which File::create does not cut, can make the
\* reader's expect("deserialize ... failed") fail (agent.rs:232, 292-295).
ImageCurrent ==
    \A t \in tasks :
        plan.fileBased /\ Asks(t) /\ WrittenNow(NextIn(t)) =>
            Begins(image[NextIn(t)], image[NextIn(t)][1])

\* The tasks that run a function, and the numbers of an input file.
Of(name) == {t \in tasks : Fn(t).name = name}
Numbers(i) == Pushed(input[i].text)

\* The inputs parallel sort is made for: files that are there and parse, numbers
\* in the first one, if there are pivots to take, and in each one that is not
\* below all the pivots but the last.
Sortable ==
    /\ \A i \in DOMAIN input : input[i].exists /\ ParsesAll(input[i].text)
    /\ plan.mergers > 1 => Numbers(0) # <<>>
    /\ plan.mergers > 2 =>
          \A i \in DOMAIN input : \E k \in DOMAIN Numbers(i) :
              Numbers(i)[k] >= Pivots(Sorted(Numbers(0)), plan.mergers)[plan.mergers - 2]

\* Parallel sort: a run that ends well has sorted all the numbers of all the
\* files, save u32::MAX, which merge_partitions never takes (merger lib.rs:65-72);
\* it ends well only for the inputs above, and no function fails on those.
\* It is so by file too, on an image without files of an earlier run.
SortOutcome ==
    plan.app = "sort" /\ run = 1 =>
        /\ outcome = "ok" =>
              /\ Sortable
              /\ \A t \in Of("checker") :
                    Joined(Ins(t)) =
                        SelectSeq(Sorted(Joined([i \in 1..Cardinality(DOMAIN input) |-> Numbers(i - 1)])),
                                  LAMBDA x : x < MaxU32)
        /\ Sortable => \A t \in tasks : status[t] # "err"

\* Every word of a count is counted by one of the reducers, and nothing else is.
CountedBy(reducers, all) ==
    /\ \A t \in reducers : DOMAIN Reduce(Ins(t)) \subseteq DOMAIN all
    /\ \A w \in DOMAIN all : \E t \in reducers :
          /\ w \in DOMAIN Reduce(Ins(t)) /\ Reduce(Ins(t))[w] = all[w]
          /\ \A u \in reducers \ {t} : w \notin DOMAIN Reduce(Ins(u))

\* Word count: every word of every text is counted by one reducer, with the
\* number of times it occurs in all of them, and nothing else is, on an image with
\* files of an earlier run too (mapper lib.rs:93-141, reducer lib.rs:50-65).
WordCount ==
    plan.app = "wordcount" /\ outcome = "ok" =>
        CountedBy(Of("reducer"), Counter(Joined([i \in 1..plan.mappers |-> input[i - 1].text])))
==============================================================================
