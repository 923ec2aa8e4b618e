------------------------------ MODULE IsolTable ------------------------------
(***************************************************************************)
(* The visor's table of isolations (libasvisor/src/isolation/mod.rs): a     *)
(* Vec of weak references behind one mutex, indexed by isolation id - 1.    *)
(* Ids come from a counter of their own.  The drivers (Cli, Daemon) say     *)
(* which threads call these operations.                                     *)
(*                                                                          *)
(* An isolation's value is dropped in two steps: its strong count reaches   *)
(* zero, after which no weak reference can be upgraded, and then Drop locks *)
(* the table and removes an entry.                                          *)
(***************************************************************************)
EXTENDS Naturals, Sequences

CONSTANT Isols        \* the isolations that may be built

VARIABLES idKeeper,   \* ID_KEEPER: the next id
          table,        \* ISOL_TABLE: Seq(Isols), the targets of the weak references
          poisoned,     \* a thread panicked while it held ISOL_TABLE
          id,           \* [Isols -> Nat], 0 before gen_new_id
          strong        \* [Isols -> Nat], the Arc's strong count

tableVars == <<idKeeper, table, poisoned, id, strong>>

TableInit ==
    /\ idKeeper = 1
    /\ table = <<>>
    /\ poisoned = FALSE
    /\ id = [o \in Isols |-> 0]
    /\ strong = [o \in Isols |-> 0]

\* gen_new_id, at the start of Isolation::new.
GenNewId(o) ==
    /\ id' = [id EXCEPT ![o] = idKeeper]
    /\ idKeeper' = idKeeper + 1

\* The end of Isolation::new: the Arc exists and its weak reference is pushed.
Push(o) ==
    /\ strong' = [strong EXCEPT ![o] = 1]
    /\ table' = Append(table, o)

\* Mutant: the reference is upgraded without looking at the strong count.
ResolvesUnchecked(h) == ~poisoned /\ h \in 1..Len(table)

\* get_isol(h) is Ok: the mutex is not poisoned, the index is in range and the
\* weak reference can be upgraded.
Resolves(h) == ~poisoned /\ h \in 1..Len(table) /\ strong[table[h]] > 0

\* Mutant: the table is indexed by the id itself, not id - 1.
TargetOffByOne(h) == IF h < Len(table) THEN table[h + 1] ELSE table[h]

\* The isolation get_isol(h) returns.
Target(h) == table[h]

Acquire(o) == strong' = [strong EXCEPT ![o] = @ + 1]

\* Dropping an Arc; at zero the holder must go on to Remove the value.
Release(o) == strong' = [strong EXCEPT ![o] = @ - 1]

\* Drop for Isolation: Vec::remove(id - 1) finds an entry.
Removable(o) == ~poisoned /\ id[o] \in 1..Len(table)

\* The entries behind the removed one move forward by one.
Remove(o) ==
    table' = SubSeq(table, 1, id[o] - 1) \o SubSeq(table, id[o] + 1, Len(table))
==============================================================================
