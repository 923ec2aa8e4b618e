------------------------------ MODULE IsolProofs ------------------------------
(***************************************************************************)
(* The two programs over the table of isolations.                            *)
(*                                                                           *)
(* asvisor with any number of workflows: until main leaves, every handle     *)
(* resolves to its own isolation, and then nobody else holds one; a lone     *)
(* workflow's exit does not panic.                                           *)
(*                                                                           *)
(* asvisor-d with any number of requests: although ids and table indices     *)
(* drift apart, so that a host call may be given another request's           *)
(* isolation, none is used after it is dropped, and each is dropped once.    *)
(***************************************************************************)
EXTENDS Cli, FiniteSetTheorems, TLAPS

\* asvisor-d: its requests, those the clients have open at a time, and that a
\* panic during unwinding ended the process.
CONSTANTS Requests, MaxInFlight
VARIABLE aborted

D == INSTANCE Daemon WITH Isols <- Requests

-----------------------------------------------------------------------------
(* asvisor *)

\* TypeOK in two parts, for the provers: Boolean variables apart.
FlagType == poisoned \in BOOLEAN /\ unwinding \in BOOLEAN

DataType ==
    /\ idKeeper \in Nat
    /\ table \in Seq(Isols)
    /\ id \in [Isols -> Nat]
    /\ build \in Builds
    /\ files \in Isols
    /\ pc \in {"build", "start", "await", "exit", "exited", "panicked", "aborted"}
    /\ k \in 1..(files + 1)
    /\ task \in [Isols -> {"none", "ready", "running", "call", "failing", "done", "panicked"}]
    /\ ref \in [Isols -> Isols]

Working == {"build", "start", "await"}

\* The isolations built so far.
BuiltCount == IF pc = "build" THEN k - 1 ELSE files

\* The Arcs of isolation o that its thread holds.
Held(o) ==
    IF task[o] = "ready" THEN (IF build.multi THEN 1 ELSE 0)
    ELSE IF task[o] \in {"running", "failing"} THEN ThreadArcs
    ELSE IF task[o] = "call" THEN ThreadArcs + 1
    ELSE 0

\* Until main leaves, the table holds the isolations in the order of their ids.
Ordered ==
    pc \in Working =>
        /\ ~poisoned
        /\ Len(table) = BuiltCount
        /\ idKeeper = BuiltCount + 1
        /\ \A o \in 1..BuiltCount : table[o] = o /\ id[o] = o

\* Every strong reference is accounted for.
Accounted ==
    /\ strong \in [Isols -> Nat]
    /\ pc \in Working => \A o \in 1..BuiltCount : strong[o] = 1 + Held(o)
    /\ pc = "exit" => \A o \in 1..files : strong[o] = IF o < k THEN 0 ELSE 1

\* How far the workflows are.
Progress ==
    /\ pc = "build" => \A o \in Isols : task[o] = "none"
    /\ pc = "start" => /\ \A o \in Isols : o >= k => task[o] = "none"
                       /\ ~build.multi /\ files > 1 => k = 1
    /\ pc = "await" => \A o \in 1..files : o < k => task[o] = "done"
    /\ pc \notin Working => \A o \in Isols : task[o] \in {"none", "done", "panicked"}
    /\ \A o \in Isols : o > files => task[o] = "none"
    /\ \A o \in Isols : ref[o] = o

IInv == FlagType /\ DataType /\ Ordered /\ Accounted /\ Progress

\* The isolations are numbered from one (main.rs:75).
LEMMA IsolsNum ==
    /\ \A o \in Isols : o \in Nat /\ o >= 1
    /\ \A n \in Isols : \A o \in 1..n : o \in Isols
BY CliAssumption

\* What a thread holds depends on its task only.
LEMMA HeldFrame == UNCHANGED <<task, build>> => \A o \in Isols : Held(o)' = Held(o)
BY Zenon DEF Held, ThreadArcs

\* A thread that has not started or has ended holds nothing.
LEMMA NoneHeld == \A o \in Isols : task[o] \in {"none", "done", "panicked"} => Held(o) = 0
BY Zenon DEF Held

-----------------------------------------------------------------------------
(* The invariant holds initially and is kept by every action *)

\* No isolation exists when main starts.
LEMMA InitIInv == Init => IInv
<1> SUFFICES ASSUME Init PROVE IInv
  BY Zenon
<1> USE IsolsNum DEF Init, TableInit
<1>1. FlagType
  BY Zenon DEF FlagType
<1>2. DataType
  BY DEF DataType
<1>3. Ordered /\ Accounted /\ Progress
  BY DEF Ordered, Accounted, Progress, BuiltCount, Held, Working
<1> QED  BY Zenon, <1>1, <1>2, <1>3 DEF IInv

\* Isolation::new appends under the next id (mod.rs:84-125).
LEMMA BuildIInv == ASSUME IInv, Build PROVE IInv'
<1> USE IsolsNum DEF IInv, Working, tableVars, Build, GenNewId, Push
<1>1. FlagType'
  BY Zenon DEF FlagType
<1>2. DataType'
  BY DEF DataType
<1>3. Ordered'
  BY DEF DataType, Ordered, BuiltCount
<1>4. Accounted'
  BY SMTT(60) DEF DataType, Accounted, BuiltCount, Held, ThreadArcs, Progress
<1>5. Progress'
  BY Zenon DEF DataType, Progress
<1> QED  BY Zenon, <1>1, <1>2, <1>3, <1>4, <1>5

\* All isolations are built (main.rs:74-83).
LEMMA BuiltIInv == ASSUME IInv, Built PROVE IInv'
<1> USE IsolsNum DEF IInv, Working, tableVars, Built
<1>1. FlagType'
  BY Zenon DEF FlagType
<1>2. DataType'
  BY DEF DataType
<1>3. Ordered'
  BY DEF DataType, Ordered, BuiltCount
<1>4. Accounted'
  <2>1. \A o \in 1..files : strong[o] = 1 + Held(o) /\ o \in Isols
    BY SMTT(60) DEF DataType, Accounted, BuiltCount
  <2>2. CASE pc' = "exit"
    <3>1. \A o \in 1..files : Held(o) = 0
      BY Zenon, <2>1, <2>2, NoneHeld DEF DataType, Progress
    <3> QED  BY <2>1, <2>2, <3>1 DEF DataType, Accounted
  <2>3. CASE pc' \in Working
    BY Zenon, <2>1, <2>3, HeldFrame DEF DataType, Accounted, BuiltCount
  <2> QED  BY Zenon, <2>2, <2>3
<1>5. Progress'
  BY Zenon DEF DataType, Progress
<1> QED  BY Zenon, <1>1, <1>2, <1>3, <1>4, <1>5

\* A workflow is given to a thread (main.rs:98-108).
LEMMA StartTaskIInv == ASSUME IInv, StartTask PROVE IInv'
<1> USE IsolsNum DEF IInv, Working, tableVars, StartTask, Acquire
<1>1. FlagType'
  BY Zenon DEF FlagType
<1>2. CASE ~build.multi /\ files > 1
  <2>1. DataType'
    BY <1>2 DEF DataType
  <2>2. \A o \in Isols : task[o] = "none"
    BY Zenon, <1>2 DEF DataType, Progress
  <2>3. \A o \in 1..files : strong[o] = 1 /\ o \in Isols
    BY <2>2, NoneHeld DEF DataType, Accounted, BuiltCount
  <2>4. Ordered' /\ Accounted' /\ Progress'
    BY <1>2, <2>2, <2>3 DEF DataType, Ordered, Accounted, Progress
  <2> QED  BY Zenon, <1>1, <2>1, <2>4
<1>3. CASE ~(~build.multi /\ files > 1)
  <2>1. /\ pc' = "start" /\ k' = k + 1 /\ k \in 1..files /\ k \in Isols
        /\ task' = [task EXCEPT ![k] = "ready"]
        /\ strong' = [strong EXCEPT ![k] = IF build.multi THEN @ + 1 ELSE @]
    BY SMTT(60), <1>3 DEF DataType, Accounted
  <2>2. DataType'
    BY <2>1 DEF DataType
  <2>3. Ordered'
    BY Zenon, <2>1 DEF DataType, Ordered, BuiltCount
  <2>4. PICK n \in 1..files : n = k
    BY Zenon, <2>1
  <2>5. strong'[n] = 1 + Held(n)'
    <3>1. strong[n] = 1
      BY <2>1, <2>4, NoneHeld DEF DataType, Accounted, Progress, BuiltCount
    <3>2. task'[n] = "ready" /\ build' = build
      BY Zenon, <2>1, <2>4 DEF DataType
    <3>3. Held(n)' = IF build.multi THEN 1 ELSE 0
      BY Zenon, <3>2 DEF Held
    <3>4. strong'[n] = IF build.multi THEN 2 ELSE 1
      BY <2>1, <2>4, <3>1 DEF Accounted
    <3> QED  BY <3>3, <3>4
  <2>6. Accounted'
    <3>1. strong' \in [Isols -> Nat]
      BY <2>1 DEF Accounted
    <3>2. \A o \in 1..files : o # n => strong'[o] = strong[o] /\ Held(o)' = Held(o)
      BY Zenon, <2>1, <2>4 DEF DataType, Accounted, Held, ThreadArcs
    <3>3. \A o \in 1..files : strong[o] = 1 + Held(o)
      BY Zenon DEF Accounted, BuiltCount
    <3>4. \A o \in 1..files : strong'[o] = 1 + Held(o)'
      BY Zenon, <2>5, <3>2, <3>3
    <3> QED  BY Zenon, <2>1, <3>1, <3>4 DEF Accounted, BuiltCount
  <2>7. Progress'
    BY <1>3, <2>1 DEF DataType, Progress
  <2> QED  BY Zenon, <1>1, <2>2, <2>3, <2>6, <2>7
<1> QED  BY Zenon, <1>2, <1>3

\* All workflows are running (main.rs:110).
LEMMA StartedIInv == ASSUME IInv, Started PROVE IInv'
<1> USE IsolsNum DEF IInv, Working, tableVars, Started
<1>1. FlagType'
  BY Zenon DEF FlagType
<1>2. DataType'
  BY DEF DataType
<1>3. Ordered'
  BY Zenon DEF DataType, Ordered, BuiltCount
<1>4. Accounted'
  BY DEF DataType, Accounted, BuiltCount, Held, ThreadArcs, Progress
<1>5. Progress'
  BY DEF DataType, Progress
<1> QED  BY Zenon, <1>1, <1>2, <1>3, <1>4, <1>5

\* A workflow has ended (main.rs:110-113).
LEMMA AwaitIInv == ASSUME IInv, Await PROVE IInv'
<1> USE IsolsNum DEF IInv, Working, tableVars, Await
<1>1. FlagType'
  BY Zenon DEF FlagType
<1>2. DataType'
  BY DEF DataType
<1>3. Ordered'
  BY Zenon DEF DataType, Ordered, BuiltCount
<1>4. Accounted'
  <2>1. \A o \in 1..files : strong[o] = 1 + Held(o) /\ o \in Isols
    BY Zenon DEF DataType, Accounted, BuiltCount
  <2>2. CASE pc' = "exit"
    <3>1. \A o \in 1..files : Held(o) = 0
      BY Zenon, <2>1, <2>2, NoneHeld DEF DataType, Progress
    <3> QED  BY <2>1, <2>2, <3>1 DEF DataType, Accounted
  <2>3. CASE pc' \in Working
    BY Zenon, <2>1, <2>3, HeldFrame DEF DataType, Accounted, BuiltCount
  <2> QED  BY Zenon, <2>2, <2>3
<1>5. Progress'
  BY SMTT(60) DEF DataType, Progress
<1> QED  BY Zenon, <1>1, <1>2, <1>3, <1>4, <1>5

\* All workflows have ended (main.rs:114).
LEMMA AwaitedIInv == ASSUME IInv, Awaited PROVE IInv'
<1> USE IsolsNum DEF IInv, Working, tableVars, Awaited
<1>1. FlagType'
  BY Zenon DEF FlagType
<1>2. DataType'
  BY DEF DataType
<1>3. Ordered'
  BY Zenon DEF DataType, Ordered, BuiltCount
<1>4. Accounted'
  <2>1. \A o \in 1..files : strong[o] = 1 + Held(o) /\ o \in Isols
    BY Zenon DEF DataType, Accounted, BuiltCount
  <2>2. CASE pc' = "exit"
    <3>1. \A o \in 1..files : Held(o) = 0
      BY <2>1, <2>2, NoneHeld DEF DataType, Progress
    <3> QED  BY <2>1, <2>2, <3>1 DEF DataType, Accounted
  <2>3. CASE pc' \in Working
    BY Zenon, <2>1, <2>3, HeldFrame DEF DataType, Accounted, BuiltCount
  <2> QED  BY Zenon, <2>2, <2>3
<1>5. Progress'
  BY DEF DataType, Progress
<1> QED  BY Zenon, <1>1, <1>2, <1>3, <1>4, <1>5

\* An isolation is dropped (mod.rs:262-266).
LEMMA DropNextIInv == ASSUME IInv, DropNext PROVE IInv'
<1> USE IsolsNum DEF IInv
<1>1. FlagType'
  BY Zenon DEF FlagType, DropNext, Remove
<1>2. /\ pc = "exit" /\ pc' \in {"exit", "aborted"}
      /\ k \in 1..files /\ k \in Isols /\ k' = k + 1
      /\ strong' = [strong EXCEPT ![k] = @ - 1]
      /\ UNCHANGED <<idKeeper, id, build, files, task, ref>>
  BY DEF DropNext, Release, DataType
<1>3. table' \in Seq(Isols)
  <2>1. CASE UNCHANGED table
    BY Zenon, <2>1 DEF DataType
  <2>2. CASE Removable(k) /\ Remove(k)
    <3>1. id[k] \in 1..Len(table) /\ table \in Seq(Isols)
      BY Zenon, <2>2 DEF Removable, DataType
    <3>2. SubSeq(table, 1, id[k] - 1) \in Seq(Isols)
      BY <3>1
    <3>3. SubSeq(table, id[k] + 1, Len(table)) \in Seq(Isols)
      BY <3>1
    <3> QED  BY <2>2, <3>2, <3>3 DEF Remove
  <2> QED  BY Zenon, <2>1, <2>2 DEF DropNext
<1>4. DataType'
  BY <1>2, <1>3 DEF DataType
<1>5. Ordered'
  BY Zenon, <1>2 DEF Ordered, Working
<1>6. Accounted'
  <2>1. strong[k] = 1
    BY <1>2 DEF Accounted, DataType
  <2>2. strong' \in [Isols -> Nat] /\ strong'[k] = 0 /\ \A o \in Isols : o # k => strong'[o] = strong[o]
    BY <1>2, <2>1 DEF Accounted
  <2>3. \A o \in 1..files : strong'[o] = IF o < k + 1 THEN 0 ELSE 1
    BY <1>2, <2>2 DEF Accounted, DataType
  <2> QED  BY Zenon, <1>2, <2>2, <2>3 DEF Accounted, Working
<1>7. Progress'
  BY Zenon, <1>2 DEF Progress, Working
<1> QED  BY Zenon, <1>1, <1>4, <1>5, <1>6, <1>7

\* main is left.
LEMMA ExitIInv == ASSUME IInv, Exit PROVE IInv'
<1> USE IsolsNum DEF IInv, Working, tableVars, Exit
<1>1. FlagType'
  BY Zenon DEF FlagType
<1>2. DataType'
  BY Zenon DEF DataType
<1>3. Ordered'
  BY Zenon DEF DataType, Ordered, BuiltCount
<1>4. Accounted'
  BY Zenon DEF DataType, Accounted, BuiltCount, Held, ThreadArcs, Progress
<1>5. Progress'
  BY Zenon DEF DataType, Progress
<1> QED  BY Zenon, <1>1, <1>2, <1>3, <1>4, <1>5

\* A step of a workflow's thread changes its own task and Arcs only.
LEMMA TaskStepIInv ==
    ASSUME IInv, NEW n \in 1..files, task[n] \notin {"none", "done", "panicked"},
           NEW v \in {"running", "call", "failing", "done", "panicked"},
           task' = [task EXCEPT ![n] = v],
           strong' = [strong EXCEPT ![n] = 1 + Held(n)'],
           ref' = ref,
           UNCHANGED <<idKeeper, table, poisoned, id, build, files, pc, k, unwinding>>
    PROVE  IInv'
<1> USE IsolsNum DEF IInv
<1>1. FlagType'
  BY Zenon DEF FlagType
<1>2. n \in Isols /\ pc \in {"start", "await"}
  BY Zenon DEF DataType, Progress, Working
<1>3. DataType'
  BY Zenon, <1>2 DEF DataType
<1>4. Ordered'
  BY Zenon DEF Ordered, BuiltCount, Working
<1>5. Held(n)' \in Nat
  BY DEF Held, ThreadArcs
<1>6. \A o \in Isols : o # n => Held(o)' = Held(o)
  BY Zenon, <1>2 DEF DataType, Held, ThreadArcs
<1>7. Accounted'
  <2>1. strong' \in [Isols -> Nat]
    <3>1. 1 + Held(n)' \in Nat
      BY <1>5
    <3> QED  BY Zenon, <3>1 DEF Accounted
  <2>2. \A o \in 1..files : o \in Isols /\ strong[o] = 1 + Held(o)
    BY Zenon, <1>2 DEF Accounted, BuiltCount, Working, DataType
  <2>3. strong'[n] = 1 + Held(n)' /\ \A o \in Isols : o # n => strong'[o] = strong[o]
    BY Zenon, <1>2 DEF Accounted
  <2>4. \A o \in 1..files : strong'[o] = 1 + Held(o)'
    BY Zenon, <1>6, <2>2, <2>3
  <2> QED  BY Zenon, <1>2, <2>1, <2>4 DEF Accounted, BuiltCount
<1>8. Progress'
  BY Zenon, <1>2 DEF DataType, Progress, Working
<1> QED  BY Zenon, <1>1, <1>3, <1>4, <1>7, <1>8

\* While a workflow runs its handle resolves to its own isolation.
LEMMA ActiveResolves ==
    ASSUME IInv, NEW n \in Isols, task[n] \in Active
    PROVE  /\ n \in 1..files
           /\ Resolves(id[n])
           /\ Target(id[n]) = n
           /\ ref[n] = n
           /\ strong[n] = 1 + Held(n)
<1> USE IsolsNum DEF IInv, Active
<1>1. n \in 1..files /\ pc \in {"start", "await"} /\ ref[n] = n
  <2>1. task[n] \notin {"none", "done", "panicked"}
    BY Zenon
  <2>2. n \in 1..files
    BY <2>1 DEF DataType, Progress
  <2> QED  BY Zenon, <2>1, <2>2 DEF DataType, Progress, Working
<1>2. table[n] = n /\ id[n] = n /\ Len(table) = files /\ ~poisoned
  BY Zenon, <1>1 DEF Ordered, BuiltCount, Working
<1>3. strong[n] = 1 + Held(n) /\ Held(n) \in Nat
  BY <1>1 DEF Accounted, BuiltCount, Working, Held, ThreadArcs
<1> QED  BY <1>1, <1>2, <1>3 DEF Resolves, Target

\* msvisor_start finds its isolation (main.rs:87).
LEMMA ResolveIInv == ASSUME IInv, NEW n \in 1..files, Resolve(n) PROVE IInv'
<1>1. n \in Isols /\ task[n] = "ready"
  BY Zenon, IsolsNum DEF IInv, DataType, Resolve
<1>2. Resolves(id[n]) /\ Target(id[n]) = n /\ strong[n] = 1 + Held(n)
  BY Zenon, <1>1, ActiveResolves DEF Active
<1>3. task' = [task EXCEPT ![n] = "running"] /\ strong' = [strong EXCEPT ![n] = @ + 1]
      /\ UNCHANGED <<idKeeper, table, poisoned, id, build, files, pc, k, ref, unwinding>>
  BY Zenon, <1>2 DEF Resolve, Acquire
<1>4. task'[n] = "running"
  BY Zenon, <1>1, <1>3 DEF IInv, DataType
<1>5. Held(n)' = Held(n) + 1
  BY <1>1, <1>3, <1>4 DEF Held, ThreadArcs
<1>6. strong' = [strong EXCEPT ![n] = 1 + Held(n)']
  <2>1. Held(n) \in Nat
    BY DEF Held, ThreadArcs
  <2>2. strong[n] + 1 = 1 + Held(n)'
    BY <1>2, <1>5, <2>1
  <2> QED  BY Zenon, <1>3, <2>2
<1> QED  BY Zenon, <1>1, <1>3, <1>6, TaskStepIInv

\* A host call finds its isolation (handler.rs:30).
LEMMA HostCallIInv == ASSUME IInv, NEW n \in 1..files, HostCall(n) PROVE IInv'
<1>1. n \in Isols /\ task[n] = "running"
  BY Zenon, IsolsNum DEF IInv, DataType, HostCall
<1>2. Resolves(id[n]) /\ Target(id[n]) = n /\ ref[n] = n /\ strong[n] = 1 + Held(n)
  BY Zenon, <1>1, ActiveResolves DEF Active
<1>3. task' = [task EXCEPT ![n] = "call"] /\ strong' = [strong EXCEPT ![n] = @ + 1]
      /\ ref' = [ref EXCEPT ![n] = n]
      /\ UNCHANGED <<idKeeper, table, poisoned, id, build, files, pc, k, unwinding>>
  BY Zenon, <1>2 DEF HostCall, Acquire
<1>4. task'[n] = "call" /\ ref' = ref
  BY Zenon, <1>1, <1>2, <1>3 DEF IInv, DataType
<1>5. Held(n)' = Held(n) + 1
  BY Zenon, <1>1, <1>3, <1>4 DEF Held, ThreadArcs
<1>6. strong' = [strong EXCEPT ![n] = 1 + Held(n)']
  <2>1. Held(n) \in Nat
    BY DEF Held, ThreadArcs
  <2>2. strong[n] + 1 = 1 + Held(n)'
    BY <1>2, <1>5, <2>1
  <2> QED  BY Zenon, <1>3, <2>2
<1> QED  BY Zenon, <1>1, <1>3, <1>4, <1>6, TaskStepIInv

\* A host call drops its Arc (handler.rs:62).
LEMMA HostCallDoneIInv ==
    ASSUME IInv, NEW n \in 1..files, NEW panics \in BOOLEAN, HostCallDone(n, panics)
    PROVE  IInv'
<1>1. n \in Isols /\ task[n] = "call"
  BY Zenon, IsolsNum DEF IInv, DataType, HostCallDone
<1>2. ref[n] = n /\ strong[n] = 1 + Held(n)
  BY Zenon, <1>1, ActiveResolves DEF Active
<1>3. PICK v \in {"running", "failing"} :
         /\ task' = [task EXCEPT ![n] = v] /\ strong' = [strong EXCEPT ![n] = @ - 1]
         /\ UNCHANGED <<idKeeper, table, poisoned, id, build, files, pc, k, ref, unwinding>>
  BY Zenon, <1>2 DEF HostCallDone, Release
<1>4. task'[n] = v
  BY Zenon, <1>1, <1>3 DEF IInv, DataType
<1>5. Held(n) = Held(n)' + 1 /\ Held(n)' \in Nat
  BY Zenon, <1>1, <1>3, <1>4 DEF Held, ThreadArcs
<1>6. strong' = [strong EXCEPT ![n] = 1 + Held(n)']
  <2>1. strong[n] - 1 = 1 + Held(n)'
    BY <1>2, <1>5
  <2> QED  BY Zenon, <1>3, <2>1
<1> QED  BY Zenon, <1>1, <1>3, <1>6, TaskStepIInv

\* A workflow ends and its thread drops its Arcs (main.rs:89-94).
LEMMA RunDoneIInv == ASSUME IInv, NEW n \in 1..files, RunDone(n) PROVE IInv'
<1>1. n \in Isols /\ task[n] \in {"running", "failing"} /\ pc \in {"start", "await"}
  BY Zenon, IsolsNum DEF IInv, DataType, Progress, Working, RunDone
<1>2. strong[n] = 1 + Held(n)
  BY Zenon, <1>1 DEF IInv, Accounted, BuiltCount, Working
<1>3. PICK v \in {"done", "panicked"} :
         /\ task' = [task EXCEPT ![n] = v] /\ strong' = [strong EXCEPT ![n] = @ - ThreadArcs]
         /\ UNCHANGED <<idKeeper, table, poisoned, id, build, files, pc, k, ref, unwinding>>
  BY Zenon DEF RunDone
<1>4. task'[n] = v
  BY Zenon, <1>1, <1>3 DEF IInv, DataType
<1>5. Held(n)' = 0 /\ Held(n) = ThreadArcs /\ ThreadArcs \in Nat
  BY Zenon, <1>1, <1>4 DEF Held, ThreadArcs
<1>6. strong' = [strong EXCEPT ![n] = 1 + Held(n)']
  <2>1. strong[n] - ThreadArcs = 1 + Held(n)'
    BY <1>2, <1>5
  <2> QED  BY Zenon, <1>3, <2>1
<1> QED  BY Zenon, <1>1, <1>3, <1>6, TaskStepIInv

-----------------------------------------------------------------------------
(* The properties *)

\* The inductive invariant of asvisor.
THEOREM Inductive == Spec => []IInv
<1>1. Init => IInv
  BY Zenon, InitIInv
<1>2. IInv /\ [Next]_vars => IInv'
  <2>1. IInv /\ UNCHANGED vars => IInv'
    <3> SUFFICES ASSUME IInv, UNCHANGED vars PROVE IInv'
      BY Zenon
    <3> USE DEF vars, tableVars, IInv
    <3>1. FlagType' /\ DataType' /\ Ordered' /\ Progress'
      BY Zenon DEF FlagType, DataType, Ordered, BuiltCount, Progress
    <3>2. Accounted'
      BY Zenon DEF Accounted, BuiltCount, Held, ThreadArcs
    <3> QED  BY Zenon, <3>1, <3>2
  <2> QED  BY Zenon, <2>1, BuildIInv, BuiltIInv, StartTaskIInv, StartedIInv, AwaitIInv, AwaitedIInv,
              DropNextIInv, ExitIInv, ResolveIInv, HostCallIInv, HostCallDoneIInv, RunDoneIInv
           DEF Next, Main, TaskStep
<1> QED  BY <1>1, <1>2, PTL DEF Spec

\* The counters, the table and the Arcs' counts keep their types; no Arc is
\* dropped twice.
THEOREM TypeCorrect == Spec => []TypeOK
<1>1. IInv => TypeOK
  <2> SUFFICES ASSUME IInv PROVE TypeOK
    BY Zenon
  <2>1. DataType /\ FlagType /\ strong \in [Isols -> Nat]
    BY Zenon DEF IInv, Accounted
  <2> QED  BY Zenon, <2>1 DEF TypeOK, DataType, FlagType
<1> QED  BY <1>1, Inductive, PTL

\* Every handle of a running workflow resolves, and to its own isolation, for
\* any number of --files (mod.rs:44-56).
THEOREM HandlesAlwaysResolve == Spec => []HandlesResolve
<1>1. IInv => HandlesResolve
  BY Zenon, ActiveResolves DEF HandlesResolve
<1> QED  BY <1>1, Inductive, PTL

\* When main leaves it holds the only Arc of every isolation (lib.rs:36-41).
THEOREM LastOwner == Spec => []RcCheck
<1>1. IInv => RcCheck
  BY Zenon DEF IInv, Accounted, RcCheck
<1> QED  BY <1>1, Inductive, PTL

\* What the drop of a lone isolation rests on: its entry is the only one, at the
\* index its id gives.
Lone ==
    files = 1 =>
        /\ ~poisoned /\ pc # "aborted"
        /\ pc = "exit" /\ k = 1 => Len(table) = 1 /\ id[1] = 1
        /\ pc = "exit" /\ k = 2 => table = <<>>
        /\ pc \in {"exited", "panicked"} => table = <<>>

\* Until main leaves, Lone is about the order of the table.
LEMMA LoneWorking == ASSUME IInv, pc \in Working PROVE Lone
<1>1. ~poisoned
  BY Zenon DEF IInv, Ordered
<1>2. pc \notin {"exit", "exited", "panicked", "aborted"}
  BY Zenon DEF Working
<1> QED  BY Zenon, <1>1, <1>2 DEF Lone

\* main begins to leave with the table as the workflows had it (main.rs:79-114).
LEMMA LoneLeaving ==
    ASSUME IInv, pc \in Working, pc' = "exit", k' = 1, UNCHANGED <<table, id, poisoned, files>>,
           BuiltCount = files
    PROVE  Lone'
<1>1. ~poisoned /\ Len(table) = files /\ \A o \in 1..files : id[o] = o
  BY Zenon DEF IInv, Ordered
<1> QED  BY <1>1 DEF Lone

\* The drop of a lone isolation removes its own entry (mod.rs:262-266).
LEMMA LoneDrop == ASSUME IInv, Lone, DropNext PROVE Lone'
<1> SUFFICES ASSUME files' = 1 PROVE Lone'
  BY Zenon DEF Lone
<1>1. files = 1 /\ pc = "exit" /\ k = 1
  BY DEF DropNext, IInv, DataType
<1>2. ~poisoned /\ Len(table) = 1 /\ id[1] = 1 /\ table \in Seq(Isols)
  BY Zenon, <1>1 DEF Lone, IInv, DataType
<1>3. Removable(k)
  BY <1>1, <1>2 DEF Removable
<1>4. /\ table' = SubSeq(table, 1, 0) \o SubSeq(table, 2, 1)
      /\ k' = 2 /\ pc' = "exit" /\ ~poisoned'
  BY <1>1, <1>2, <1>3 DEF DropNext, Remove
<1>5. table' = <<>>
  BY <1>2, <1>4
<1> QED  BY <1>4, <1>5 DEF Lone

\* With one workflow the exit panics on no table entry, and leaves the table
\* empty (mod.rs:262-266).
THEOREM LoneExit == Spec => []SingleExit
<1>1. Init => Lone
  BY Zenon, InitIInv, LoneWorking DEF Init, Working
<1>2. IInv /\ IInv' /\ Lone /\ [Next]_vars => Lone'
  <2> SUFFICES ASSUME IInv, IInv', Lone, [Next]_vars PROVE Lone'
    BY Zenon
  <2>1. CASE pc' \in Working
    <3>1. Working' = Working
      BY Zenon DEF Working
    <3>2. ~poisoned'
      BY Zenon, <2>1, <3>1 DEF IInv, Ordered
    <3> QED  BY Zenon, <2>1, <3>2 DEF Lone, Working
  <2>2. CASE pc' \notin Working
    <3>1. CASE DropNext
      BY Zenon, <3>1, LoneDrop
    <3>2. CASE Exit
      <4>1. files = 1 => k = 2
        BY <3>2 DEF Exit, IInv, DataType
      <4> QED  BY Zenon, <3>2, <4>1 DEF Exit, Lone, tableVars
    <3>3. CASE Built \/ StartTask \/ Await \/ Awaited
      <4>1. pc \in Working /\ pc' = "exit" /\ k' = 1 /\ UNCHANGED <<table, id, poisoned, files>>
        BY Zenon, <2>2, <3>3 DEF Built, StartTask, Await, Awaited, Working, tableVars
      <4>2. BuiltCount = files
        <5>1. files \in Nat /\ k \in 1..(files + 1)
          BY Zenon, IsolsNum DEF IInv, DataType
        <5>2. pc # "build" \/ k > files
          BY Zenon, <3>3 DEF Built, StartTask, Await, Awaited
        <5> QED  BY <5>1, <5>2 DEF BuiltCount
      <4> QED  BY Zenon, <4>1, <4>2, LoneLeaving
    <3>4. CASE UNCHANGED vars
      BY Zenon, <3>4 DEF vars, tableVars, Lone
    <3>5. ASSUME NEW n \in 1..files, TaskStep(n) PROVE Lone'
      <4>1. UNCHANGED <<table, id, poisoned, files, pc, k>>
        BY Zenon, <3>5 DEF TaskStep, Resolve, HostCall, HostCallDone, RunDone
      <4> QED  BY Zenon, <4>1 DEF Lone
    <3>6. CASE Build \/ Started
      BY Zenon, <2>2, <3>6 DEF Build, Started, Working
    <3> QED  BY Zenon, <3>1, <3>2, <3>3, <3>4, <3>5, <3>6 DEF Next, Main
  <2> QED  BY Zenon, <2>1, <2>2
<1>3. IInv /\ Lone => SingleExit
  BY Zenon DEF Lone, SingleExit
<1> QED  BY <1>1, <1>2, <1>3, Inductive, PTL DEF Spec

-----------------------------------------------------------------------------
(* asvisor-d *)

\* The isolations that have been built and registered.
Registered == {o \in Requests : pc[o] \notin {"idle", "named"}}

RequestType ==
    /\ pc \in [Requests -> {"idle", "named", "running", "call", "dropRef", "dropOwn", "done"}]
    /\ ref \in [Requests -> Requests]
    /\ table \in Seq(Registered)

\* The request's own thread has its Arc until Isolation::run is over.
Owning(o) == pc[o] \in {"running", "call", "dropRef"}

\* The requests whose host call holds an Arc of o.
Callers(o) == {r \in Requests : pc[r] = "call" /\ ref[r] = o}

\* Every strong reference is accounted for.
ArcsCounted ==
    /\ strong \in [Requests -> Nat]
    /\ \A o \in Requests :
          /\ IsFiniteSet(Callers(o))
          /\ strong[o] = Cardinality(Callers(o)) + (IF Owning(o) THEN 1 ELSE 0)

\* A host call has found a registered isolation.
Found == \A r \in Requests : pc[r] \in {"call", "dropRef"} => ref[r] \in Registered

\* What is being dropped has no reference left, and one thread drops it.
DropsDead ==
    \A r, s \in Requests : \A o \in D!Dropping(r) : strong[o] = 0 /\ (r # s => o \notin D!Dropping(s))

DInv == RequestType /\ ArcsCounted /\ Found /\ DropsDead

-----------------------------------------------------------------------------
(* Lemmas *)

\* Weak references stay those of registered isolations as more are registered.
LEMMA SeqGrows == ASSUME NEW S, NEW T, S \subseteq T, NEW q \in Seq(S) PROVE q \in Seq(T)
OBVIOUS

\* Vec::remove leaves references that were there (mod.rs:262-266).
LEMMA RemoveKeeps ==
    ASSUME NEW S, table \in Seq(S), NEW o \in Requests, D!Removable(o), D!Remove(o)
    PROVE  table' \in Seq(S)
<1>1. id[o] \in 1..Len(table)
  BY Zenon DEF D!Removable
<1>2. SubSeq(table, 1, id[o] - 1) \in Seq(S)
  BY <1>1
<1>3. SubSeq(table, id[o] + 1, Len(table)) \in Seq(S)
  BY <1>1
<1> QED  BY <1>2, <1>3 DEF D!Remove

\* A host call's isolation is alive.
LEMMA CallAlive ==
    ASSUME ArcsCounted, NEW r \in Requests, pc[r] = "call", ref[r] \in Requests
    PROVE  strong[ref[r]] > 0
<1>1. r \in Callers(ref[r]) /\ IsFiniteSet(Callers(ref[r]))
  BY Zenon DEF Callers, ArcsCounted
<1>2. Cardinality(Callers(ref[r])) \in Nat /\ Cardinality(Callers(ref[r])) # 0
  BY Zenon, <1>1, FS_EmptySet, FS_CardinalityType
<1> QED  BY <1>2 DEF ArcsCounted

\* A step that takes and drops no Arc.
LEMMA ArcsFrame ==
    ASSUME ArcsCounted, strong' = strong,
           \A o \in Requests : Callers(o)' = Callers(o) /\ (Owning(o)' <=> Owning(o))
    PROVE  ArcsCounted'
<1>1. \A o \in Requests : Callers(o)' = Callers(o)
  BY Zenon
<1>2. \A o \in Requests : (IF Owning(o) THEN 1 ELSE 0)' = IF Owning(o) THEN 1 ELSE 0
  BY Zenon
<1> QED  BY Zenon, <1>1, <1>2 DEF ArcsCounted

-----------------------------------------------------------------------------
(* The invariant holds initially and is kept by every action *)

\* No request has come yet.
LEMMA InitDInv == D!Init => DInv
<1> SUFFICES ASSUME D!Init PROVE DInv
  OBVIOUS
<1> USE DEF D!Init, D!TableInit
<1>1. RequestType
  BY DEF RequestType
<1>2. \A o \in Requests : Callers(o) = {} /\ ~Owning(o) /\ D!Dropping(o) = {}
  BY Zenon DEF Callers, Owning, D!Dropping
<1>3. ArcsCounted
  BY <1>2, FS_EmptySet DEF ArcsCounted
<1>4. Found /\ DropsDead
  BY Zenon, <1>2 DEF Found, DropsDead
<1> QED  BY Zenon, <1>1, <1>3, <1>4 DEF DInv

\* A step that changes neither a thread's place nor an Arc nor the table: a host
\* call that does not find its isolation (handler.rs:30), the abort of
\* Isolation::new (mod.rs:84-125).
LEMMA IdleDInv ==
    ASSUME DInv, UNCHANGED <<pc, ref, strong, table>>
    PROVE  DInv'
<1>1. RequestType' /\ Found'
  BY Zenon DEF DInv, RequestType, Found, Registered
<1>2. \A o \in Requests : Callers(o)' = Callers(o) /\ (Owning(o)' <=> Owning(o)) /\ D!Dropping(o)' = D!Dropping(o)
  BY Zenon DEF Callers, Owning, D!Dropping
<1>3. ArcsCounted'
  BY Zenon, <1>2, ArcsFrame DEF DInv
<1>4. DropsDead'
  BY <1>2 DEF DInv, DropsDead
<1> QED  BY Zenon, <1>1, <1>3, <1>4 DEF DInv

\* A thread goes on without taking or dropping an Arc.
LEMMA QuietDInv ==
    ASSUME DInv, NEW r \in Requests, NEW p,
           \/ pc[r] = "idle" /\ p \in {"named", "done"}
           \/ pc[r] = "dropRef" /\ p = "running"
           \/ pc[r] = "dropOwn" /\ p = "done",
           pc' = [pc EXCEPT ![r] = p], UNCHANGED <<ref, strong>>, table' \in Seq(Registered)
    PROVE  DInv'
<1> USE DEF DInv
<1>1. pc \in [Requests -> {"idle", "named", "running", "call", "dropRef", "dropOwn", "done"}]
  BY Zenon DEF RequestType
<1>2. Registered \subseteq Registered'
  BY Zenon, <1>1 DEF Registered
<1>3. RequestType'
  <2>1. table' \in Seq(Registered')
    BY Zenon, <1>2, SeqGrows
  <2> QED  BY Zenon, <2>1 DEF RequestType
<1>4. \A o \in Requests : Callers(o)' = Callers(o) /\ (Owning(o)' <=> Owning(o))
  BY Zenon, <1>1 DEF Callers, Owning
<1>5. ArcsCounted'
  BY Zenon, <1>4, ArcsFrame
<1>6. Found'
  BY Zenon, <1>1, <1>2 DEF Found
<1>7. D!Dropping(r)' = {} /\ \A s \in Requests : s # r => D!Dropping(s)' = D!Dropping(s)
  BY Zenon, <1>1 DEF D!Dropping
<1>8. DropsDead'
  BY <1>7 DEF DropsDead
<1> QED  BY Zenon, <1>3, <1>5, <1>6, <1>8

\* The isolation is registered with the Arc its thread holds (mod.rs:106-125).
LEMMA RegisterDInv == ASSUME DInv, NEW r \in Requests, D!Register(r) PROVE DInv'
<1> USE DEF DInv
<1>1. CASE poisoned
  BY Zenon, <1>1, IdleDInv DEF D!Register
<1>2. CASE ~poisoned
  <2>1. /\ pc[r] = "named" /\ pc' = [pc EXCEPT ![r] = "running"] /\ ref' = ref
        /\ strong' = [strong EXCEPT ![r] = 1] /\ table' = Append(table, r)
    BY Zenon, <1>2 DEF D!Register, D!Push
  <2>2. pc \in [Requests -> {"idle", "named", "running", "call", "dropRef", "dropOwn", "done"}]
    BY Zenon DEF RequestType
  <2>3. Registered' = Registered \cup {r} /\ r \notin Registered
    BY Zenon, <2>1, <2>2 DEF Registered
  <2>4. RequestType'
    <3>1. table \in Seq(Registered')
      BY Zenon, <2>3, SeqGrows DEF RequestType
    <3>2. table' \in Seq(Registered')
      BY <2>1, <2>3, <3>1
    <3> QED  BY Zenon, <2>1, <3>2 DEF RequestType
  <2>5. Found'
    BY Zenon, <2>1, <2>2, <2>3 DEF Found
  <2>6. \A o \in Requests : Callers(o)' = Callers(o)
    BY Zenon, <2>1, <2>2 DEF Callers
  <2>7. Callers(r) = {}
    BY Zenon, <2>3 DEF Callers, Found
  <2>8. Owning(r)' /\ \A o \in Requests : o # r => (Owning(o)' <=> Owning(o))
    BY Zenon, <2>1, <2>2 DEF Owning
  <2>9. ArcsCounted'
    <3>1. strong' \in [Requests -> Nat]
      BY Zenon, <2>1 DEF ArcsCounted
    <3>2. ASSUME NEW o \in Requests
          PROVE  /\ IsFiniteSet(Callers(o)')
                 /\ strong'[o] = Cardinality(Callers(o)') + (IF Owning(o)' THEN 1 ELSE 0)
      <4>1. CASE o = r
        BY <2>1, <2>6, <2>7, <2>8, <4>1, FS_EmptySet DEF ArcsCounted
      <4>2. CASE o # r
        BY Zenon, <2>1, <2>6, <2>8, <4>2 DEF ArcsCounted
      <4> QED  BY Zenon, <4>1, <4>2
    <3> QED  BY Zenon, <3>1, <3>2 DEF ArcsCounted
  <2>10. \A s \in Requests : D!Dropping(s)' = D!Dropping(s) /\ r \notin D!Dropping(s) /\ D!Dropping(s) \subseteq Requests
    BY Zenon, <2>1, <2>2, <2>3 DEF D!Dropping, Found, RequestType
  <2>11. DropsDead'
    BY <2>1, <2>10 DEF DropsDead, ArcsCounted
  <2> QED  BY Zenon, <2>4, <2>5, <2>9, <2>11
<1> QED  BY Zenon, <1>1, <1>2

\* A host call takes an Arc of the isolation it found, which is alive
\* (mod.rs:44-56, handler.rs:28-31).
LEMMA HostCallDInv == ASSUME DInv, NEW r \in Requests, D!HostCall(r) PROVE DInv'
<1> USE DEF DInv
<1>1. CASE ~D!Resolves(id[r])
  BY Zenon, <1>1, IdleDInv DEF D!HostCall
<1>2. CASE D!Resolves(id[r])
  <2>1. PICK t \in Registered : t = D!Target(id[r]) /\ strong[t] > 0
    BY <1>2 DEF D!Resolves, D!Target, RequestType
  <2>2. /\ pc[r] = "running" /\ pc' = [pc EXCEPT ![r] = "call"] /\ table' = table
        /\ ref' = [ref EXCEPT ![r] = t] /\ strong' = [strong EXCEPT ![t] = @ + 1]
    BY Zenon, <1>2, <2>1 DEF D!HostCall, D!Acquire
  <2>3. /\ pc \in [Requests -> {"idle", "named", "running", "call", "dropRef", "dropOwn", "done"}]
        /\ ref \in [Requests -> Requests] /\ t \in Requests
    BY Zenon DEF RequestType, Registered
  <2>4. Registered' = Registered
    BY Zenon, <2>2, <2>3 DEF Registered
  <2>5. RequestType'
    BY Zenon, <2>2, <2>3, <2>4 DEF RequestType
  <2>6. Found'
    BY Zenon, <2>2, <2>3, <2>4 DEF Found
  <2>7. /\ Callers(t)' = Callers(t) \cup {r} /\ r \notin Callers(t)
        /\ \A o \in Requests : o # t => Callers(o)' = Callers(o)
    BY Zenon, <2>2, <2>3 DEF Callers
  <2>8. \A o \in Requests : Owning(o)' <=> Owning(o)
    BY Zenon, <2>2, <2>3 DEF Owning
  <2>9. ArcsCounted'
    <3>1. strong' \in [Requests -> Nat]
      BY <2>2, <2>3 DEF ArcsCounted
    <3>2. ASSUME NEW o \in Requests
          PROVE  /\ IsFiniteSet(Callers(o)')
                 /\ strong'[o] = Cardinality(Callers(o)') + (IF Owning(o)' THEN 1 ELSE 0)
      <4>1. CASE o = t
        <5>1. IsFiniteSet(Callers(t)) /\ Cardinality(Callers(t)) \in Nat
          BY Zenon, <2>3, FS_CardinalityType DEF ArcsCounted
        <5>2. IsFiniteSet(Callers(t)') /\ Cardinality(Callers(t)') = Cardinality(Callers(t)) + 1
          BY <2>7, <5>1, FS_AddElement
        <5> QED  BY <2>2, <2>3, <2>8, <4>1, <5>1, <5>2 DEF ArcsCounted
      <4>2. CASE o # t
        BY Zenon, <2>2, <2>7, <2>8, <4>2 DEF ArcsCounted
      <4> QED  BY Zenon, <4>1, <4>2
    <3> QED  BY Zenon, <3>1, <3>2 DEF ArcsCounted
  <2>10. \A s \in Requests : D!Dropping(s)' = D!Dropping(s) /\ D!Dropping(s) \subseteq Requests
    BY Zenon, <2>2, <2>3 DEF D!Dropping
  <2>11. \A s \in Requests : t \notin D!Dropping(s)
    BY <2>1 DEF DropsDead
  <2>12. DropsDead'
    BY <2>2, <2>10, <2>11 DEF DropsDead, ArcsCounted
  <2> QED  BY Zenon, <2>5, <2>6, <2>9, <2>12
<1> QED  BY Zenon, <1>1, <1>2

\* Whoever drops the last Arc of a live isolation o, and only they, go on to
\* Drop for Isolation.
LEMMA LastArc ==
    ASSUME DInv, NEW r \in Requests, NEW o \in Requests, strong[o] > 0, D!Dropping(r) = {},
           strong' = [strong EXCEPT ![o] = @ - 1],
           D!Dropping(r)' = IF strong[o] = 1 THEN {o} ELSE {},
           \A s \in Requests : s # r => D!Dropping(s)' = D!Dropping(s) /\ D!Dropping(s) \subseteq Requests
    PROVE  DropsDead'
<1>1. strong \in [Requests -> Nat] /\ DropsDead
  BY Zenon DEF DInv, ArcsCounted
<1>2. \A s \in Requests : o \notin D!Dropping(s)
  BY <1>1 DEF DropsDead
<1>3. ASSUME NEW s \in Requests, NEW u \in Requests, NEW d \in D!Dropping(s)'
      PROVE  strong'[d] = 0 /\ (s # u => d \notin D!Dropping(u)')
  <2>1. CASE s = r
    <3>1. d = o /\ strong[o] = 1
      BY Zenon, <2>1
    <3> QED  BY <1>1, <1>2, <2>1, <3>1
  <2>2. CASE s # r
    <3>1. d \in D!Dropping(s) /\ d \in Requests /\ d # o
      BY Zenon, <1>2, <2>2
    <3>2. strong[d] = 0 /\ (s # u => d \notin D!Dropping(u))
      BY Zenon, <1>1, <3>1 DEF DropsDead
    <3> QED  BY Zenon, <1>1, <3>1, <3>2
  <2> QED  BY Zenon, <2>1, <2>2
<1> QED  BY Zenon, <1>3 DEF DropsDead

\* A host call drops its Arc (handler.rs:28-64).
LEMMA HostCallDoneDInv ==
    ASSUME DInv, NEW r \in Requests, NEW panics, D!HostCallDone(r, panics)
    PROVE  DInv'
<1> USE DEF DInv
<1>1. /\ pc \in [Requests -> {"idle", "named", "running", "call", "dropRef", "dropOwn", "done"}]
      /\ ref \in [Requests -> Requests]
  BY Zenon DEF RequestType
<1>2. PICK o \in Requests : o = ref[r]
  BY Zenon, <1>1
<1>3. /\ pc[r] = "call" /\ ref' = ref /\ table' = table
      /\ pc' = [pc EXCEPT ![r] = IF strong[o] = 1 THEN "dropRef" ELSE "running"]
      /\ strong' = [strong EXCEPT ![o] = @ - 1]
  BY Zenon, <1>2 DEF D!HostCallDone, D!Release
<1>4. strong[o] > 0 /\ strong \in [Requests -> Nat]
  BY Zenon, <1>2, <1>3, CallAlive DEF ArcsCounted
<1>5. Registered' = Registered
  BY Zenon, <1>1, <1>3 DEF Registered
<1>6. RequestType'
  BY Zenon, <1>1, <1>3, <1>5 DEF RequestType
<1>7. Found'
  BY Zenon, <1>1, <1>3, <1>5 DEF Found
<1>8. /\ Callers(o)' = Callers(o) \ {r} /\ r \in Callers(o)
      /\ \A x \in Requests : x # o => Callers(x)' = Callers(x)
  BY Zenon, <1>1, <1>2, <1>3 DEF Callers
<1>9. \A x \in Requests : Owning(x)' <=> Owning(x)
  BY Zenon, <1>1, <1>3 DEF Owning
<1>10. ArcsCounted'
  <2>1. strong' \in [Requests -> Nat]
    BY <1>3, <1>4
  <2>2. ASSUME NEW x \in Requests
        PROVE  /\ IsFiniteSet(Callers(x)')
               /\ strong'[x] = Cardinality(Callers(x)') + (IF Owning(x)' THEN 1 ELSE 0)
    <3>1. CASE x = o
      <4>1. IsFiniteSet(Callers(o)) /\ Cardinality(Callers(o)) \in Nat
        BY Zenon, FS_CardinalityType DEF ArcsCounted
      <4>2. IsFiniteSet(Callers(o)') /\ Cardinality(Callers(o)') = Cardinality(Callers(o)) - 1
        BY <1>8, <4>1, FS_RemoveElement
      <4> QED  BY <1>3, <1>9, <3>1, <4>1, <4>2 DEF ArcsCounted
    <3>2. CASE x # o
      BY Zenon, <1>3, <1>8, <1>9, <3>2 DEF ArcsCounted
    <3> QED  BY Zenon, <3>1, <3>2
  <2> QED  BY Zenon, <2>1, <2>2 DEF ArcsCounted
<1>11. /\ D!Dropping(r) = {} /\ D!Dropping(r)' = IF strong[o] = 1 THEN {o} ELSE {}
       /\ \A s \in Requests : s # r => D!Dropping(s)' = D!Dropping(s) /\ D!Dropping(s) \subseteq Requests
  BY Zenon, <1>1, <1>2, <1>3 DEF D!Dropping
<1>12. DropsDead'
  BY Zenon, <1>3, <1>4, <1>11, LastArc
<1> QED  BY Zenon, <1>6, <1>7, <1>10, <1>12

\* The run is over and its thread drops the Arc it was given (asvisor-d
\* main.rs:41-43).
LEMMA RunDoneDInv == ASSUME DInv, NEW r \in Requests, D!RunDone(r) PROVE DInv'
<1> USE DEF DInv
<1>1. /\ pc \in [Requests -> {"idle", "named", "running", "call", "dropRef", "dropOwn", "done"}]
      /\ ref \in [Requests -> Requests]
  BY Zenon DEF RequestType
<1>2. /\ pc[r] = "running" /\ ref' = ref /\ table' = table
      /\ pc' = [pc EXCEPT ![r] = IF strong[r] = 1 THEN "dropOwn" ELSE "done"]
      /\ strong' = [strong EXCEPT ![r] = @ - 1]
  BY Zenon DEF D!RunDone, D!Release
<1>3. strong[r] > 0 /\ strong \in [Requests -> Nat]
  BY <1>2, FS_CardinalityType DEF ArcsCounted, Owning
<1>4. Registered' = Registered
  BY Zenon, <1>1, <1>2 DEF Registered
<1>5. RequestType'
  BY Zenon, <1>1, <1>2, <1>4 DEF RequestType
<1>6. Found'
  BY Zenon, <1>1, <1>2, <1>4 DEF Found
<1>7. \A o \in Requests : Callers(o)' = Callers(o)
  BY Zenon, <1>1, <1>2 DEF Callers
<1>8. Owning(r) /\ ~Owning(r)' /\ \A o \in Requests : o # r => (Owning(o)' <=> Owning(o))
  BY Zenon, <1>1, <1>2 DEF Owning
<1>9. ArcsCounted'
  <2>1. strong' \in [Requests -> Nat]
    BY <1>2, <1>3
  <2>2. ASSUME NEW o \in Requests
        PROVE  /\ IsFiniteSet(Callers(o)')
               /\ strong'[o] = Cardinality(Callers(o)') + (IF Owning(o)' THEN 1 ELSE 0)
    <3>1. CASE o = r
      <4>1. IsFiniteSet(Callers(r)) /\ Cardinality(Callers(r)) \in Nat
        BY Zenon, FS_CardinalityType DEF ArcsCounted
      <4> QED  BY <1>2, <1>3, <1>7, <1>8, <3>1, <4>1 DEF ArcsCounted
    <3>2. CASE o # r
      BY Zenon, <1>2, <1>7, <1>8, <3>2 DEF ArcsCounted
    <3> QED  BY <3>1, <3>2
  <2> QED  BY <2>1, <2>2 DEF ArcsCounted
<1>10. /\ D!Dropping(r) = {} /\ D!Dropping(r)' = IF strong[r] = 1 THEN {r} ELSE {}
       /\ \A s \in Requests : s # r => D!Dropping(s)' = D!Dropping(s) /\ D!Dropping(s) \subseteq Requests
  BY Zenon, <1>1, <1>2 DEF D!Dropping
<1>11. DropsDead'
  BY Zenon, <1>2, <1>3, <1>10, LastArc
<1> QED  BY <1>5, <1>6, <1>9, <1>11

\* Drop for Isolation removes an entry of the table, not always its own, or
\* panics (mod.rs:262-266).
LEMMA DropDInv == ASSUME DInv, NEW r \in Requests, D!DropRef(r) \/ D!DropOwn(r) PROVE DInv'
<1>1. PICK o \in Requests : D!DropIsol(r, o)
  BY Zenon DEF D!DropRef, D!DropOwn, DInv, RequestType
<1>2. table' \in Seq(Registered)
  BY Zenon, <1>1, RemoveKeeps DEF D!DropIsol, DInv, RequestType
<1>3. UNCHANGED <<ref, strong>>
  BY Zenon DEF D!DropRef, D!DropOwn
<1>4. CASE D!DropRef(r)
  BY Zenon, <1>2, <1>3, <1>4, QuietDInv DEF D!DropRef
<1>5. CASE D!DropOwn(r)
  BY Zenon, <1>2, <1>3, <1>5, QuietDInv DEF D!DropOwn
<1> QED  BY Zenon, <1>4, <1>5

\* A request is refused, or its isolation gets an id (asvisor-d main.rs:36-40,
\* utils.rs gen_new_id).
LEMMA ArriveDInv == ASSUME DInv, NEW r \in Requests, D!Refuse(r) \/ D!Arrive(r) PROVE DInv'
<1>1. UNCHANGED <<ref, strong>> /\ table' \in Seq(Registered)
  BY Zenon DEF D!Refuse, D!Arrive, D!tableVars, DInv, RequestType
<1>2. CASE D!Refuse(r)
  BY Zenon, <1>1, <1>2, QuietDInv DEF D!Refuse
<1>3. CASE D!Arrive(r)
  BY Zenon, <1>1, <1>3, QuietDInv DEF D!Arrive
<1> QED  BY Zenon, <1>2, <1>3

-----------------------------------------------------------------------------
(* The property *)

\* The inductive invariant of asvisor-d.
THEOREM DaemonInductive == D!Spec => []DInv
<1>1. D!Init => DInv
  BY InitDInv
<1>2. DInv /\ [D!Next]_(D!vars) => DInv'
  <2>1. DInv /\ UNCHANGED D!vars => DInv'
    BY Zenon, IdleDInv DEF D!vars, D!tableVars
  <2> QED  BY Zenon, <2>1, RegisterDInv, HostCallDInv, HostCallDoneDInv, RunDoneDInv, DropDInv, ArriveDInv
           DEF D!Next, D!Serve
<1> QED  BY <1>1, <1>2, PTL DEF D!Spec

\* For any number of requests in flight, no host call uses an isolation that is
\* being or has been dropped, and every isolation is dropped once
\* (mod.rs:44-56, 262-266).
THEOREM AliveInUse == D!Spec => []D!NoUseAfterDrop
<1>1. DInv => D!NoUseAfterDrop
  <2> SUFFICES ASSUME DInv, NEW r \in Requests, NEW s \in Requests
               PROVE  /\ pc[r] = "call" => strong[ref[r]] > 0 /\ ref[r] \notin D!Dropping(s)
                      /\ \A o \in D!Dropping(r) : strong[o] = 0 /\ (r # s => o \notin D!Dropping(s))
    BY Zenon DEF D!NoUseAfterDrop
  <2>1. ASSUME pc[r] = "call" PROVE strong[ref[r]] > 0 /\ ref[r] \notin D!Dropping(s)
    <3>1. strong[ref[r]] > 0
      BY Zenon, <2>1, CallAlive DEF DInv, RequestType
    <3>2. \A o \in D!Dropping(s) : strong[o] = 0
      BY Zenon DEF DInv, DropsDead
    <3> QED  BY <3>1, <3>2
  <2> QED  BY Zenon, <2>1 DEF DInv, DropsDead
<1> QED  BY <1>1, DaemonInductive, PTL
==============================================================================
