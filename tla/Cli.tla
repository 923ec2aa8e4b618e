--------------------------------- MODULE Cli ---------------------------------
(***************************************************************************)
(* asvisor (bins/asvisor/src/main.rs): main builds one isolation per        *)
(* --files argument, runs them (on one blocking thread each with the        *)
(* feature "multi_workflow", on its own thread without it), waits for them  *)
(* in order and exits, dropping the vector of isolations front to back.     *)
(* The isolations are 1..files.                                             *)
(***************************************************************************)
EXTENDS IsolTable

CONSTANTS MaxFiles,   \* bound on the number of --files
          Builds        \* the builds and command lines under study: the cargo feature
                        \* "multi_workflow", debug_assertions, and --preload

ASSUME CliAssumption ==
    /\ MaxFiles \in Nat
    /\ Isols = 1..MaxFiles
    /\ Builds \subseteq [multi : BOOLEAN, debug : BOOLEAN, preload : BOOLEAN]

VARIABLES build,      \* the build and its options
          files,        \* the number of isolations to build
          pc,           \* where main is
          k,            \* main's loop index
          task,         \* [Isols -> ...]: the run of each isolation
          ref,          \* [Isols -> Isols]: what the pending host call's get_isol returned
          unwinding     \* main is unwinding from a panic

vars == <<tableVars, build, files, pc, k, task, ref, unwinding>>

\* The Arcs of its isolation a thread holds inside Isolation::run: the one
\* get_isol returned and, with multi_workflow, the one moved into the thread.
ThreadArcs == IF build.multi THEN 2 ELSE 1

Init ==
    /\ TableInit
    /\ build \in Builds
    /\ files \in Isols
    /\ pc = "build"
    /\ k = 1
    /\ task = [o \in Isols |-> "none"]
    /\ ref = [o \in Isols |-> o]
    /\ unwinding = FALSE

-----------------------------------------------------------------------------
(* main *)

\* build_all_isol: Isolation::new for the next configuration.  No other thread
\* exists yet, so the id and the table entry are taken together.
Build ==
    /\ pc = "build" /\ k <= files
    /\ GenNewId(k) /\ Push(k)
    /\ k' = k + 1
    /\ UNCHANGED <<poisoned, build, files, pc, task, ref, unwinding>>

\* Preloading, when asked for, has succeeded or panics.
Built ==
    /\ pc = "build" /\ k > files
    /\ \/ pc' = "start" /\ UNCHANGED unwinding
       \/ build.preload /\ pc' = "exit" /\ unwinding' = TRUE
    /\ k' = 1
    /\ UNCHANGED <<tableVars, build, files, task, ref>>

\* The next workflow is given a thread with an Arc of its own; without
\* multi_workflow main runs it itself, and a second configuration is refused
\* with a panic.
StartTask ==
    /\ pc = "start" /\ k <= files
    /\ IF ~build.multi /\ files > 1
       THEN pc' = "exit" /\ unwinding' = TRUE /\ k' = 1 /\ UNCHANGED <<strong, task>>
       ELSE /\ task' = [task EXCEPT ![k] = "ready"]
            /\ IF build.multi THEN Acquire(k) ELSE UNCHANGED strong
            /\ k' = k + 1
            /\ UNCHANGED <<pc, unwinding>>
    /\ UNCHANGED <<idKeeper, table, poisoned, id, build, files, ref>>

Started ==
    /\ pc = "start" /\ k > files
    /\ pc' = "await"
    /\ k' = 1
    /\ UNCHANGED <<tableVars, build, files, task, ref, unwinding>>

\* Await the next task; a panic of the task is rethrown by expect("join failed"),
\* and the runtime's destructor waits for the tasks still running.
Await ==
    /\ pc = "await" /\ k <= files
    /\ \/ /\ task[k] = "done"
          /\ k' = k + 1
          /\ UNCHANGED <<pc, unwinding>>
       \/ /\ task[k] = "panicked"
          /\ \A o \in 1..files : task[o] \in {"done", "panicked"}
          /\ pc' = "exit" /\ k' = 1 /\ unwinding' = TRUE
    /\ UNCHANGED <<tableVars, build, files, task, ref>>

Awaited ==
    /\ pc = "await" /\ k > files
    /\ pc' = "exit"
    /\ k' = 1
    /\ UNCHANGED <<tableVars, build, files, task, ref, unwinding>>

\* Mutant: the index is not shifted by one from the id.
DropNextOffByOne ==
    /\ pc = "exit" /\ k <= files
    /\ Release(k)
    /\ IF id[k] < Len(table)
       THEN Remove(k) /\ k' = k + 1 /\ UNCHANGED <<poisoned, pc, unwinding>>
       ELSE /\ poisoned' = TRUE
            /\ pc' = IF unwinding THEN "aborted" ELSE "exit"
            /\ k' = k + 1 /\ unwinding' = TRUE /\ UNCHANGED table
    /\ UNCHANGED <<idKeeper, id, build, files, task, ref>>

\* The vector of isolations drops its next element, the last Arc of it: Drop
\* removes a table entry.  A failing remove panics and poisons the table; the
\* remaining elements are still dropped; a second panic aborts the process.
DropNext ==
    /\ pc = "exit" /\ k <= files
    /\ Release(k)
    /\ IF Removable(k)
       THEN Remove(k) /\ k' = k + 1 /\ UNCHANGED <<poisoned, pc, unwinding>>
       ELSE /\ poisoned' = TRUE
            /\ pc' = IF unwinding THEN "aborted" ELSE "exit"
            /\ k' = k + 1 /\ unwinding' = TRUE /\ UNCHANGED table
    /\ UNCHANGED <<idKeeper, id, build, files, task, ref>>

Exit ==
    /\ pc = "exit" /\ k > files
    /\ pc' = IF unwinding THEN "panicked" ELSE "exited"
    /\ UNCHANGED <<tableVars, build, files, k, task, ref, unwinding>>

Main ==
    \/ Build \/ Built \/ StartTask \/ Started \/ Await \/ Awaited \/ DropNext \/ Exit

-----------------------------------------------------------------------------
(* msvisor_start, on the thread of isolation o *)

\* get_isol(isol.id).expect("isol don't exist?")
Resolve(o) ==
    /\ task[o] = "ready"
    /\ IF Resolves(id[o])
       THEN task' = [task EXCEPT ![o] = "running"] /\ Acquire(Target(id[o]))
       ELSE /\ task' = [task EXCEPT ![o] = "panicked"]
            /\ IF build.multi THEN Release(o) ELSE UNCHANGED strong
    /\ UNCHANGED <<idKeeper, table, poisoned, id, build, files, pc, k, ref, unwinding>>

\* A function's host call: find_host_call resolves the isolation again.
HostCall(o) ==
    /\ task[o] = "running"
    /\ IF Resolves(id[o])
       THEN /\ task' = [task EXCEPT ![o] = "call"]
            /\ ref' = [ref EXCEPT ![o] = Target(id[o])]
            /\ Acquire(Target(id[o]))
       ELSE task' = [task EXCEPT ![o] = "failing"] /\ UNCHANGED <<ref, strong>>
    /\ UNCHANGED <<idKeeper, table, poisoned, id, build, files, pc, k, unwinding>>

\* Mutant: the host call leaks its Arc.
HostCallDoneLeak(o, panics) ==
    /\ task[o] = "call"
    /\ task' = [task EXCEPT ![o] = IF panics THEN "failing" ELSE "running"]
    /\ UNCHANGED <<tableVars, build, files, pc, k, ref, unwinding>>

\* The host call returns or panics, and drops its Arc.
HostCallDone(o, panics) ==
    /\ task[o] = "call"
    /\ Release(ref[o])
    /\ task' = [task EXCEPT ![o] = IF panics THEN "failing" ELSE "running"]
    /\ UNCHANGED <<idKeeper, table, poisoned, id, build, files, pc, k, ref, unwinding>>

\* Isolation::run is over and the thread's Arcs are dropped.  An Err is
\* logged, and in a debug build also panics.
RunDone(o) ==
    /\ \/ task[o] = "running" /\ task' = [task EXCEPT ![o] = "done"]
       \/ task[o] = "running" /\ build.debug /\ task' = [task EXCEPT ![o] = "panicked"]
       \/ task[o] = "failing" /\ task' = [task EXCEPT ![o] = "panicked"]
    /\ strong' = [strong EXCEPT ![o] = @ - ThreadArcs]
    /\ UNCHANGED <<idKeeper, table, poisoned, id, build, files, pc, k, ref, unwinding>>

TaskStep(o) ==
    \/ Resolve(o) \/ HostCall(o) \/ RunDone(o)
    \/ \E panics \in BOOLEAN : HostCallDone(o, panics)

Next == Main \/ \E o \in 1..files : TaskStep(o)

\* Threads are scheduled, and functions end.
Fairness ==
    /\ WF_vars(Main)
    /\ \A o \in Isols :
          /\ WF_vars(o <= files /\ TaskStep(o))
          /\ SF_vars(o <= files /\ RunDone(o))

Spec == Init /\ [][Next]_vars
FairSpec == Spec /\ Fairness

-----------------------------------------------------------------------------
(* Properties *)

TypeOK ==
    /\ idKeeper \in Nat
    /\ table \in Seq(Isols)
    /\ poisoned \in BOOLEAN
    /\ id \in [Isols -> Nat]
    /\ strong \in [Isols -> Nat]
    /\ build \in Builds
    /\ files \in Isols
    /\ pc \in {"build", "start", "await", "exit", "exited", "panicked", "aborted"}
    /\ k \in 1..(files + 1)
    /\ task \in [Isols -> {"none", "ready", "running", "call", "failing", "done", "panicked"}]
    /\ ref \in [Isols -> Isols]
    /\ unwinding \in BOOLEAN

Active == {"ready", "running", "call"}

\* While workflows run, every handle given to a function resolves, and to the
\* isolation it was made for: no task fails for want of its isolation
\* (mod.rs:44-56, main.rs:87, handler.rs:30).
HandlesResolve ==
    \A o \in Isols : task[o] \in Active =>
        /\ Resolves(id[o])
        /\ Target(id[o]) = o
        /\ task[o] = "call" => ref[o] = o

\* When main is about to exit nobody else holds an isolation: dropping the
\* vector really drops each of them (the check of lib.rs:36-41).
RcCheck ==
    pc = "exit" => \A o \in 1..files : strong[o] = IF o < k THEN 0 ELSE 1

\* With one workflow, the exit itself never panics (mod.rs:262-266): main
\* ends with a panic only if it was unwinding before, and leaves the table empty.
SingleExit ==
    files = 1 => ~poisoned /\ pc # "aborted" /\ (pc \in {"exited", "panicked"} => table = <<>>)

==============================================================================
