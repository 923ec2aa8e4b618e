------------------------------ MODULE Workflow -------------------------------
(***************************************************************************)
(* Isolation::run (libasvisor/src/isolation/mod.rs): the thread that runs   *)
(* one workflow, and the threads of its functions.                          *)
(*                                                                          *)
(* A workflow is a sequence of stages.  With "groups" in its configuration  *)
(* a stage is a group: the visor loads its functions, spawns one scoped     *)
(* thread for each and joins them in order.  Without groups every function  *)
(* of "apps" is a stage of its own and runs on the visor's thread.          *)
(* A task <<k, j>> is the j-th function of the k-th stage.                  *)
(***************************************************************************)
EXTENDS Naturals, Sequences

CONSTANTS Names,      \* service names
          Libc,         \* the name "libc"
          Configs      \* the configurations under study, each with the cargo features
                        \* of the build: among "namespace" and "enable_mpk"

ASSUME ConfigsAssumption ==
    /\ Configs \subseteq [apps : Seq(Names), groups : Seq(Seq(Names)), services : SUBSET Names,
                         features : SUBSET {"namespace", "enable_mpk"}]
    /\ Libc \in Names

VARIABLES conf,       \* the IsolationConfig
          pc,           \* where the visor's thread is in run()
          stage,        \* the group (or app) it is at
          idx,          \* its position in the group
          ret,          \* what the closure given to thread::scope returned
          modules,      \* IsolationInner.modules
          thr           \* [Tasks(conf) -> Status]: the functions' threads

vars == <<conf, pc, stage, idx, ret, modules, thr>>

Status == {"idle", "running", "ok", "err", "panic"}
Finished == {"ok", "err", "panic"}
Final == {"ok", "err", "panicked"}

\* The stages of a configuration: its groups, or its apps one by one.
Stages(c) ==
    IF c.groups = <<>> THEN [k \in 1..Len(c.apps) |-> <<c.apps[k]>>] ELSE c.groups

Tasks(c) ==
    UNION {{k} \X (1..Len(Stages(c)[k])) : k \in 1..Len(Stages(c))}

\* ServiceLoader::register: what load() can find.
Registered(c) == {c.apps[k] : k \in 1..Len(c.apps)} \cup c.services

\* The functions of the current stage.
Group == Stages(conf)[stage]

Init ==
    /\ conf \in Configs
    /\ pc = "start"
    /\ stage = 1
    /\ idx = 1
    /\ ret = "ok"
    /\ modules = {}
    /\ thr = [t \in Tasks(conf) |-> "idle"]

-----------------------------------------------------------------------------
(* Loading *)

Namespace == "namespace" \in conf.features
Mpk == "enable_mpk" \in conf.features

\* service_or_load and app_or_load: succeed at once for a module in the table;
\* otherwise load it, which fails for an unregistered name and may fail for any.
\* With MPK a failing pkey_mprotect is reported after the module was inserted.
OrLoad(n, ok) ==
    \/ n \in modules /\ ok /\ UNCHANGED modules
    \/ n \notin modules /\ n \in Registered(conf) /\ ok /\ modules' = modules \cup {n}
    \/ n \notin modules /\ ~ok /\ UNCHANGED modules
    \/ n \notin modules /\ n \in Registered(conf) /\ Mpk /\ ~ok /\ modules' = modules \cup {n}

\* run(), up to the choice between groups and sequence.
Start ==
    /\ pc = "start"
    /\ \/ Mpk /\ pc' = "err" /\ UNCHANGED modules
       \/ ~Namespace /\ pc' = "stage" /\ UNCHANGED modules
       \/ /\ Namespace
          /\ \E ok \in BOOLEAN : OrLoad(Libc, ok) /\ pc' = IF ok THEN "stage" ELSE "err"
    /\ UNCHANGED <<conf, stage, idx, ret, thr>>

\* Mutant: the loop stops one group early.
NextStageOffByOne ==
    /\ pc = "stage"
    /\ pc' = IF stage < Len(Stages(conf)) THEN "load" ELSE "ok"
    /\ idx' = 1
    /\ UNCHANGED <<conf, stage, ret, modules, thr>>

\* The head of the loop over the groups (or apps), and run()'s Ok.
NextStage ==
    /\ pc = "stage"
    /\ pc' = IF stage <= Len(Stages(conf)) THEN "load" ELSE "ok"
    /\ idx' = 1
    /\ UNCHANGED <<conf, stage, ret, modules, thr>>

\* app_or_load for the next function of the stage; the first failure ends run().
LoadApp ==
    /\ pc = "load"
    /\ idx <= Len(Group)
    /\ \E ok \in BOOLEAN :
          /\ OrLoad(Group[idx], ok)
          /\ pc' = IF ok THEN "load" ELSE "err"
    /\ idx' = idx + 1
    /\ UNCHANGED <<conf, stage, ret, thr>>

\* All functions of the stage are loaded.
Loaded ==
    /\ pc = "load"
    /\ idx > Len(Group)
    /\ pc' = IF conf.groups = <<>> THEN "inline" ELSE "spawn"
    /\ idx' = 1
    /\ UNCHANGED <<conf, stage, ret, modules, thr>>

-----------------------------------------------------------------------------
(* run_as_sequence *)

\* app.run on the visor's own thread.
CallApp ==
    /\ pc = "inline"
    /\ thr[<<stage, 1>>] = "idle"
    /\ thr' = [thr EXCEPT ![<<stage, 1>>] = "running"]
    /\ UNCHANGED <<conf, pc, stage, idx, ret, modules>>

AppReturned ==
    /\ pc = "inline"
    /\ \/ thr[<<stage, 1>>] = "ok" /\ pc' = "stage" /\ stage' = stage + 1
       \/ thr[<<stage, 1>>] = "err" /\ pc' = "err" /\ stage' = stage
       \/ thr[<<stage, 1>>] = "panic" /\ pc' = "panicked" /\ stage' = stage
    /\ UNCHANGED <<conf, idx, ret, modules, thr>>

-----------------------------------------------------------------------------
(* run_group_in_parallel *)

\* Builder::spawn_scoped for the next function.  When it fails the closure
\* returns the error: no handle has been joined.
SpawnApp ==
    /\ pc = "spawn"
    /\ idx <= Len(Group)
    /\ \/ /\ thr' = [thr EXCEPT ![<<stage, idx>>] = "running"]
          /\ idx' = idx + 1
          /\ UNCHANGED <<pc, ret>>
       \/ /\ pc' = "scope"
          /\ ret' = "err"
          /\ idx' = 1
          /\ UNCHANGED thr
    /\ UNCHANGED <<conf, stage, modules>>

Spawned ==
    /\ pc = "spawn"
    /\ idx > Len(Group)
    /\ pc' = "join"
    /\ idx' = 1
    /\ UNCHANGED <<conf, stage, ret, modules, thr>>

\* Mutant: the error a joined thread returned is dropped.
JoinAppIgnoreErr ==
    /\ pc = "join"
    /\ idx <= Len(Group)
    /\ \/ thr[<<stage, idx>>] \in {"ok", "err"} /\ UNCHANGED <<pc, ret>>
       \/ thr[<<stage, idx>>] = "panic" /\ pc' = "scope" /\ ret' = "panicked"
    /\ idx' = idx + 1
    /\ UNCHANGED <<conf, stage, modules, thr>>

\* Mutant: a thread that panicked never answers its join.
JoinAppNoPanic ==
    /\ pc = "join"
    /\ idx <= Len(Group)
    /\ \/ thr[<<stage, idx>>] = "ok" /\ UNCHANGED <<pc, ret>>
       \/ thr[<<stage, idx>>] = "err" /\ pc' = "scope" /\ ret' = "err"
    /\ idx' = idx + 1
    /\ UNCHANGED <<conf, stage, modules, thr>>

\* Join the next handle.  An Err ends the loop with that error; a panic of the
\* thread makes expect("join failed?") panic in the closure.
JoinApp ==
    /\ pc = "join"
    /\ idx <= Len(Group)
    /\ \/ thr[<<stage, idx>>] = "ok" /\ UNCHANGED <<pc, ret>>
       \/ thr[<<stage, idx>>] = "err" /\ pc' = "scope" /\ ret' = "err"
       \/ thr[<<stage, idx>>] = "panic" /\ pc' = "scope" /\ ret' = "panicked"
    /\ idx' = idx + 1
    /\ UNCHANGED <<conf, stage, modules, thr>>

Joined ==
    /\ pc = "join"
    /\ idx > Len(Group)
    /\ pc' = "scope"
    /\ ret' = "ok"
    /\ UNCHANGED <<conf, stage, idx, modules, thr>>

\* Mutant: the threads are waited for, but a panic nobody joined is lost.
ScopeEndLostPanic ==
    /\ pc = "scope"
    /\ \A j \in 1..Len(Group) : thr[<<stage, j>>] # "running"
    /\ pc' = CASE ret = "ok" -> "stage" [] ret = "err" -> "err" [] OTHER -> "panicked"
    /\ stage' = IF ret = "ok" THEN stage + 1 ELSE stage
    /\ UNCHANGED <<conf, idx, ret, modules, thr>>

\* The end of thread::scope (standard library): wait for every thread of the
\* scope, rethrow the closure's panic, panic if a thread whose handle was not
\* joined has panicked, else return what the closure returned.
ScopeEnd ==
    /\ pc = "scope"
    /\ \A j \in 1..Len(Group) : thr[<<stage, j>>] # "running"
    /\ \/ /\ ret = "panicked" \/ \E j \in idx..Len(Group) : thr[<<stage, j>>] = "panic"
          /\ pc' = "panicked"
          /\ stage' = stage
       \/ /\ ret # "panicked" /\ \A j \in idx..Len(Group) : thr[<<stage, j>>] # "panic"
          /\ pc' = IF ret = "ok" THEN "stage" ELSE "err"
          /\ stage' = IF ret = "ok" THEN stage + 1 ELSE stage
    /\ UNCHANGED <<conf, idx, ret, modules, thr>>

-----------------------------------------------------------------------------
\* ElfService::run on the task's thread: the function returns Ok or Err, or the
\* thread panics (writing the arguments, or in the function).
AppEnd(t, o) ==
    /\ thr[t] = "running"
    /\ thr' = [thr EXCEPT ![t] = o]
    /\ UNCHANGED <<conf, pc, stage, idx, ret, modules>>

Visor ==
    \/ Start \/ NextStage \/ LoadApp \/ Loaded
    \/ CallApp \/ AppReturned
    \/ SpawnApp \/ Spawned \/ JoinApp \/ Joined \/ ScopeEnd

Next ==
    \/ Visor
    \/ \E t \in Tasks(conf), o \in Finished : AppEnd(t, o)

Spec == Init /\ [][Next]_vars

\* The operating system runs every thread, and every function ends.
Fairness ==
    /\ WF_vars(Visor)
    /\ WF_vars(\E t \in Tasks(conf), o \in Finished : AppEnd(t, o))

FairSpec == Spec /\ Fairness

-----------------------------------------------------------------------------
(* Properties *)

TypeOK ==
    /\ conf \in Configs
    /\ pc \in {"start", "stage", "load", "inline", "spawn", "join", "scope"} \cup Final
    /\ stage \in Nat \ {0}
    /\ idx \in Nat \ {0}
    /\ ret \in Final
    /\ modules \subseteq Registered(conf)
    /\ thr \in [Tasks(conf) -> Status]

\* Stages run one after the other: a function has a thread only if every
\* function of every earlier stage has returned Ok (mod.rs:250-253, 217-220).
StageBarrier ==
    \A t, u \in Tasks(conf) : thr[t] # "idle" /\ u[1] < t[1] => thr[u] = "ok"

\* When run() has returned or panicked no thread of its functions is left: the
\* caller may drop the isolation and unload its libraries (mod.rs:205-223).
NoOrphan ==
    pc \in Final => \A t \in Tasks(conf) : thr[t] # "running"

\* run() leaves no thread behind, and what it gives back is what happened: Ok only if every function of every
\* stage returned Ok, a panic exactly when some function panicked, even one
\* whose handle is never joined because an earlier one failed (mod.rs:217-220).
OutcomeFaithful ==
    /\ NoOrphan
    /\ pc = "ok" => \A t \in Tasks(conf) : thr[t] = "ok"
    /\ pc = "err" => \A t \in Tasks(conf) : thr[t] # "panic"
    /\ pc = "panicked" => \E t \in Tasks(conf) : thr[t] = "panic"

\* A function only runs from a loaded module (mod.rs:200-203, 188-190).
RunsLoaded ==
    \A t \in Tasks(conf) : thr[t] # "idle" => Stages(conf)[t[1]][t[2]] \in modules

\* run() ends, whatever fails, provided the functions do (mod.rs:226-259).
Terminates == <>(pc \in Final)

\* The abstract run a state of Isolation::run stands for.
Staged == INSTANCE StagedRun WITH
    Plans <- {Tasks(c) : c \in Configs},
    tasks <- Tasks(conf),
    status <- thr,
    outcome <- IF pc \in Final THEN pc ELSE "none"

\* Isolation::run does what StagedRun promises: it maps step by step to a run of
\* stages (mod.rs:226-259).
ImplementsStaged == Staged!Spec
==============================================================================
