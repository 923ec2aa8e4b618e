------------------------------ MODULE HostCall -------------------------------
(***************************************************************************)
(* How a function reaches the library OS: the libos! macro and the host     *)
(* call cache of as_std (libos/mod.rs, libos/utils.rs, init_context.rs),    *)
(* find_host_call (isolation/handler.rs) and the loading of services on     *)
(* demand (isolation/mod.rs, service/loader.rs), within one isolation.      *)
(*                                                                          *)
(* as_std is linked into every library, so each library l has its own cache *)
(* and its own two spin locks: USER_HOST_CALL (uhc[l]) around the cache and *)
(* ISOLATION_CTX (ctx[l]).  The visor has one mutex (inner) around the      *)
(* isolation's modules.  A thread's stack is the libraries it is executing. *)
(***************************************************************************)
EXTENDS Naturals, Sequences

CONSTANTS Threads,    \* the threads of the running functions
          Apps,         \* the functions' libraries, loaded before they run
          Services,     \* the libOS services, loaded on demand
          Contextless,  \* services without an IsolationContext (SHOULD_NOT_SET_CONTEXT)
          Broken,       \* services load() fails for
          Calls,        \* host call ids
          Owner,        \* [Calls -> Services \cup {Visor}]: belong_to
          SpawnCalls,   \* the visor's calls that load their caller's service again
          Issues,       \* [Apps \cup Services -> SUBSET Calls]: the calls of a library's code
          Entry,        \* [Threads -> Apps]
          Visor, Nobody, \* not a service; no thread
          MaxCalls       \* bound: host calls of one thread

Libs == Apps \cup Services

ASSUME HostCallAssumption ==
    /\ Apps \cap Services = {}
    /\ Visor \notin Services
    /\ Nobody \notin Threads
    /\ Contextless \subseteq Services /\ Broken \subseteq Services
    /\ Owner \in [Calls -> Services \cup {Visor}]
    /\ SpawnCalls \subseteq {c \in Calls : Owner[c] = Visor}
    /\ Issues \in [Libs -> SUBSET Calls]
    /\ \A s \in Contextless : Issues[s] = {}
    /\ Entry \in [Threads -> Apps]
    /\ MaxCalls \in Nat

VARIABLES pc,         \* [Threads -> ...]
          stack,        \* [Threads -> Seq(Libs)]
          call,         \* [Threads -> Calls \cup {Visor}]: the host call being made
          budget,       \* [Threads -> 0..MaxCalls]
          uhc,          \* [Libs -> Threads \cup {Nobody}]: holder of USER_HOST_CALL
          ctx,          \* [Libs -> Threads \cup {Nobody}]: holder of ISOLATION_CTX
          inner,        \* holder of Isolation::inner
          cache,        \* [Libs -> SUBSET Calls]: the addresses found so far
          modules,      \* services in IsolationInner.modules
          ready,        \* libraries whose context has been set
          loads,        \* [Services -> Nat]: how often dlmopen loaded the service
          crashed       \* a panic left find_host_call

locks == <<uhc, ctx, inner>>
vars == <<pc, stack, call, budget, locks, cache, modules, ready, loads, crashed>>

Top(t) == stack[t][Len(stack[t])]

Init ==
    /\ pc = [t \in Threads |-> "run"]
    /\ stack = [t \in Threads |-> <<Entry[t]>>]
    /\ call = [t \in Threads |-> Visor]
    /\ budget = [t \in Threads |-> MaxCalls]
    /\ uhc = [l \in Libs |-> Nobody]
    /\ ctx = [l \in Libs |-> Nobody]
    /\ inner = Nobody
    /\ cache = [l \in Libs |-> {}]
    /\ modules = {}
    /\ ready = Apps
    /\ loads = [s \in Services |-> 0]
    /\ crashed = FALSE

\* What follows a resolved address: the service's code, or a visor handler,
\* whose argument isolation_ctx().isol_id is evaluated first.
Enter(t, c) ==
    IF Owner[c] = Visor
    THEN pc' = [pc EXCEPT ![t] = "arg"] /\ UNCHANGED stack
    ELSE /\ pc' = [pc EXCEPT ![t] = "run"]
         /\ stack' = [stack EXCEPT ![t] = Append(@, Owner[c])]

\* libos!: lock the library's cache and look the call up.  A hit releases the
\* lock before the call is made.
Bind(t, c) ==
    /\ pc[t] = "run" /\ c \in Issues[Top(t)] /\ budget[t] > 0
    /\ uhc[Top(t)] = Nobody
    /\ call' = [call EXCEPT ![t] = c]
    /\ budget' = [budget EXCEPT ![t] = @ - 1]
    /\ IF c \in cache[Top(t)]
       THEN Enter(t, c) /\ UNCHANGED uhc
       ELSE /\ uhc' = [uhc EXCEPT ![Top(t)] = t]
            /\ pc' = [pc EXCEPT ![t] = "bind"]
            /\ UNCHANGED stack
    /\ UNCHANGED <<ctx, inner, cache, modules, ready, loads, crashed>>

\* get_or_find on a miss: read the handler from the context, then lock the
\* context again for isol_id; that guard lives until find_host_call is back.
LockCtx(t) ==
    /\ pc[t] = "bind"
    /\ ctx[Top(t)] = Nobody
    /\ ctx' = [ctx EXCEPT ![Top(t)] = t]
    /\ pc' = [pc EXCEPT ![t] = IF Owner[call[t]] = Visor THEN "found" ELSE "find"]
    /\ UNCHANGED <<stack, call, budget, uhc, inner, cache, modules, ready, loads, crashed>>

\* Mutant: the table of modules is looked up without its lock.
LookUpUnlocked(t) ==
    /\ pc[t] = "find"
    /\ pc' = [pc EXCEPT ![t] = IF Owner[call[t]] \in modules THEN "found" ELSE "load"]
    /\ UNCHANGED <<stack, call, budget, locks, cache, modules, ready, loads, crashed>>

\* Mutant: the early return for a loaded service keeps the lock.
LookUpKeepLock(t) ==
    /\ pc[t] = "find"
    /\ inner = Nobody
    /\ inner' = t
    /\ pc' = [pc EXCEPT ![t] = IF Owner[call[t]] \in modules THEN "found" ELSE "load"]
    /\ UNCHANGED <<stack, call, budget, uhc, ctx, cache, modules, ready, loads, crashed>>

\* service_or_load: lock the modules; a loaded service is returned at once.
LookUp(t) ==
    /\ pc[t] = "find"
    /\ inner = Nobody
    /\ IF Owner[call[t]] \in modules
       THEN pc' = [pc EXCEPT ![t] = "found"] /\ UNCHANGED inner
       ELSE pc' = [pc EXCEPT ![t] = "load"] /\ inner' = t
    /\ UNCHANGED <<stack, call, budget, uhc, ctx, cache, modules, ready, loads, crashed>>

\* ServiceLoader::load: dlmopen the library, or fail, which find_host_call
\* turns into a panic; the model stops there.
Load(t) ==
    /\ pc[t] = "load"
    /\ IF Owner[call[t]] \in Broken
       THEN /\ crashed' = TRUE
            /\ inner' = Nobody
            /\ UNCHANGED <<pc, loads>>
       ELSE /\ loads' = [loads EXCEPT ![Owner[call[t]]] = @ + 1]
            /\ pc' = [pc EXCEPT ![t] = "init"]
            /\ UNCHANGED <<inner, crashed>>
    /\ UNCHANGED <<stack, call, budget, uhc, ctx, cache, modules, ready>>

\* Mutant: the service is published without its context.
InitServiceLate(t) ==
    /\ pc[t] = "init"
    /\ modules' = modules \cup {Owner[call[t]]}
    /\ inner' = Nobody
    /\ pc' = [pc EXCEPT ![t] = "found"]
    /\ UNCHANGED <<stack, call, budget, uhc, ctx, cache, ready, loads, crashed>>

\* WithLibOSService::init sets and checks the new library's context, through
\* that library's ISOLATION_CTX; then the service is inserted and the lock
\* released.
InitService(t) ==
    LET s == Owner[call[t]] IN
    /\ pc[t] = "init"
    /\ s \notin Contextless => ctx[s] = Nobody
    /\ ready' = IF s \in Contextless THEN ready ELSE ready \cup {s}
    /\ modules' = modules \cup {s}
    /\ inner' = Nobody
    /\ pc' = [pc EXCEPT ![t] = "found"]
    /\ UNCHANGED <<stack, call, budget, uhc, ctx, cache, loads, crashed>>

\* find_host_call is back: the guard of the context and, the address stored,
\* that of the cache are dropped and the call is made.
Store(t) ==
    /\ pc[t] = "found"
    /\ cache' = [cache EXCEPT ![Top(t)] = @ \cup {call[t]}]
    /\ ctx' = [ctx EXCEPT ![Top(t)] = Nobody]
    /\ uhc' = [uhc EXCEPT ![Top(t)] = Nobody]
    /\ Enter(t, call[t])
    /\ UNCHANGED <<call, budget, inner, modules, ready, loads, crashed>>

\* A visor handler's argument: the context stays locked during the handler.
LockArg(t) ==
    /\ pc[t] = "arg"
    /\ ctx[Top(t)] = Nobody
    /\ ctx' = [ctx EXCEPT ![Top(t)] = t]
    /\ pc' = [pc EXCEPT ![t] = "handler"]
    /\ UNCHANGED <<stack, call, budget, uhc, inner, cache, modules, ready, loads, crashed>>

\* metric_handler and fs_image_handler take no lock modelled here;
\* spwan_fault_thread_handler calls service_or_load for its caller, which is
\* loaded: it only waits for the modules' lock.
Handler(t) ==
    /\ pc[t] = "handler"
    /\ call[t] \in SpawnCalls => inner = Nobody
    /\ ctx' = [ctx EXCEPT ![Top(t)] = Nobody]
    /\ pc' = [pc EXCEPT ![t] = "run"]
    /\ UNCHANGED <<stack, call, budget, uhc, inner, cache, modules, ready, loads, crashed>>

\* The code of the innermost library returns; the function's own return ends
\* the thread.
Return(t) ==
    /\ pc[t] = "run"
    /\ IF Len(stack[t]) > 1
       THEN stack' = [stack EXCEPT ![t] = SubSeq(@, 1, Len(@) - 1)] /\ UNCHANGED pc
       ELSE pc' = [pc EXCEPT ![t] = "done"] /\ UNCHANGED stack
    /\ UNCHANGED <<call, budget, locks, cache, modules, ready, loads, crashed>>

Step(t) ==
    /\ ~crashed
    /\ \/ \E c \in Calls : Bind(t, c)
       \/ LockCtx(t) \/ LookUp(t) \/ Load(t) \/ InitService(t) \/ Store(t)
       \/ LockArg(t) \/ Handler(t) \/ Return(t)

Next == \E t \in Threads : Step(t)

Spec == Init /\ [][Next]_vars

\* Every thread is scheduled; a spin lock or mutex that stays free is taken.
FairSpec == Spec /\ \A t \in Threads : WF_vars(Step(t))

-----------------------------------------------------------------------------
(* Properties *)

\* A service is loaded once for the isolation, however many threads need it
\* first at the same time (mod.rs:144-159): its state is shared by all.
LoadOnce == \A s \in Services : loads[s] <= 1

\* No thread executes, or has cached an address of, a service that is not in
\* the table or, if it uses the context, whose context is not set: isolation_ctx
\* never panics with "uninit" (init_context.rs:18-24, elf_service.rs:399-455).
InitBeforeUse ==
    /\ \A t \in Threads : \A i \in 1..Len(stack[t]) :
          stack[t][i] \in Services =>
             stack[t][i] \in modules /\ stack[t][i] \in ready \cup Contextless
    /\ \A l \in Libs : \A c \in cache[l] : Owner[c] \in modules \cup {Visor}

\* No schedule leaves the threads waiting for each other's locks: every thread
\* finishes its calls, unless a service cannot be loaded.
AllReturn == <>(crashed \/ \A t \in Threads : pc[t] = "done")
==============================================================================
