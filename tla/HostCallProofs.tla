---------------------------- MODULE HostCallProofs ---------------------------
(***************************************************************************)
(* A service is loaded once and initialised before it is used, for any      *)
(* number of threads, libraries and services.                               *)
(***************************************************************************)
EXTENDS HostCall, TLAPS

Places == {"run", "bind", "find", "load", "init", "found", "arg", "handler", "done"}

Types ==
    /\ pc \in [Threads -> Places]
    /\ stack \in [Threads -> Seq(Libs)]
    /\ \A t \in Threads : Len(stack[t]) >= 1
    /\ call \in [Threads -> Calls \cup {Visor}]
    /\ cache \in [Libs -> SUBSET Calls]
    /\ loads \in [Services -> Nat]
    /\ modules \subseteq Services

\* A thread that resolves a call has one, and a service only where it loads.
Resolving ==
    \A t \in Threads :
        /\ pc[t] \in {"bind", "find", "load", "init", "found"} => call[t] \in Calls
        /\ pc[t] \in {"find", "load", "init"} => Owner[call[t]] \in Services

\* Who loads holds the lock of the modules (mod.rs:145) until it has inserted
\* the service, which is not there before.
Holding ==
    ~crashed => \A t \in Threads : pc[t] \in {"load", "init"} =>
        inner = t /\ Owner[call[t]] \notin modules

\* A service is loaded when it is in the table or about to be, and only then.
Initialising(s) == \E t \in Threads : pc[t] = "init" /\ Owner[call[t]] = s
Counted ==
    \A s \in Services :
        loads[s] <= 1 /\ (s \notin modules /\ ~Initialising(s) => loads[s] = 0)

\* An address is given out only for a service of the table.
Found == \A t \in Threads : pc[t] = "found" => Owner[call[t]] \in modules \cup {Visor}

\* The table holds initialised services only.
ModulesReady == modules \subseteq ready \cup Contextless

\* The two parts of InitBeforeUse that steps disturb.
StacksLoaded ==
    \A t \in Threads : \A i \in 1..Len(stack[t]) : stack[t][i] \in Services => stack[t][i] \in modules
CachesLoaded == \A l \in Libs : \A c \in cache[l] : Owner[c] \in modules \cup {Visor}

IInv ==
    /\ Types /\ Resolving /\ Holding /\ Counted /\ Found /\ ModulesReady
    /\ StacksLoaded /\ CachesLoaded

\* Nothing is loaded and every thread is in its function.
LEMMA InitIInv == Init => IInv
<1> SUFFICES ASSUME Init PROVE IInv
  BY Zenon
<1> USE HostCallAssumption DEF Init, Libs
<1>1. Types
  BY DEF Types, Places
<1>2. Resolving /\ Holding /\ Counted /\ Found /\ ModulesReady
  BY DEF Resolving, Holding, Counted, Found, ModulesReady, Initialising
<1>3. StacksLoaded
  BY DEF StacksLoaded
<1>4. CachesLoaded
  BY Zenon DEF CachesLoaded
<1> QED  BY Zenon, <1>1, <1>2, <1>3, <1>4 DEF IInv

\* The library a thread executes is a library.
LEMMA TopIsLib ==
    ASSUME Types, NEW t \in Threads
    PROVE  Top(t) \in Libs
BY DEF Types, Top

\* The elements of a sequence with one more.
LEMMA AppendAt ==
    ASSUME NEW S, NEW s \in Seq(S), NEW e \in S
    PROVE  /\ Append(s, e) \in Seq(S) /\ Len(Append(s, e)) = Len(s) + 1
           /\ \A i \in 1..(Len(s) + 1) : Append(s, e)[i] = IF i <= Len(s) THEN s[i] ELSE e
OBVIOUS

\* Entering a service whose call has been resolved (utils.rs:85-97).
LEMMA EnterLoaded ==
    ASSUME IInv, NEW t \in Threads, NEW c \in Calls, Owner[c] \in modules \cup {Visor},
           Enter(t, c), UNCHANGED modules
    PROVE  /\ stack' \in [Threads -> Seq(Libs)]
           /\ \A u \in Threads : Len(stack'[u]) >= 1
           /\ StacksLoaded'
           /\ pc' \in [Threads -> Places] /\ pc'[t] \in {"run", "arg"}
           /\ \A u \in Threads \ {t} : pc'[u] = pc[u]
<1>1. CASE Owner[c] = Visor
  BY Zenon, <1>1 DEF IInv, Types, Enter, Places, StacksLoaded
<1>2. CASE Owner[c] # Visor
  <2> DEFINE new == Append(stack[t], Owner[c])
  <2>1. Owner[c] \in Services /\ Owner[c] \in Libs /\ Owner[c] \in modules
    BY Zenon, <1>2 DEF Libs, IInv, Types
  <2>2. pc' = [pc EXCEPT ![t] = "run"] /\ stack' = [stack EXCEPT ![t] = new]
    BY Zenon, <1>2 DEF Enter
  <2>3. stack[t] \in Seq(Libs) /\ Len(stack[t]) \in Nat
    BY DEF IInv, Types
  <2>4. /\ new \in Seq(Libs) /\ Len(new) = Len(stack[t]) + 1
        /\ \A i \in 1..(Len(stack[t]) + 1) : new[i] = IF i <= Len(stack[t]) THEN stack[t][i] ELSE Owner[c]
    BY Zenon, <2>1, <2>3, AppendAt
  <2> HIDE DEF new
  <2>5. stack'[t] = new /\ \A u \in Threads \ {t} : stack'[u] = stack[u]
    BY Zenon, <2>2 DEF IInv, Types
  <2>6. \A i \in 1..Len(new) : new[i] \in Services => new[i] \in modules
    BY <2>1, <2>3, <2>4 DEF IInv, StacksLoaded
  <2>7. StacksLoaded'
    BY Zenon, <2>5, <2>6 DEF IInv, StacksLoaded
  <2>8. stack' \in [Threads -> Seq(Libs)]
    BY Zenon, <2>2, <2>4 DEF IInv, Types
  <2>9. \A u \in Threads : Len(stack'[u]) >= 1
    BY SMTT(60), <2>3, <2>4, <2>5 DEF IInv, Types
  <2> QED  BY Zenon, <2>2, <2>7, <2>8, <2>9 DEF IInv, Types, Places
<1> QED  BY Zenon, <1>1, <1>2

\* libos!: a hit enters a service of the table, a miss begins to resolve.
LEMMA BindIInv ==
    ASSUME IInv, ~crashed, NEW t \in Threads, NEW c \in Calls, Bind(t, c)
    PROVE  IInv'
<1>1. /\ pc[t] = "run" /\ call' = [call EXCEPT ![t] = c]
      /\ UNCHANGED <<inner, cache, modules, ready, loads, crashed>>
  BY Zenon DEF Bind
<1>2. CASE c \in cache[Top(t)]
  <2>1. Owner[c] \in modules \cup {Visor}
    BY Zenon, <1>2, TopIsLib DEF IInv, CachesLoaded
  <2>2. Enter(t, c)
    BY Zenon, <1>2 DEF Bind
  <2>3. /\ stack' \in [Threads -> Seq(Libs)]
        /\ \A u \in Threads : Len(stack'[u]) >= 1
        /\ StacksLoaded'
        /\ pc' \in [Threads -> Places] /\ pc'[t] \in {"run", "arg"}
        /\ \A u \in Threads \ {t} : pc'[u] = pc[u]
    BY Zenon, <1>1, <2>1, <2>2, EnterLoaded
  <2>4. Types'
    BY Zenon, <1>1, <2>3 DEF IInv, Types
  <2>5. Resolving' /\ Holding' /\ Found'
    BY Zenon, <1>1, <2>3 DEF IInv, Types, Resolving, Holding, Found
  <2>6. Counted'
    BY Zenon, <1>1, <2>3 DEF IInv, Types, Counted, Initialising
  <2> QED  BY Zenon, <1>1, <2>3, <2>4, <2>5, <2>6 DEF IInv, ModulesReady, CachesLoaded
<1>3. CASE c \notin cache[Top(t)]
  <2>1. pc' = [pc EXCEPT ![t] = "bind"] /\ UNCHANGED stack
    BY Zenon, <1>3 DEF Bind
  <2>2. Types'
    BY Zenon, <1>1, <2>1 DEF IInv, Types, Places
  <2>3. Resolving' /\ Holding' /\ Found'
    BY Zenon, <1>1, <2>1 DEF IInv, Types, Resolving, Holding, Found
  <2>4. Counted'
    BY Zenon, <1>1, <2>1 DEF IInv, Types, Counted, Initialising
  <2> QED  BY Zenon, <1>1, <2>1, <2>2, <2>3, <2>4 DEF IInv, ModulesReady, StacksLoaded, CachesLoaded
<1> QED  BY Zenon, <1>2, <1>3

\* get_or_find: the visor's own calls need no service.
LEMMA LockCtxIInv == ASSUME IInv, ~crashed, NEW t \in Threads, LockCtx(t) PROVE IInv'
<1>1. /\ pc[t] = "bind"
      /\ pc' = [pc EXCEPT ![t] = IF Owner[call[t]] = Visor THEN "found" ELSE "find"]
      /\ UNCHANGED <<stack, call, inner, cache, modules, ready, loads, crashed>>
  BY Zenon DEF LockCtx
<1>2. call[t] \in Calls /\ Owner[call[t]] \in Services \cup {Visor}
  BY Zenon, <1>1, HostCallAssumption DEF IInv, Resolving
<1>3. Types'
  BY Zenon, <1>1 DEF IInv, Types, Places
<1>4. Resolving' /\ Holding' /\ Found'
  BY Zenon, <1>1, <1>2 DEF IInv, Types, Resolving, Holding, Found
<1>5. Counted'
  BY Zenon, <1>1 DEF IInv, Types, Counted, Initialising
<1> QED  BY Zenon, <1>1, <1>3, <1>4, <1>5 DEF IInv, ModulesReady, StacksLoaded, CachesLoaded

\* service_or_load: the lock was free, so nobody else is loading (mod.rs:145).
LEMMA LookUpIInv == ASSUME IInv, ~crashed, NEW t \in Threads, LookUp(t) PROVE IInv'
<1>1. /\ pc[t] = "find" /\ inner = Nobody
      /\ UNCHANGED <<stack, call, cache, modules, ready, loads, crashed>>
  BY Zenon DEF LookUp
<1>2. \/ Owner[call[t]] \in modules /\ pc' = [pc EXCEPT ![t] = "found"] /\ inner' = inner
      \/ Owner[call[t]] \notin modules /\ pc' = [pc EXCEPT ![t] = "load"] /\ inner' = t
  BY Zenon DEF LookUp
<1>3. \A u \in Threads : pc[u] \notin {"load", "init"}
  BY Zenon, <1>1, HostCallAssumption DEF IInv, Holding
<1>4. Types'
  BY Zenon, <1>1, <1>2 DEF IInv, Types, Places
<1>5. Resolving' /\ Found'
  BY Zenon, <1>1, <1>2 DEF IInv, Types, Resolving, Found
<1>6. Holding'
  BY Zenon, <1>1, <1>2, <1>3 DEF IInv, Types, Holding
<1>7. Counted'
  BY Zenon, <1>1, <1>2 DEF IInv, Types, Counted, Initialising
<1> QED  BY Zenon, <1>1, <1>4, <1>5, <1>6, <1>7 DEF IInv, ModulesReady, StacksLoaded, CachesLoaded

\* ServiceLoader::load: the service was not in the table and nobody else is
\* about to insert it, so it had not been loaded.
LEMMA LoadIInv == ASSUME IInv, ~crashed, NEW t \in Threads, Load(t) PROVE IInv'
<1> DEFINE s == Owner[call[t]]
<1>1. pc[t] = "load" /\ UNCHANGED <<stack, call, cache, modules, ready>>
  BY Zenon DEF Load
<1>2. s \in Services /\ s \notin modules /\ inner = t
  BY Zenon, <1>1 DEF IInv, Resolving, Holding
<1>3. CASE s \in Broken
  <2>1. crashed' = TRUE /\ UNCHANGED <<pc, loads>>
    BY Zenon, <1>3 DEF Load
  <2> QED  BY Zenon, <1>1, <2>1 DEF IInv, Types, Resolving, Holding, Counted, Initialising, Found,
              ModulesReady, StacksLoaded, CachesLoaded
<1>4. CASE s \notin Broken
  <2>1. /\ loads' = [loads EXCEPT ![s] = @ + 1] /\ pc' = [pc EXCEPT ![t] = "init"]
        /\ UNCHANGED <<inner, crashed>>
    BY Zenon, <1>4 DEF Load
  <2>2. ~Initialising(s)
    BY Zenon, <1>1, <1>2 DEF IInv, Holding, Initialising
  <2>3. loads[s] = 0
    BY Zenon, <1>2, <2>2 DEF IInv, Counted
  <2> HIDE DEF s
  <2>4. Types'
    BY <1>1, <1>2, <2>1 DEF IInv, Types, Places
  <2>5. Counted'
    <3>1. \A x \in Services : loads'[x] = IF x = s THEN 1 ELSE loads[x]
      BY <1>2, <2>1, <2>3 DEF IInv, Types
    <3>2. \A x \in Services \ {s} : Initialising(x) => Initialising(x)'
      BY Zenon, <1>1, <2>1 DEF IInv, Types, Initialising
    <3>3. \A x \in Services : x = s => Initialising(x)'
      BY Zenon, <1>1, <2>1 DEF IInv, Types, Initialising, s
    <3>4. ASSUME NEW x \in Services
          PROVE  loads'[x] <= 1 /\ (x \notin modules' /\ ~Initialising(x)' => loads'[x] = 0)
      <4>1. CASE x = s
        BY <3>1, <3>3, <4>1
      <4>2. CASE x # s
        BY Zenon, <1>1, <3>1, <3>2, <4>2 DEF IInv, Counted
      <4> QED  BY Zenon, <4>1, <4>2
    <3> QED  BY Zenon, <3>4 DEF Counted
  <2>6. Resolving' /\ Holding' /\ Found'
    BY Zenon, <1>1, <1>2, <2>1 DEF IInv, Types, Resolving, Holding, Found, s
  <2> QED  BY Zenon, <1>1, <2>4, <2>5, <2>6 DEF IInv, ModulesReady, StacksLoaded, CachesLoaded
<1> QED  BY Zenon, <1>3, <1>4

\* WithLibOSService::init, then the insertion and the unlock (mod.rs:150-158).
LEMMA InitServiceIInv == ASSUME IInv, ~crashed, NEW t \in Threads, InitService(t) PROVE IInv'
<1> DEFINE s == Owner[call[t]]
<1>1. /\ pc[t] = "init" /\ pc' = [pc EXCEPT ![t] = "found"]
      /\ modules' = modules \cup {s}
      /\ ready' = IF s \in Contextless THEN ready ELSE ready \cup {s}
      /\ UNCHANGED <<stack, call, cache, loads, crashed>>
  BY Zenon DEF InitService
<1>2. s \in Services
  BY Zenon, <1>1 DEF IInv, Resolving
<1>3. \A u \in Threads \ {t} : pc[u] \notin {"load", "init"}
  BY Zenon, <1>1 DEF IInv, Holding
<1>4. Resolving' /\ Holding' /\ Found'
  BY Zenon, <1>1, <1>3 DEF IInv, Types, Resolving, Holding, Found
<1>5. ASSUME NEW x \in Services, x \notin modules', ~Initialising(x)'
      PROVE  loads'[x] = 0
  <2>1. x # s /\ x \notin modules
    BY Zenon, <1>1, <1>5
  <2>2. ~Initialising(x)
    BY Zenon, <1>1, <1>3, <2>1 DEF Initialising
  <2> QED  BY Zenon, <1>1, <2>1, <2>2 DEF IInv, Counted
<1>6. Counted'
  BY Zenon, <1>1, <1>5 DEF IInv, Counted
<1> HIDE DEF s
<1>7. Types'
  BY Zenon, <1>1, <1>2 DEF IInv, Types, Places
<1>8. ModulesReady' /\ StacksLoaded' /\ CachesLoaded'
  BY Zenon, <1>1 DEF IInv, ModulesReady, StacksLoaded, CachesLoaded
<1> QED  BY Zenon, <1>4, <1>6, <1>7, <1>8 DEF IInv

\* The address that is stored is one of the table's services.
LEMMA StoreIInv == ASSUME IInv, ~crashed, NEW t \in Threads, Store(t) PROVE IInv'
<1> DEFINE c == call[t]
<1>1. /\ pc[t] = "found" /\ Enter(t, c)
      /\ cache' = [cache EXCEPT ![Top(t)] = @ \cup {c}]
      /\ UNCHANGED <<call, inner, modules, ready, loads, crashed>>
  BY Zenon DEF Store
<1>2. c \in Calls /\ Owner[c] \in modules \cup {Visor} /\ Top(t) \in Libs
  BY Zenon, <1>1, TopIsLib DEF IInv, Resolving, Found
<1> HIDE DEF c
<1>3. /\ stack' \in [Threads -> Seq(Libs)]
      /\ \A u \in Threads : Len(stack'[u]) >= 1
      /\ StacksLoaded'
      /\ pc' \in [Threads -> Places] /\ pc'[t] \in {"run", "arg"}
      /\ \A u \in Threads \ {t} : pc'[u] = pc[u]
  BY Zenon, <1>1, <1>2, EnterLoaded
<1>4. Types'
  BY Zenon, <1>1, <1>2, <1>3 DEF IInv, Types
<1>5. Resolving' /\ Holding' /\ Found'
  BY Zenon, <1>1, <1>3 DEF IInv, Types, Resolving, Holding, Found
<1>6. Counted'
  BY Zenon, <1>1, <1>3 DEF IInv, Types, Counted, Initialising
<1>7. CachesLoaded'
  BY Zenon, <1>1, <1>2 DEF IInv, Types, CachesLoaded
<1> QED  BY Zenon, <1>1, <1>3, <1>4, <1>5, <1>6, <1>7 DEF IInv, ModulesReady

\* The visor's handlers and their argument touch neither table nor caches.
LEMMA VisorIInv == ASSUME IInv, ~crashed, NEW t \in Threads, LockArg(t) \/ Handler(t) PROVE IInv'
<1>1. /\ pc[t] \in {"arg", "handler"}
      /\ \E p \in {"handler", "run"} : pc' = [pc EXCEPT ![t] = p]
      /\ UNCHANGED <<stack, call, inner, cache, modules, ready, loads, crashed>>
  BY Zenon DEF LockArg, Handler
<1>2. Types'
  BY Zenon, <1>1 DEF IInv, Types, Places
<1>3. Resolving' /\ Holding' /\ Found'
  BY Zenon, <1>1 DEF IInv, Types, Resolving, Holding, Found
<1>4. Counted'
  BY Zenon, <1>1 DEF IInv, Types, Counted, Initialising
<1> QED  BY Zenon, <1>1, <1>2, <1>3, <1>4 DEF IInv, ModulesReady, StacksLoaded, CachesLoaded

\* What is left of a sequence without its last element.
LEMMA ShorterAt ==
    ASSUME NEW S, NEW s \in Seq(S), Len(s) > 1
    PROVE  /\ SubSeq(s, 1, Len(s) - 1) \in Seq(S) /\ Len(SubSeq(s, 1, Len(s) - 1)) = Len(s) - 1
           /\ \A i \in 1..(Len(s) - 1) : SubSeq(s, 1, Len(s) - 1)[i] = s[i]
OBVIOUS

\* A library's code returns to its caller, which is still loaded.
LEMMA ReturnIInv == ASSUME IInv, ~crashed, NEW t \in Threads, Return(t) PROVE IInv'
<1>1. pc[t] = "run" /\ UNCHANGED <<call, inner, cache, modules, ready, loads, crashed>>
  BY Zenon DEF Return, locks
<1>2. CASE Len(stack[t]) > 1
  <2> DEFINE new == SubSeq(stack[t], 1, Len(stack[t]) - 1)
  <2>1. stack' = [stack EXCEPT ![t] = new] /\ UNCHANGED pc
    BY Zenon, <1>2 DEF Return
  <2>2. stack[t] \in Seq(Libs) /\ Len(stack[t]) \in Nat
    BY DEF IInv, Types
  <2>3. /\ new \in Seq(Libs) /\ Len(new) = Len(stack[t]) - 1
        /\ \A i \in 1..(Len(stack[t]) - 1) : new[i] = stack[t][i]
    BY Zenon, <1>2, <2>2, ShorterAt
  <2> HIDE DEF new
  <2>4. stack'[t] = new /\ \A u \in Threads \ {t} : stack'[u] = stack[u]
    BY Zenon, <2>1 DEF IInv, Types
  <2>5. \A i \in 1..Len(new) : new[i] \in Services => new[i] \in modules
    BY <1>2, <2>2, <2>3 DEF IInv, StacksLoaded
  <2>6. StacksLoaded'
    BY Zenon, <1>1, <2>4, <2>5 DEF IInv, StacksLoaded
  <2>7. Len(new) >= 1
    BY <1>2, <2>2, <2>3
  <2>8. Types'
    <3>1. stack' \in [Threads -> Seq(Libs)]
      BY Zenon, <2>1, <2>3 DEF IInv, Types
    <3>2. \A u \in Threads : Len(stack'[u]) >= 1
      BY Zenon, <2>4, <2>7 DEF IInv, Types
    <3> QED  BY Zenon, <1>1, <2>1, <3>1, <3>2 DEF IInv, Types
  <2> QED  BY Zenon, <1>1, <2>1, <2>6, <2>8 DEF IInv, Resolving, Holding, Counted, Initialising, Found,
              ModulesReady, CachesLoaded
<1>3. CASE ~(Len(stack[t]) > 1)
  <2>1. pc' = [pc EXCEPT ![t] = "done"] /\ UNCHANGED stack
    BY Zenon, <1>3 DEF Return
  <2>2. Types'
    BY Zenon, <1>1, <2>1 DEF IInv, Types, Places
  <2>3. Resolving' /\ Holding' /\ Found'
    BY Zenon, <1>1, <2>1 DEF IInv, Types, Resolving, Holding, Found
  <2>4. Counted'
    BY Zenon, <1>1, <2>1 DEF IInv, Types, Counted, Initialising
  <2> QED  BY Zenon, <1>1, <2>1, <2>2, <2>3, <2>4 DEF IInv, ModulesReady, StacksLoaded, CachesLoaded
<1> QED  BY Zenon, <1>2, <1>3

\* The inductive invariant of the call path.
LEMMA Invariance == Spec => []IInv
<1>1. IInv /\ [Next]_vars => IInv'
  <2>1. ASSUME IInv, Next PROVE IInv'
    <3>1. PICK t \in Threads : Step(t)
      BY Zenon, <2>1 DEF Next
    <3>2. ~crashed
      BY Zenon, <3>1 DEF Step
    <3> QED  BY Zenon, <2>1, <3>1, <3>2, BindIInv, LockCtxIInv, LookUpIInv, LoadIInv, InitServiceIInv,
                StoreIInv, VisorIInv, ReturnIInv DEF Step
  <2>2. ASSUME IInv, UNCHANGED vars PROVE IInv'
    BY Zenon, <2>2 DEF vars, locks, IInv, Types, Resolving, Holding, Counted, Initialising, Found,
                ModulesReady, StacksLoaded, CachesLoaded
  <2> QED  BY Zenon, <2>1, <2>2
<1> QED  BY <1>1, InitIInv, PTL DEF Spec

\* However many threads need a service at the same time, dlmopen loads it once
\* for the isolation (mod.rs:144-159).
THEOREM LoadedOnce == Spec => []LoadOnce
<1>1. IInv => LoadOnce
  BY Zenon DEF IInv, Counted, LoadOnce
<1> QED  BY <1>1, Invariance, PTL

\* No thread executes, and no library has an address of, a service that is not
\* in the table or whose context is not set (elf_service.rs:399-455).
THEOREM InitialisedBeforeUse == Spec => []InitBeforeUse
<1>1. ASSUME IInv PROVE InitBeforeUse
  <2>1. \A t \in Threads : \A i \in 1..Len(stack[t]) :
           stack[t][i] \in Services => stack[t][i] \in modules /\ stack[t][i] \in ready \cup Contextless
    BY Zenon, <1>1 DEF IInv, StacksLoaded, ModulesReady
  <2> QED  BY Zenon, <1>1, <2>1 DEF IInv, CachesLoaded, InitBeforeUse
<1> QED  BY <1>1, Invariance, PTL
==============================================================================
