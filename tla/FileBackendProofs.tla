-------------------------- MODULE FileBackendProofs --------------------------
(***************************************************************************)
(* The locks of file-backed memory, for any number of threads and regions:  *)
(* one handler at a time, no nested read lock behind the waiting writer, and *)
(* no change of the regions under the handler's indices.                    *)
(***************************************************************************)
EXTENDS FileBackend, TLAPS

Waiting == {"mapWait", "unmapWait"}
Locked == {"push", "remove"}
Calling == {"map", "unmap"} \cup Waiting \cup Locked
Polling == {"epoll", "serve"}

Types ==
    /\ pc \in [Clients -> Calling \cup {"run", "write", "fault", "panicked"}]
    /\ regionsLock \in Clients \cup {Handler, Nobody}
    /\ pipe \in BOOLEAN
    /\ hreg \in Regions /\ faults \subseteq Regions

\* Who maps or unmaps holds REGISTER.
Registering == \A c \in Clients : pc[c] \in Calling => register = c

\* Who works on the regions holds their lock: the handler between epoll and the
\* end of the loop's body, a client that pushes or removes.
HandlerLocks == regionsLock = Handler <=> hpc \in Polling
ClientLocks == \A c \in Clients : pc[c] \in Locked => regionsLock = c

\* A client holds that lock in no other place, unless the handler panicked: the
\* error of try_lock keeps the guard (lib.rs:142-152).
LockPlace ==
    \A c \in Clients : regionsLock = c => pc[c] \in Locked \/ (poisoned /\ pc[c] \in Waiting)
Poison == poisoned => hpc = "panicked"

IInv ==
    /\ Types /\ Registering /\ HandlerLocks /\ ClientLocks /\ LockPlace /\ Poison
    /\ OneHandler

\* No lock is held and no handler is there.
LEMMA InitIInv == Init => IInv
BY Zenon, FileBackendAssumption DEF Init, IInv, Types, Registering, HandlerLocks, ClientLocks, LockPlace,
   Poison, OneHandler, Calling, Waiting, Locked, Polling

\* A client takes REGISTER, or does not get its pipe.
LEMMA EntryIInv ==
    ASSUME IInv, NEW c \in Clients, NEW r \in Regions,
           Register(c, r) \/ Unregister(c, r) \/ Touch(c, r)
    PROVE  IInv'
<1>1. /\ pc[c] \in {"run", "write"} /\ UNCHANGED <<regionsLock, pipe, hpc, hreg, poisoned>>
      /\ faults' \subseteq faults \cup {r}
  BY Zenon DEF Register, Unregister, Touch, locks
<1>2. \/ \E p \in {"map", "unmap"} : pc' = [pc EXCEPT ![c] = p] /\ register = Nobody /\ register' = c
      \/ \E p \in {"fault", "panicked"} : pc' = [pc EXCEPT ![c] = p] /\ UNCHANGED register
  BY Zenon DEF Register, Unregister, Touch, locks
<1>3. regionsLock # c
  BY Zenon, <1>1 DEF IInv, LockPlace, Locked, Waiting
<1>4. Types'
  BY Zenon, <1>1, <1>2 DEF IInv, Types, Calling
<1>5. Registering'
  BY <1>2, FileBackendAssumption DEF IInv, Types, Registering, Calling, Waiting, Locked
<1>6. ClientLocks' /\ LockPlace'
  BY Zenon, <1>1, <1>2, <1>3 DEF IInv, Types, ClientLocks, LockPlace, Locked
<1> QED  BY Zenon, <1>1, <1>4, <1>5, <1>6 DEF IInv, HandlerLocks, Poison, OneHandler

\* fdtab's write takes FD_TABLE and none of the other locks.
LEMMA WriteIInv == ASSUME IInv, NEW c \in Clients, Write(c) \/ WriteEnd(c) PROVE IInv'
<1>1. /\ pc[c] \in {"run", "write"}
      /\ \E p \in {"run", "write"} : pc' = [pc EXCEPT ![c] = p]
      /\ UNCHANGED <<register, regionsLock, pipe, hpc, hreg, faults, poisoned>>
  BY Zenon DEF Write, WriteEnd, locks
<1>2. regionsLock # c
  BY Zenon, <1>1 DEF IInv, LockPlace, Locked, Waiting
<1>3. Types' /\ Registering'
  BY Zenon, <1>1 DEF IInv, Types, Registering, Calling, Waiting, Locked
<1>4. ClientLocks' /\ LockPlace'
  BY Zenon, <1>1, <1>2 DEF IInv, Types, ClientLocks, LockPlace, Locked
<1> QED  BY Zenon, <1>1, <1>3, <1>4 DEF IInv, HandlerLocks, Poison, OneHandler

\* The userfaultfd fails, or an error drops the client's guards.
LEMMA LeaveIInv ==
    ASSUME IInv, NEW c \in Clients, pc[c] \in Calling, regionsLock # c,
           register' = Nobody, NEW p \in {"run", "panicked"}, pc' = [pc EXCEPT ![c] = p],
           UNCHANGED <<regionsLock, pipe, hpc, hreg, faults, poisoned>>
    PROVE  IInv'
<1>1. \A d \in Clients \ {c} : pc[d] \notin Calling
  BY Zenon DEF IInv, Registering
<1>2. Types'
  BY Zenon DEF IInv, Types
<1>3. Registering'
  BY Zenon, <1>1 DEF IInv, Types, Registering, Calling, Locked, Waiting
<1>4. ClientLocks' /\ LockPlace'
  BY Zenon DEF IInv, Types, ClientLocks, LockPlace, Locked, Waiting
<1> QED  BY Zenon, <1>2, <1>3, <1>4 DEF IInv, HandlerLocks, Poison, OneHandler

LEMMA UffdFailsIInv == ASSUME IInv, NEW c \in Clients, UffdFails(c) PROVE IInv'
<1>1. pc[c] \in Calling /\ regionsLock # c
  BY Zenon DEF UffdFails, Calling, IInv, LockPlace, Locked, Waiting
<1> QED  BY Zenon, <1>1, LeaveIInv DEF UffdFails

\* The lock of the regions is free, so the handler is not polling.
LEMMA TryRegionsIInv == ASSUME IInv, NEW c \in Clients, TryRegions(c) PROVE IInv'
<1>1. /\ pc[c] \in {"map", "unmap"} /\ regionsLock = Nobody /\ regionsLock' = c
      /\ \E p \in Locked : pc' = [pc EXCEPT ![c] = p]
      /\ UNCHANGED <<register, pipe, hpc, hreg, faults, poisoned>>
  BY Zenon DEF TryRegions, Locked
<1>2. \A d \in Clients : pc[d] \notin Locked
  BY Zenon, <1>1, FileBackendAssumption DEF IInv, ClientLocks
<1>3. Types' /\ Registering'
  BY Zenon, <1>1 DEF IInv, Types, Registering, Calling
<1>4. HandlerLocks'
  BY Zenon, <1>1, FileBackendAssumption DEF IInv, HandlerLocks
<1>5. ClientLocks' /\ LockPlace'
  BY Zenon, <1>1, <1>2 DEF IInv, Types, ClientLocks, LockPlace
<1> QED  BY Zenon, <1>1, <1>3, <1>4, <1>5 DEF IInv, Poison, OneHandler

\* A waiting client gets the lock, or the error of a poisoned one.
LEMMA WaitRegionsIInv == ASSUME IInv, NEW c \in Clients, WaitRegions(c) PROVE IInv'
<1>1. /\ pc[c] \in Waiting /\ regionsLock = Nobody
      /\ UNCHANGED <<pipe, hpc, hreg, faults, poisoned>>
  BY Zenon DEF WaitRegions, Waiting
<1>2. CASE poisoned
  <2>1. register' = Nobody /\ UNCHANGED regionsLock
    BY Zenon, <1>2 DEF WaitRegions, Fail
  <2>2. \E p \in {"run", "panicked"} : pc' = [pc EXCEPT ![c] = p]
    BY Zenon, <1>2 DEF WaitRegions, Fail
  <2>3. pc[c] \in Calling /\ regionsLock # c
    BY Zenon, <1>1, FileBackendAssumption DEF Calling
  <2> QED  BY Zenon, <1>1, <2>1, <2>2, <2>3, LeaveIInv
<1>3. CASE ~poisoned
  <2>1. /\ regionsLock' = c /\ UNCHANGED register
        /\ \E p \in Locked : pc' = [pc EXCEPT ![c] = p]
    BY Zenon, <1>3 DEF WaitRegions, Locked
  <2>2. \A d \in Clients : pc[d] \notin Locked
    BY Zenon, <1>1, FileBackendAssumption DEF IInv, ClientLocks
  <2>3. Types' /\ Registering'
    BY Zenon, <1>1, <2>1 DEF IInv, Types, Registering, Calling
  <2>4. HandlerLocks'
    BY Zenon, <1>1, <2>1, FileBackendAssumption DEF IInv, HandlerLocks
  <2>5. ClientLocks' /\ LockPlace'
    BY Zenon, <1>1, <2>1, <2>2 DEF IInv, Types, ClientLocks, LockPlace
  <2> QED  BY Zenon, <1>1, <2>3, <2>4, <2>5 DEF IInv, Poison, OneHandler
<1> QED  BY Zenon, <1>2, <1>3

\* The holder is notified, or there is no pipe to notify it through.
LEMMA NotifyRegionsIInv == ASSUME IInv, NEW c \in Clients, NotifyRegions(c) PROVE IInv'
<1>1. /\ pc[c] \in {"map", "unmap"} /\ pc[c] \in Calling
      /\ regionsLock # Nobody \/ poisoned
      /\ UNCHANGED <<pipe, hpc, hreg, faults, poisoned>>
  BY Zenon DEF NotifyRegions, Calling
<1>2. regionsLock # c
  BY Zenon, <1>1 DEF IInv, LockPlace, Locked, Waiting
<1>3. CASE pipe
  <2>1. /\ \E p \in Waiting : pc' = [pc EXCEPT ![c] = p]
        /\ regionsLock' = IF regionsLock = Nobody THEN c ELSE regionsLock
        /\ UNCHANGED register
    BY Zenon, <1>3 DEF NotifyRegions, Waiting
  <2>2. \/ UNCHANGED regionsLock
        \/ regionsLock = Nobody /\ regionsLock' = c /\ poisoned
    BY Zenon, <1>1, <2>1
  <2>3. \A d \in Clients : pc'[d] \in Locked => pc[d] \in Locked /\ d # c
    BY Zenon, <2>1 DEF IInv, Types, Locked, Waiting
  <2>4. Types' /\ Registering'
    BY Zenon, <1>1, <2>1, <2>2 DEF IInv, Types, Registering, Calling
  <2>5. HandlerLocks'
    BY Zenon, <1>1, <2>2, FileBackendAssumption DEF IInv, HandlerLocks
  <2>6. ClientLocks'
    BY Zenon, <2>2, <2>3, FileBackendAssumption DEF IInv, ClientLocks
  <2>7. LockPlace'
    BY Zenon, <1>1, <1>2, <2>1, <2>2 DEF IInv, Types, LockPlace
  <2> QED  BY Zenon, <1>1, <2>4, <2>5, <2>6, <2>7 DEF IInv, Poison, OneHandler
<1>4. CASE ~pipe
  <2>1. register' = Nobody /\ UNCHANGED regionsLock
    BY Zenon, <1>4 DEF NotifyRegions, Fail
  <2>2. \E p \in {"run", "panicked"} : pc' = [pc EXCEPT ![c] = p]
    BY Zenon, <1>4 DEF NotifyRegions, Fail
  <2> QED  BY Zenon, <1>1, <1>2, <2>1, <2>2, LeaveIInv
<1> QED  BY <1>3, <1>4

\* A client that holds both locks gives them back; a handler is spawned only
\* where there is no pipe, and then there is none.
LEMMA ReleaseIInv == ASSUME IInv, NEW c \in Clients, Push(c) \/ Remove(c) PROVE IInv'
<1>1. /\ pc[c] \in Locked /\ pc' = [pc EXCEPT ![c] = "run"]
      /\ regionsLock' = Nobody /\ register' = Nobody /\ UNCHANGED <<hreg, faults, poisoned>>
  BY Zenon DEF Push, Remove, Locked
<1>2. \/ UNCHANGED <<pipe, hpc>>
      \/ ~pipe /\ pipe' = TRUE /\ hpc' = "start"
  BY Zenon DEF Push, Remove
<1>3. regionsLock = c /\ hpc \notin Polling
  BY Zenon, <1>1, FileBackendAssumption DEF IInv, ClientLocks, HandlerLocks
<1>4. \A d \in Clients \ {c} : pc[d] \notin Calling
  BY Zenon, <1>1 DEF IInv, Registering, Calling
<1>5. Types'
  BY Zenon, <1>1, <1>2 DEF IInv, Types
<1>6. Registering' /\ ClientLocks'
  BY Zenon, <1>1, <1>4 DEF IInv, Types, Registering, ClientLocks, Calling, Locked, Waiting
<1>7. HandlerLocks' /\ LockPlace'
  BY Zenon, <1>1, <1>2, <1>3, FileBackendAssumption DEF HandlerLocks, LockPlace, Polling
<1>8. OneHandler' /\ Poison'
  BY <1>1, <1>2 DEF IInv, OneHandler, Poison, Types
<1> QED  BY Zenon, <1>5, <1>6, <1>7, <1>8 DEF IInv

\* The handler takes the lock when it is free and gives it back when it leaves
\* the body of the loop.
LEMMA HandlerIInv == ASSUME IInv, HandlerStep PROVE IInv'
<1>1. CASE HandlerStart \/ Consume \/ HandlerLeave \/ HandlerClose
  <2>1. /\ UNCHANGED <<register, regionsLock, hreg, faults, pc, poisoned>>
        /\ hpc \notin Polling \cup {"panicked"} /\ hpc' \notin Polling
        /\ \/ UNCHANGED pipe /\ hpc # "none" /\ hpc' # "none"
           \/ pipe' = FALSE /\ hpc' = "none"
    BY Zenon, <1>1 DEF HandlerStart, Consume, HandlerLeave, HandlerClose, locks, Polling
  <2>2. Types'
    BY Zenon, <2>1 DEF IInv, Types
  <2>3. OneHandler'
    <3>1. CASE UNCHANGED pipe /\ hpc # "none" /\ hpc' # "none"
      BY Zenon, <3>1 DEF IInv, Types, OneHandler
    <3>2. CASE pipe' = FALSE /\ hpc' = "none"
      BY Zenon, <3>2 DEF OneHandler
    <3> QED  BY Zenon, <2>1, <3>1, <3>2
  <2>4. Poison'
    BY Zenon, <2>1 DEF IInv, Poison
  <2> QED  BY Zenon, <2>1, <2>2, <2>3, <2>4 DEF IInv, Registering, HandlerLocks, ClientLocks, LockPlace
<1>2. CASE HandlerLock \/ HandlerFault
  <2>1. /\ UNCHANGED <<register, pipe, faults, pc, poisoned>> /\ hreg' \in Regions
        /\ hpc \in {"loop", "epoll"} /\ hpc' \in Polling \cup {"left"}
        /\ \/ regionsLock = Nobody /\ regionsLock' = Handler /\ hpc' \in Polling
           \/ UNCHANGED regionsLock /\ (hpc \in Polling <=> hpc' \in Polling)
    BY Zenon, <1>2 DEF HandlerLock, HandlerFault, locks, Polling, IInv, Types
  <2>2. LockPlace' /\ ClientLocks'
    BY Zenon, <2>1, FileBackendAssumption DEF IInv, ClientLocks, LockPlace
  <2> QED  BY Zenon, <2>1, <2>2 DEF IInv, Types, Registering, HandlerLocks, Poison, OneHandler, Polling
<1>3. CASE Serve \/ ServeFails \/ HandlerNotified
  <2>1. /\ hpc \in Polling /\ hpc' \in {"loop", "panicked", "consume"}
        /\ regionsLock' = Nobody /\ UNCHANGED <<register, pipe, hreg>> /\ faults' \subseteq faults
        /\ pc' = pc \/ pc' = [pc EXCEPT ![Owner[hreg]] = "run"]
        /\ poisoned' => hpc' = "panicked"
    BY <1>3 DEF Serve, ServeFails, HandlerNotified, Polling, IInv, Poison
  <2>2. regionsLock = Handler
    BY Zenon, <2>1 DEF IInv, HandlerLocks
  <2>3. \A d \in Clients : pc[d] \notin Locked
    BY Zenon, <2>2, FileBackendAssumption DEF IInv, ClientLocks
  <2>4. Owner[hreg] \in Clients
    BY Zenon, FileBackendAssumption DEF IInv, Types
  <2>5. \A d \in Clients : pc'[d] = pc[d] \/ pc'[d] = "run"
    BY Zenon, <2>1, <2>4 DEF IInv, Types
  <2>6. Types'
    BY Zenon, <2>1, <2>4 DEF IInv, Types
  <2>7. Registering'
    BY Zenon, <2>1, <2>5 DEF IInv, Registering, Calling, Waiting, Locked
  <2>8. ClientLocks' /\ LockPlace' /\ HandlerLocks'
    BY Zenon, <2>1, <2>3, <2>5, FileBackendAssumption DEF ClientLocks, LockPlace, HandlerLocks, Locked,
       Polling
  <2>9. OneHandler' /\ Poison'
    BY Zenon, <2>1 DEF IInv, OneHandler, Poison, Polling
  <2> QED  BY Zenon, <2>6, <2>7, <2>8, <2>9 DEF IInv
<1> QED  BY Zenon, <1>1, <1>2, <1>3 DEF HandlerStep

LEMMA NextIInv == ASSUME IInv, [Next]_vars PROVE IInv'
<1>1. CASE UNCHANGED vars
  BY Zenon, <1>1 DEF IInv, Types, Registering, HandlerLocks, ClientLocks, LockPlace, Poison, OneHandler,
     vars, locks
<1>2. ASSUME NEW c \in Clients, CallStep(c) PROVE IInv'
  BY Zenon, <1>2, UffdFailsIInv, TryRegionsIInv, NotifyRegionsIInv, WaitRegionsIInv, ReleaseIInv,
     WriteIInv
     DEF CallStep
<1> QED  BY Zenon, <1>1, <1>2, HandlerIInv, EntryIInv, WriteIInv DEF Next

LEMMA Invariance == Spec => []IInv
BY InitIInv, NextIInv, PTL DEF Spec

\* There is a handler thread exactly while there is a pipe: mmap_file_backend
\* spawns no second one (apis.rs:101-107) and the handler that leaves takes the
\* pipe away in one step.
THEOREM HandlerUnique == Spec => []OneHandler
<1>1. IInv => OneHandler
  BY Zenon DEF IInv
<1> QED  BY <1>1, Invariance, PTL

\* A client that asks for NOTIFY_PIPE a second time finds the lock of the regions
\* free when a writer waits for the pipe, so it does not come to the second read
\* lock: the read locks of unregister_file_backend never deadlock.
THEOREM NestedReads == Spec => []NestedReadSafe
<1>1. IInv => NestedReadSafe
  <2> SUFFICES ASSUME IInv, NEW c \in Clients, pc[c] = "unmap", hpc = "closing"
               PROVE  regionsLock = Nobody /\ ~poisoned
    BY Zenon DEF NestedReadSafe
  <2>1. ~poisoned /\ regionsLock # Handler
    BY Zenon DEF IInv, Poison, HandlerLocks, Polling
  <2>2. \A d \in Clients : regionsLock # d
    BY Zenon, <2>1 DEF IInv, LockPlace, Registering, Calling, Locked
  <2> QED  BY Zenon, <2>1, <2>2 DEF IInv, Types
<1> QED  BY <1>1, Invariance, PTL

\* The regions do not change between the moment the handler hands their indices
\* to epoll and its use of the index it got back (apis.rs:37-62).
THEOREM IndicesStable == Spec => IndexStable
<1>1. IInv /\ [Next]_vars => [(hpc \in {"epoll", "serve"}) => (regions' = regions)]_vars
  <2> SUFFICES ASSUME IInv, Next, hpc \in Polling PROVE regions' = regions
    BY Zenon DEF Polling
  <2>1. \A c \in Clients : ~Push(c) /\ ~Remove(c)
    BY Zenon, FileBackendAssumption DEF IInv, HandlerLocks, ClientLocks, Locked, Push, Remove
  <2>2. ASSUME HandlerStep PROVE regions' = regions
    BY Zenon, <2>2 DEF HandlerStep, HandlerStart, HandlerLock, HandlerFault, Serve, ServeFails,
       HandlerNotified, Consume, HandlerLeave, HandlerClose
  <2>3. ASSUME NEW c \in Clients, CallStep(c) PROVE regions' = regions
    BY Zenon, <2>1, <2>3 DEF CallStep, UffdFails, TryRegions, NotifyRegions, WaitRegions, WriteEnd
  <2>4. ASSUME NEW c \in Clients, NEW r \in Regions,
               Register(c, r) \/ Unregister(c, r) \/ Touch(c, r)
        PROVE  regions' = regions
    BY Zenon, <2>4 DEF Register, Unregister, Touch
  <2>5. ASSUME NEW c \in Clients, Write(c) PROVE regions' = regions
    BY Zenon, <2>5 DEF Write
  <2> QED  BY Zenon, <2>2, <2>3, <2>4, <2>5 DEF Next
<1> QED  BY <1>1, Invariance, PTL DEF Spec, IndexStable
==============================================================================
