----------------------------- MODULE FileBackend -----------------------------
(***************************************************************************)
(* File-backed memory (common_service/mmap_file_backend): the threads that  *)
(* map and unmap files, and the fault handler thread that fills their pages *)
(* on demand.                                                               *)
(*                                                                          *)
(* REGISTER serialises mapping and unmapping.  REGISTERD_REGIONS is held by *)
(* the handler while it sleeps in epoll_wait; a client that wants it writes *)
(* a byte to the notify pipe first.  NOTIFY_PIPE is a reader-writer lock    *)
(* around the pipe; a waiting writer keeps new readers out.  FD_TABLE is     *)
(* fdtab's lock: a write holds it while it reads its source, and the handler *)
(* needs it to read a page.                                                 *)
(***************************************************************************)
EXTENDS Naturals, FiniteSets

CONSTANTS Clients,    \* the threads that map files
          Regions,      \* the memory regions
          Owner,        \* [Regions -> Clients]
          Pages,        \* pages of a file
          MaxMaps,      \* bound: mmap calls of one client
          Handler,      \* the fault handler, as a holder of a lock
          Nobody

ASSUME FileBackendAssumption ==
    /\ Owner \in [Regions -> Clients]
    /\ MaxMaps \in Nat /\ Pages \in Nat
    /\ Handler \notin Clients /\ Nobody \notin Clients \cup {Handler}

VARIABLES register,   \* holder of REGISTER
          regionsLock,  \* holder of REGISTERD_REGIONS
          readers,      \* clients holding NOTIFY_PIPE for reading
          pipe,         \* NOTIFY_PIPE is Some
          bytes,        \* bytes in the pipe
          regions,      \* the regions in REGISTERD_REGIONS
          poisoned,     \* REGISTERD_REGIONS is poisoned
          missing,      \* [Regions -> 0..Pages]: pages not touched yet
          faults,       \* the regions with a page fault pending
          fdTable,      \* holder of FD_TABLE
          hpc, hreg,    \* the handler thread, and the region it serves
          pc, cur,      \* [Clients -> ...]: the clients, and the region each works on
          maps          \* [Clients -> 0..MaxMaps]

locks == <<register, regionsLock, readers>>
calls == <<cur, maps>>
vars == <<locks, pipe, bytes, regions, poisoned, missing, faults, fdTable, hpc, hreg, pc, calls>>

Init ==
    /\ register = Nobody
    /\ regionsLock = Nobody
    /\ readers = {}
    /\ pipe = FALSE
    /\ bytes = 0
    /\ regions = {}
    /\ poisoned = FALSE
    /\ missing = [r \in Regions |-> 0]
    /\ faults = {}
    /\ fdTable = Nobody
    /\ hpc = "none"
    /\ hreg \in Regions
    /\ pc = [c \in Clients |-> "run"]
    /\ cur = [c \in Clients |-> CHOOSE r \in Regions : TRUE]
    /\ maps = [c \in Clients |-> 0]

\* A read lock of NOTIFY_PIPE is granted.
CanRead == hpc # "closing"

-----------------------------------------------------------------------------
(* register_file_backend *)

Register(c, r) ==
    /\ pc[c] = "run" /\ Owner[r] = c /\ r \notin regions /\ maps[c] < MaxMaps
    /\ register = Nobody
    /\ register' = c
    /\ pc' = [pc EXCEPT ![c] = "map"]
    /\ cur' = [cur EXCEPT ![c] = r]
    /\ maps' = [maps EXCEPT ![c] = @ + 1]
    /\ UNCHANGED <<regionsLock, readers, pipe, bytes, regions, faults, hpc, hreg, poisoned, missing, fdTable>>

\* The userfaultfd cannot be created or registered.
UffdFails(c) ==
    /\ pc[c] = "map"
    /\ register' = Nobody
    /\ pc' = [pc EXCEPT ![c] = "run"]
    /\ UNCHANGED <<regionsLock, readers, pipe, bytes, regions, faults, hpc, hreg, calls, poisoned, missing, fdTable>>

\* acquire_regions_or_notify: try_lock succeeds ...
TryRegions(c) ==
    /\ pc[c] \in {"map", "unmap"}
    /\ regionsLock = Nobody /\ ~poisoned
    /\ regionsLock' = c
    /\ pc' = [pc EXCEPT ![c] = IF @ = "map" THEN "push" ELSE "remove"]
    /\ UNCHANGED <<register, readers, pipe, bytes, regions, faults, hpc, hreg, calls, poisoned, missing, fdTable>>

\* An error of the call under way: register returns it to mmap, and the drop of
\* an Mmap panics on it; every guard of the client is dropped.
Fail(c) ==
    /\ register' = Nobody
    /\ readers' = readers \ {c}
    /\ pc' = [pc EXCEPT ![c] = IF @ \in {"map", "mapWait"} THEN "run" ELSE "panicked"]

\* ... or fails: the holder is notified through the pipe, if there is one.  The
\* error of a poisoned mutex holds the guard until the end of the match, so the
\* lock that follows waits for its own thread.
NotifyRegions(c) ==
    /\ pc[c] \in {"map", "unmap"}
    /\ regionsLock # Nobody \/ poisoned
    /\ CanRead
    /\ IF pipe
       THEN /\ bytes' = bytes + 1
            /\ pc' = [pc EXCEPT ![c] = IF @ = "map" THEN "mapWait" ELSE "unmapWait"]
            /\ regionsLock' = IF regionsLock = Nobody THEN c ELSE regionsLock
            /\ UNCHANGED <<register, readers>>
       ELSE /\ Fail(c)
            /\ UNCHANGED <<bytes, regionsLock>>
    /\ UNCHANGED <<pipe, regions, faults, hpc, hreg, cur, maps, poisoned, missing, fdTable>>

\* acquire_regions waits for the lock; if its holder panicked, that is an error.
WaitRegions(c) ==
    /\ pc[c] \in {"mapWait", "unmapWait"}
    /\ regionsLock = Nobody
    /\ IF poisoned
       THEN Fail(c) /\ UNCHANGED regionsLock
       ELSE /\ regionsLock' = c
            /\ pc' = [pc EXCEPT ![c] = IF @ = "mapWait" THEN "push" ELSE "remove"]
            /\ UNCHANGED <<register, readers>>
    /\ UNCHANGED <<pipe, bytes, regions, faults, hpc, hreg, calls, poisoned, missing, fdTable>>

\* The region is pushed; without a pipe, one is made and the handler spawned.
Push(c) ==
    /\ pc[c] = "push"
    /\ CanRead
    /\ regions' = regions \cup {cur[c]}
    /\ missing' = [missing EXCEPT ![cur[c]] = Pages]
    /\ IF pipe
       THEN UNCHANGED <<pipe, bytes, hpc>>
       ELSE pipe' = TRUE /\ bytes' = 0 /\ hpc' = "start"
    /\ regionsLock' = Nobody
    /\ register' = Nobody
    /\ pc' = [pc EXCEPT ![c] = "run"]
    /\ UNCHANGED <<readers, faults, hreg, calls, poisoned, fdTable>>

-----------------------------------------------------------------------------
(* unregister_file_backend, from the drop of an Mmap *)

\* Mutant: unmapping does not take REGISTER.
UnregisterUnlocked(c, r) ==
    /\ pc[c] = "run" /\ Owner[r] = c /\ r \in regions
    /\ CanRead /\ pipe
    /\ cur' = [cur EXCEPT ![c] = r]
    /\ readers' = readers \cup {c}
    /\ bytes' = bytes + 1
    /\ pc' = [pc EXCEPT ![c] = "unmap"]
    /\ UNCHANGED <<register, regionsLock, pipe, regions, faults, hpc, hreg, maps, poisoned, missing, fdTable>>

\* The guard of NOTIFY_PIPE taken here lives until the region is removed.
Unregister(c, r) ==
    /\ pc[c] = "run" /\ Owner[r] = c /\ r \in regions
    /\ register = Nobody
    /\ CanRead
    /\ cur' = [cur EXCEPT ![c] = r]
    /\ IF pipe
       THEN /\ register' = c
            /\ readers' = readers \cup {c}
            /\ bytes' = bytes + 1
            /\ pc' = [pc EXCEPT ![c] = "unmap"]
       ELSE /\ pc' = [pc EXCEPT ![c] = "panicked"]
            /\ UNCHANGED <<register, readers, bytes>>
    /\ UNCHANGED <<regionsLock, pipe, regions, faults, hpc, hreg, maps, poisoned, missing, fdTable>>

Remove(c) ==
    /\ pc[c] = "remove"
    /\ regions' = regions \ {cur[c]}
    /\ regionsLock' = Nobody
    /\ readers' = readers \ {c}
    /\ register' = Nobody
    /\ pc' = [pc EXCEPT ![c] = "run"]
    /\ UNCHANGED <<pipe, bytes, faults, hpc, hreg, calls, poisoned, missing, fdTable>>

-----------------------------------------------------------------------------
\* The kernel: a client touches a page that is not there and sleeps until the
\* page is copied in.
Touch(c, r) ==
    /\ pc[c] \in {"run", "write"} /\ Owner[r] = c /\ r \in regions /\ missing[r] > 0
    /\ missing' = [missing EXCEPT ![r] = @ - 1]
    /\ faults' = faults \cup {r}
    /\ pc' = [pc EXCEPT ![c] = "fault"]
    /\ UNCHANGED <<locks, pipe, bytes, regions, hpc, hreg, calls, poisoned, fdTable>>

\* fdtab's write to a file or a socket: FD_TABLE.with_file locks the table while
\* the source, which may lie in a mapped file, is copied.
Write(c) ==
    /\ pc[c] = "run" /\ fdTable = Nobody
    /\ fdTable' = c
    /\ pc' = [pc EXCEPT ![c] = "write"]
    /\ UNCHANGED <<locks, pipe, bytes, regions, faults, hpc, hreg, calls, poisoned, missing>>

WriteEnd(c) ==
    /\ pc[c] = "write"
    /\ fdTable' = Nobody
    /\ pc' = [pc EXCEPT ![c] = "run"]
    /\ UNCHANGED <<locks, pipe, bytes, regions, faults, hpc, hreg, calls, poisoned, missing>>

-----------------------------------------------------------------------------
(* file_page_fault_handler *)

\* The receiver of the pipe is read out of NOTIFY_PIPE.
HandlerStart ==
    /\ hpc = "start" /\ pipe
    /\ hpc' = "loop"
    /\ UNCHANGED <<locks, pipe, bytes, regions, faults, hreg, pc, calls, poisoned, missing, fdTable>>

\* The head of the loop: lock the regions; leave the loop if there is none.
HandlerLock ==
    /\ hpc = "loop" /\ regionsLock = Nobody
    /\ IF regions = {}
       THEN hpc' = "left" /\ UNCHANGED regionsLock
       ELSE hpc' = "epoll" /\ regionsLock' = Handler
    /\ UNCHANGED <<register, readers, pipe, bytes, regions, faults, hreg, pc, calls, poisoned, missing, fdTable>>

\* Mutant: the regions are unlocked while their page is read.
HandlerFaultUnlocked ==
    /\ hpc = "epoll"
    /\ \E r \in regions \cap faults : hreg' = r
    /\ hpc' = "serve"
    /\ regionsLock' = Nobody
    /\ UNCHANGED <<register, readers, pipe, bytes, regions, faults, pc, calls, poisoned, missing, fdTable>>

\* epoll_wait returns one ready event: a fault ...
HandlerFault ==
    /\ hpc = "epoll"
    /\ \E r \in regions \cap faults : hreg' = r
    /\ hpc' = "serve"
    /\ UNCHANGED <<locks, pipe, bytes, regions, faults, pc, calls, poisoned, missing, fdTable>>

\* Mutant: the faulting thread is not woken by the copy.
ServeNoWake ==
    /\ hpc = "serve" /\ fdTable = Nobody
    /\ faults' = faults \ {hreg}
    /\ regionsLock' = Nobody
    /\ hpc' = "loop"
    /\ UNCHANGED <<register, readers, pipe, bytes, regions, hreg, pc, calls, poisoned, missing, fdTable>>

\* do_page_fault: lseek and read of fdtab, the copy, which wakes the thread; the
\* end of the loop's body unlocks the regions.
Serve ==
    /\ hpc = "serve" /\ fdTable = Nobody
    /\ faults' = faults \ {hreg}
    /\ pc' = [pc EXCEPT ![Owner[hreg]] = "run"]
    /\ regionsLock' = Nobody
    /\ hpc' = "loop"
    /\ UNCHANGED <<register, readers, pipe, bytes, regions, hreg, calls, poisoned, missing, fdTable>>

\* The page cannot be read: the handler panics, and REGISTERD_REGIONS is poisoned.
ServeFails ==
    /\ hpc = "serve"
    /\ poisoned' = TRUE
    /\ regionsLock' = Nobody
    /\ hpc' = "panicked"
    /\ UNCHANGED <<register, readers, pipe, bytes, regions, missing, faults, hreg, pc, calls, fdTable>>

\* ... or the pipe is readable: the regions are unlocked.
HandlerNotified ==
    /\ hpc = "epoll" /\ bytes > 0
    /\ regionsLock' = Nobody
    /\ hpc' = "consume"
    /\ UNCHANGED <<register, readers, pipe, bytes, regions, faults, hreg, pc, calls, poisoned, missing, fdTable>>

\* NotifyPipe::consume reads one byte; without one it sleeps.
Consume ==
    /\ hpc = "consume" /\ CanRead /\ bytes > 0
    /\ bytes' = bytes - 1
    /\ hpc' = "loop"
    /\ UNCHANGED <<locks, pipe, regions, faults, hreg, pc, calls, poisoned, missing, fdTable>>

\* Mutant: the pipe is taken away as soon as the loop is left.
HandlerLeaveEarly ==
    /\ hpc = "left" /\ readers = {}
    /\ pipe' = FALSE /\ bytes' = 0
    /\ hpc' = "closing"
    /\ UNCHANGED <<locks, regions, faults, hreg, pc, calls, poisoned, missing, fdTable>>

\* The handler asks for NOTIFY_PIPE for writing ...
HandlerLeave ==
    /\ hpc = "left"
    /\ hpc' = "closing"
    /\ UNCHANGED <<locks, pipe, bytes, regions, faults, hreg, pc, calls, poisoned, missing, fdTable>>

\* ... and drops the pipe when the readers are gone.
HandlerClose ==
    /\ hpc = "closing" /\ readers = {}
    /\ pipe' = FALSE
    /\ bytes' = 0
    /\ hpc' = "none"
    /\ UNCHANGED <<locks, regions, faults, hreg, pc, calls, poisoned, missing, fdTable>>

HandlerStep ==
    \/ HandlerStart \/ HandlerLock \/ HandlerFault \/ Serve \/ ServeFails
    \/ HandlerNotified \/ Consume \/ HandlerLeave \/ HandlerClose

\* A step inside register_file_backend, unregister_file_backend or write.
CallStep(c) ==
    \/ UffdFails(c) \/ TryRegions(c) \/ NotifyRegions(c) \/ WaitRegions(c)
    \/ Push(c) \/ Remove(c) \/ WriteEnd(c)

Next ==
    \/ HandlerStep
    \/ \E c \in Clients :
          \/ CallStep(c) \/ Write(c)
          \/ \E r \in Regions : Register(c, r) \/ Unregister(c, r) \/ Touch(c, r)

Spec == Init /\ [][Next]_vars

\* The threads are scheduled, and a mutex that is free again and again is got.
Fairness ==
    /\ WF_vars(HandlerStep)
    /\ \A c \in Clients : SF_vars(CallStep(c))

FairSpec == Spec /\ Fairness

-----------------------------------------------------------------------------
(* Properties *)

\* A handler is spawned only when the last one is through: a client that finds
\* no pipe finds no handler either, and a handler always has its pipe, so
\* neither unwrap() nor expect("pipe not exist?") fails (apis.rs:25, 66, 71-72).
OneHandler == pipe <=> hpc # "none"

\* From the moment the handler gives epoll the regions' indices until it has
\* used the index it got back, no region is pushed or removed: an index always
\* names the region whose userfaultfd was ready (apis.rs:37-62, 95, 127).
IndexStable == [][(hpc \in {"epoll", "serve"}) => (regions' = regions)]_vars

\* The second read lock unregister takes while it still holds the first is
\* never asked for behind a waiting writer, which would deadlock
\* (apis.rs:117-123, lib.rs:142-155).
NestedReadSafe ==
    \A c \in Clients : pc[c] = "unmap" /\ hpc = "closing" => regionsLock = Nobody

\* A write whose source is a page that is not there: it sleeps with FD_TABLE
\* locked, and the handler waits for FD_TABLE (fdtab apis.rs:40-51, lib.rs:79-80).
WriteFaults(c) == pc[c] = "fault" /\ fdTable = c

\* While a handler is in its loop and does not panic, every page fault is
\* served: neither the notifications of clients that map and unmap nor their
\* writes starve the faulting thread.  The one exception is a write that faults
\* itself, after which no page is served any more (apis.rs:29-69).
FaultsServed ==
    \A c \in Clients :
        pc[c] = "fault" /\ hpc \in {"start", "loop", "epoll", "serve", "consume"}
            ~> pc[c] # "fault" \/ poisoned \/ \E d \in Clients : WriteFaults(d)

==============================================================================
