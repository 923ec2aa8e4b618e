------------------------------- MODULE Daemon --------------------------------
(***************************************************************************)
(* asvisor-d (bins/asvisor-d/src/main.rs): every request builds an          *)
(* isolation of its own, runs it on a blocking thread and drops it.         *)
(* The isolation of request r is called r.                                  *)
(***************************************************************************)
EXTENDS IsolTable, FiniteSets

CONSTANT MaxInFlight   \* how many requests the clients have open at a time

VARIABLES pc,         \* [Isols -> ...]: where the request's thread is
          unwinding,   \* [Isols -> BOOLEAN]: it is unwinding from a panic
          ref,          \* [Isols -> Isols]: what the pending host call's get_isol returned
          aborted        \* a panic during unwinding ended the process

vars == <<tableVars, pc, unwinding, ref, aborted>>

Open == {r \in Isols : pc[r] \notin {"idle", "done"}}

Init ==
    /\ TableInit
    /\ pc = [r \in Isols |-> "idle"]
    /\ unwinding = [r \in Isols |-> FALSE]
    /\ ref = [r \in Isols |-> r]
    /\ aborted = FALSE

\* A request whose configuration cannot be read is refused.
Refuse(r) ==
    /\ pc[r] = "idle" /\ Cardinality(Open) < MaxInFlight
    /\ pc' = [pc EXCEPT ![r] = "done"]
    /\ UNCHANGED <<tableVars, unwinding, ref, aborted>>

\* A request arrives: Isolation::new takes an id ...
Arrive(r) ==
    /\ pc[r] = "idle" /\ Cardinality(Open) < MaxInFlight
    /\ GenNewId(r)
    /\ pc' = [pc EXCEPT ![r] = "named"]
    /\ UNCHANGED <<table, poisoned, strong, unwinding, ref, aborted>>

\* Mutant: a poisoned table is waited for.
RegisterWait(r) ==
    /\ pc[r] = "named" /\ ~poisoned
    /\ Push(r)
    /\ pc' = [pc EXCEPT ![r] = "running"]
    /\ UNCHANGED <<idKeeper, poisoned, id, unwinding, ref, aborted>>

\* ... and registers the isolation.  With a poisoned table lock().unwrap()
\* panics, and so does the drop of the new isolation during that unwinding.
Register(r) ==
    /\ pc[r] = "named"
    /\ IF poisoned
       THEN aborted' = TRUE /\ UNCHANGED <<table, strong, pc>>
       ELSE Push(r) /\ pc' = [pc EXCEPT ![r] = "running"] /\ UNCHANGED aborted
    /\ UNCHANGED <<idKeeper, poisoned, id, unwinding, ref>>

\* A function's host call: find_host_call resolves the isolation by its id, and
\* panics when there is none.
HostCall(r) ==
    /\ pc[r] = "running" /\ ~unwinding[r]
    /\ IF Resolves(id[r])
       THEN /\ ref' = [ref EXCEPT ![r] = Target(id[r])]
            /\ Acquire(Target(id[r]))
            /\ pc' = [pc EXCEPT ![r] = "call"]
            /\ UNCHANGED unwinding
       ELSE /\ unwinding' = [unwinding EXCEPT ![r] = TRUE]
            /\ UNCHANGED <<ref, strong, pc>>
    /\ UNCHANGED <<idKeeper, table, poisoned, id, aborted>>

\* The host call returns, or panics, and drops its Arc.
HostCallDone(r, panics) ==
    /\ pc[r] = "call"
    /\ Release(ref[r])
    /\ pc' = [pc EXCEPT ![r] = IF strong[ref[r]] = 1 THEN "dropRef" ELSE "running"]
    /\ unwinding' = [unwinding EXCEPT ![r] = panics]
    /\ UNCHANGED <<idKeeper, table, poisoned, id, ref, aborted>>

\* Isolation::run is over on the request's thread, which drops its Arc.
RunDone(r) ==
    /\ pc[r] = "running"
    /\ Release(r)
    /\ pc' = [pc EXCEPT ![r] = IF strong[r] = 1 THEN "dropOwn" ELSE "done"]
    /\ UNCHANGED <<idKeeper, table, poisoned, id, unwinding, ref, aborted>>

\* Drop for Isolation, on the thread that dropped the last Arc of o.  A failing
\* remove panics with the mutex held; a panic while unwinding aborts.
DropIsol(r, o) ==
    IF Removable(o)
    THEN Remove(o) /\ UNCHANGED <<poisoned, unwinding, aborted>>
    ELSE /\ poisoned' = TRUE
         /\ aborted' = unwinding[r]
         /\ unwinding' = [unwinding EXCEPT ![r] = TRUE]
         /\ UNCHANGED table

DropRef(r) ==
    /\ pc[r] = "dropRef"
    /\ DropIsol(r, ref[r])
    /\ pc' = [pc EXCEPT ![r] = "running"]
    /\ UNCHANGED <<idKeeper, id, strong, ref>>

DropOwn(r) ==
    /\ pc[r] = "dropOwn"
    /\ DropIsol(r, r)
    /\ pc' = [pc EXCEPT ![r] = "done"]
    /\ UNCHANGED <<idKeeper, id, strong, ref>>

Serve(r) ==
    /\ ~aborted
    /\ \/ Register(r)
       \/ \E panics \in BOOLEAN : HostCallDone(r, panics)
       \/ RunDone(r)
       \/ DropRef(r) \/ DropOwn(r)

Next ==
    \E r \in Isols :
       \/ ~aborted /\ (Refuse(r) \/ Arrive(r) \/ HostCall(r))
       \/ Serve(r)

\* Threads are scheduled, host calls return and functions end.
Fairness == \A r \in Isols : WF_vars(Serve(r)) /\ SF_vars(~aborted /\ RunDone(r))

Spec == Init /\ [][Next]_vars
FairSpec == Spec /\ Fairness

-----------------------------------------------------------------------------
(* Properties *)

\* The isolations a thread is in Drop for.
Dropping(r) ==
    CASE pc[r] = "dropOwn" -> {r} [] pc[r] = "dropRef" -> {ref[r]} [] OTHER -> {}

\* No host call uses an isolation whose value is being or has been dropped, even
\* when the table has shifted and the call holds another request's isolation:
\* the upgraded Arc keeps it alive (mod.rs:44-56).  And each value is dropped
\* once: no two threads are in Drop for it, and none before it is dead
\* (mod.rs:262-266).
NoUseAfterDrop ==
    \A r, s \in Isols :
        /\ pc[r] = "call" => strong[ref[r]] > 0 /\ ref[r] \notin Dropping(s)
        /\ \A o \in Dropping(r) : strong[o] = 0 /\ (r # s => o \notin Dropping(s))

\* Every request that got an id is answered, unless the process aborts: no
\* thread waits for the table forever (asvisor-d main.rs:40-43).
RequestsEnd ==
    \A r \in Isols : pc[r] = "named" ~> pc[r] = "done" \/ aborted

\* What expect("isol don't exist?") asserts (handler.rs:30): the isolation of a
\* running function can be found by its id.
IsolExists ==
    \A r \in Isols : pc[r] = "running" /\ ~unwinding[r] => Resolves(id[r])
==============================================================================
