------------------------------ MODULE StagedRun ------------------------------
(***************************************************************************)
(* What Isolation::run promises of a workflow, without saying how: the      *)
(* functions of a stage start only after every function of every earlier    *)
(* stage has succeeded, run() returns only when no function is running, and *)
(* what it returns tells what happened to the functions.                    *)
(***************************************************************************)
EXTENDS Naturals

CONSTANT Plans        \* the sets of tasks <<stage, position>> a workflow may have

VARIABLES tasks,      \* the tasks of this workflow
          status,       \* [tasks -> Status]
          outcome        \* "none" until run() is over, then "ok", "err" or "panicked"

stagedVars == <<tasks, status, outcome>>

Status == {"idle", "running", "ok", "err", "panic"}
Finished == {"ok", "err", "panic"}

Init ==
    /\ tasks \in Plans
    /\ status = [t \in tasks |-> "idle"]
    /\ outcome = "none"

\* A function starts: everything before its stage has succeeded.
Begin(t) ==
    /\ outcome = "none"
    /\ status[t] = "idle"
    /\ \A u \in tasks : u[1] < t[1] => status[u] = "ok"
    /\ status' = [status EXCEPT ![t] = "running"]
    /\ UNCHANGED <<tasks, outcome>>

\* A function returns Ok, returns Err or panics.
End(t, o) ==
    /\ status[t] = "running"
    /\ status' = [status EXCEPT ![t] = o]
    /\ UNCHANGED <<tasks, outcome>>

\* run() is over.  Ok: every function succeeded.  A panic of a function is
\* never turned into an Err, and run() panics only if a function did.
Return(o) ==
    /\ outcome = "none"
    /\ \A t \in tasks : status[t] # "running"
    /\ o = "ok" => \A t \in tasks : status[t] = "ok"
    /\ o = "panicked" <=> \E t \in tasks : status[t] = "panic"
    /\ outcome' = o
    /\ UNCHANGED <<tasks, status>>

Next ==
    \/ \E t \in tasks : Begin(t)
    \/ \E t \in tasks, o \in Finished : End(t, o)
    \/ \E o \in {"ok", "err", "panicked"} : Return(o)

Spec == Init /\ [][Next]_stagedVars
==============================================================================
