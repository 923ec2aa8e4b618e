------------------------------- MODULE Metric --------------------------------
(***************************************************************************)
(* The run-time metrics of an isolation and of one of its services          *)
(* (libasvisor/src/metric.rs).  Threads that run the service's function mark *)
(* SvcRun before it and SvcEnd after it, but only if it succeeded           *)
(* (service/elf_service.rs).  The marks are plain timestamps, in            *)
(* milliseconds, in two vectors, which the analysis zips together.  The     *)
(* isolation marks its begin and its end, in microseconds, the end only if  *)
(* run() succeeds.  The clock is the system's, assumed not to be set back.  *)
(***************************************************************************)
EXTENDS Integers, Sequences, FiniteSets, Functions

CONSTANTS Runs,       \* the runs of the service's function, one thread each
          Milli,        \* microseconds in a millisecond
          Wrap,         \* 2^128, where the release build's subtraction wraps
          MaxTime       \* bound on the clock

\* Nobody lives to see the clock reach 2^128 microseconds.
ASSUME MetricAssumption ==
    /\ IsFiniteSet(Runs)
    /\ Milli \in Nat \ {0}
    /\ MaxTime \in Nat \ {0}
    /\ Wrap \in Nat /\ (MaxTime + 1) * Milli <= Wrap

VARIABLES now, us,    \* the clock: milliseconds, and microseconds of the next
          beginT, stopT, \* the isolation's begin_t and end_t
          end,          \* what run() has returned: "none", "ok" or "err"
          debug,        \* built with debug_assertions
          report,       \* what analyze printed: total_dur and the run_durs
          initT,        \* init_t, 0 before SvcInit
          runT, endT,   \* run_t, end_t
          st,           \* [Runs -> {"idle", "running", "ok", "err"}]
          began, ended  \* [Runs -> Nat]: when each run really began and ended (history)

isol == <<beginT, stopT, end, debug, report>>
vars == <<now, us, isol, initT, runT, endT, st, began, ended>>

now_microsec == now * Milli + us

\* Isolation::new has marked IsolBegin, at any microsecond of the first
\* millisecond.
Init ==
    /\ now = 1 /\ us \in 0..(Milli - 1)
    /\ beginT = now_microsec
    /\ stopT = 0
    /\ end = "none"
    /\ debug \in BOOLEAN
    /\ report = [total |-> 0, durs |-> <<>>]
    /\ initT = 0
    /\ runT = <<>>
    /\ endT = <<>>
    /\ st = [r \in Runs |-> "idle"]
    /\ began = [r \in Runs |-> 0]
    /\ ended = [r \in Runs |-> 0]

Tick ==
    /\ now < MaxTime
    /\ IF us + 1 = Milli THEN now' = now + 1 /\ us' = 0 ELSE us' = us + 1 /\ UNCHANGED now
    /\ UNCHANGED <<isol, initT, runT, endT, st, began, ended>>

\* ServiceLoader::load marks SvcInit on the new bucket.
SvcInit ==
    /\ initT = 0 /\ end = "none"
    /\ initT' = now
    /\ UNCHANGED <<now, us, isol, runT, endT, st, began, ended>>

\* Mutant: only the first run is marked, as for SvcInit.
SvcRunFirst(r) ==
    /\ end = "none" /\ initT # 0 /\ st[r] = "idle"
    /\ runT' = IF runT = <<>> THEN <<now>> ELSE runT
    /\ st' = [st EXCEPT ![r] = "running"]
    /\ began' = [began EXCEPT ![r] = now]
    /\ UNCHANGED <<now, us, isol, initT, endT, ended>>

\* Mutant: the mark is taken with now_microsec! instead of now_millis!.
SvcRunMicros(r) ==
    /\ end = "none" /\ initT # 0 /\ st[r] = "idle"
    /\ runT' = Append(runT, now_microsec)
    /\ st' = [st EXCEPT ![r] = "running"]
    /\ began' = [began EXCEPT ![r] = now]
    /\ UNCHANGED <<now, us, isol, initT, endT, ended>>

\* ElfService::run, before the function.
SvcRun(r) ==
    /\ end = "none" /\ initT # 0 /\ st[r] = "idle"
    /\ runT' = Append(runT, now)
    /\ st' = [st EXCEPT ![r] = "running"]
    /\ began' = [began EXCEPT ![r] = now]
    /\ UNCHANGED <<now, us, isol, initT, endT, ended>>

\* ElfService::run, after the function returned Ok.
SvcEnd(r) ==
    /\ st[r] = "running"
    /\ endT' = Append(endT, now)
    /\ st' = [st EXCEPT ![r] = "ok"]
    /\ ended' = [ended EXCEPT ![r] = now]
    /\ UNCHANGED <<now, us, isol, initT, runT, began>>

\* The function returned Err or panicked: no mark.
SvcFail(r) ==
    /\ st[r] = "running"
    /\ st' = [st EXCEPT ![r] = "err"]
    /\ ended' = [ended EXCEPT ![r] = now]
    /\ UNCHANGED <<now, us, isol, initT, runT, endT, began>>

-----------------------------------------------------------------------------
(* The analysis: SvcMetricBucketInner::to_json, MetricBucketInner::to_json *)

\* zip(&run_t, &end_t): the indices of the pairs.
Zipped == {i \in 1..Len(runT) : i <= Len(endT)}

\* run_dur of the i-th pair.
RunDur(i) == endT[i] - runT[i]

\* What avg_run_dur divides by the number of pairs.
TotalRunDur == SumFunction([i \in Zipped |-> RunDur(i)])

\* Mutant: the end is marked with now_millis!.
IsolEndMillis ==
    /\ end = "none" /\ \A r \in Runs : st[r] \in {"idle", "ok"}
    /\ stopT' = now
    /\ end' = "ok"
    /\ UNCHANGED <<now, us, beginT, debug, report, initT, runT, endT, st, began, ended>>

\* Isolation::run: every function has succeeded.
IsolEnd ==
    /\ end = "none" /\ \A r \in Runs : st[r] \in {"idle", "ok"}
    /\ stopT' = now_microsec
    /\ end' = "ok"
    /\ UNCHANGED <<now, us, beginT, debug, report, initT, runT, endT, st, began, ended>>

\* Isolation::run returns an error, of a function or of a load or spawn, once
\* the threads it started are joined: no mark.
IsolFail ==
    /\ end = "none" /\ \A r \in Runs : st[r] # "running"
    /\ end' = "err"
    /\ UNCHANGED <<now, us, beginT, stopT, debug, report, initT, runT, endT, st, began, ended>>

\* main analyses the metrics as its option says; in a debug build a failed run
\* has made it panic before.
analyze(opt) ==
    /\ end = "ok" \/ (end = "err" /\ ~debug)
    /\ report' = IF opt \in {"None", "Mem"} THEN report
                 ELSE [total |-> (stopT - beginT) % Wrap,
                       durs |-> IF opt = "All" THEN [i \in 1..Cardinality(Zipped) |-> RunDur(i)] ELSE <<>>]
    /\ UNCHANGED <<now, us, beginT, stopT, end, debug, initT, runT, endT, st, began, ended>>

Next ==
    \/ Tick \/ SvcInit
    \/ \E r \in Runs : SvcRun(r) \/ SvcEnd(r) \/ SvcFail(r)
    \/ IsolEnd \/ IsolFail
    \/ \E opt \in {"None", "All", "TotalDur", "Mem"} : analyze(opt)

Spec == Init /\ [][Next]_vars

-----------------------------------------------------------------------------
(* Properties *)

TypeOK ==
    /\ now \in Nat \ {0}
    /\ us \in 0..(Milli - 1)
    /\ beginT \in Nat
    /\ stopT \in Nat
    /\ end \in {"none", "ok", "err"}
    /\ initT \in Nat
    /\ runT \in Seq(Nat)
    /\ endT \in Seq(Nat)
    /\ st \in [Runs -> {"idle", "running", "ok", "err"}]
    /\ began \in [Runs -> Nat]
    /\ ended \in [Runs -> Nat]

\* The subtractions of the analysis never underflow, whatever the order in
\* which threads mark and however many of them fail: the i-th end never comes
\* before the i-th start, though the two may belong to different threads
\* (metric.rs:148-153).
DurationsNonneg ==
    \A i \in Zipped : runT[i] <= endT[i] /\ initT <= runT[i]

\* The pairs may mix threads up, but when every run that began has succeeded the
\* sum of their durations, and so the average, is that of the runs
\* (metric.rs:156-159).
AverageExact ==
    (\A r \in Runs : st[r] \in {"idle", "ok"}) =>
        TotalRunDur = SumFunction([r \in Runs |-> ended[r] - began[r]])

\* In the report of a run that succeeded no function took longer than the whole
\* isolation, up to the rounding of its marks to milliseconds: run() marks its
\* end after it has joined every thread.  After a failed run end_t is still 0 and
\* the total wraps around (metric.rs:28, mod.rs:256-258).
WithinIsolation ==
    end = "ok" => \A i \in DOMAIN report.durs : Milli * report.durs[i] < report.total + Milli
==============================================================================
