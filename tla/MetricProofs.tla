---------------------------- MODULE MetricProofs -----------------------------
(***************************************************************************)
(* The analysis of the metrics never underflows, its average is that of the *)
(* runs when none has failed, and no duration it reports exceeds that of an *)
(* isolation that ran through, for any number of runs.                      *)
(***************************************************************************)
EXTENDS Metric, FiniteSetTheorems, TLAPS

Began == {r \in Runs : st[r] # "idle"}
Succeeded == {r \in Runs : st[r] = "ok"}

\* One mark for every run that began, and one for every run that succeeded.
Counted == Len(runT) = Cardinality(Began) /\ Len(endT) = Cardinality(Succeeded)

\* The marks of the starts lie between the load of the service and now.
Dated ==
    /\ runT # <<>> => initT # 0
    /\ initT <= now
    /\ \A i \in 1..Len(runT) : initT <= runT[i] /\ runT[i] <= now

IInv == TypeOK /\ Counted /\ Dated /\ DurationsNonneg

\* A set of runs is finite, so that its members can be counted.
LEMMA RunsFinite ==
    ASSUME NEW S \in SUBSET Runs
    PROVE  IsFiniteSet(S) /\ Cardinality(S) \in Nat
BY Zenon, MetricAssumption, FS_Subset, FS_CardinalityType

\* Adding a run to a set of runs adds one to its size.
LEMMA AddRun ==
    ASSUME NEW S \in SUBSET Runs, NEW r \in Runs, r \notin S
    PROVE  Cardinality(S \cup {r}) = Cardinality(S) + 1
BY Zenon, RunsFinite, FS_AddElement

\* No more runs have succeeded than have begun (elf_service.rs:317-334).
LEMMA EndsAfterStarts ==
    ASSUME Counted, NEW r \in Runs, st[r] = "running"
    PROVE  Len(endT) + 1 <= Len(runT)
<1>1. Succeeded \cup {r} \subseteq Began /\ r \notin Succeeded
  BY Zenon DEF Succeeded, Began
<1>2. Succeeded \in SUBSET Runs /\ Began \in SUBSET Runs
  BY Zenon DEF Succeeded, Began
<1>3. Cardinality(Succeeded \cup {r}) = Cardinality(Succeeded) + 1
  BY Zenon, <1>1, <1>2, AddRun
<1>4. Cardinality(Succeeded \cup {r}) <= Cardinality(Began)
  BY Zenon, <1>1, <1>2, RunsFinite, FS_Subset
<1> QED  BY Zenon, <1>3, <1>4 DEF Counted

\* Nothing is marked before the service is loaded.
LEMMA InitIInv == Init => IInv
<1> SUFFICES ASSUME Init PROVE IInv
  BY Zenon
<1>1. Began = {} /\ Succeeded = {}
  BY Zenon DEF Init, Began, Succeeded
<1>2. Counted
  BY Zenon, <1>1, FS_EmptySet DEF Init, Counted
<1>3. now_microsec \in Nat
  <2>1. now \in Nat /\ us \in Nat /\ Milli \in Nat
    BY MetricAssumption DEF Init
  <2> QED  BY <2>1 DEF now_microsec
<1>4. TypeOK
  BY <1>3, MetricAssumption DEF Init, TypeOK
<1> QED  BY <1>2, <1>4 DEF Init, IInv, Dated, DurationsNonneg, Zipped

\* The clock only grows.
LEMMA TickIInv == ASSUME IInv, Tick PROVE IInv'
<1>1. UNCHANGED <<beginT, stopT, end, initT, runT, endT, st, began, ended>>
  BY Zenon DEF Tick, isol
<1>2. Began' = Began /\ Succeeded' = Succeeded
  BY Zenon, <1>1 DEF Began, Succeeded
<1>3. now' \in Nat \ {0} /\ now <= now' /\ us' \in 0..(Milli - 1)
  BY MetricAssumption DEF Tick, IInv, TypeOK
<1>4. TypeOK'
  BY Zenon, <1>1, <1>3 DEF IInv, TypeOK
<1>5. Dated'
  <2>1. now \in Nat /\ initT \in Nat /\ initT <= now
    BY Zenon DEF IInv, TypeOK, Dated
  <2>2. initT <= now'
    BY <1>3, <2>1
  <2>3. ASSUME NEW i \in 1..Len(runT) PROVE initT <= runT[i] /\ runT[i] <= now'
    <3>1. runT[i] \in Nat /\ initT <= runT[i] /\ runT[i] <= now
      BY DEF IInv, TypeOK, Dated
    <3> QED  BY <1>3, <2>1, <3>1
  <2>4. runT # <<>> => initT # 0
    BY Zenon DEF IInv, Dated
  <2> QED  BY Zenon, <1>1, <2>2, <2>3, <2>4 DEF Dated
<1> QED  BY Zenon, <1>1, <1>2, <1>4, <1>5 DEF IInv, Counted, DurationsNonneg, Zipped

\* The load of the service is marked before any run (loader.rs:78).
LEMMA SvcInitIInv == ASSUME IInv, SvcInit PROVE IInv'
<1> USE DEF IInv, TypeOK, SvcInit, isol
<1>1. Began' = Began /\ Succeeded' = Succeeded
  BY Zenon DEF Began, Succeeded
<1>2. Len(runT) = 0
  BY DEF Dated
<1> QED  BY <1>1, <1>2 DEF Counted, Dated, DurationsNonneg, Zipped

\* A run begins: its mark is the latest of all (metric.rs:189).
LEMMA SvcRunIInv == ASSUME IInv, NEW r \in Runs, SvcRun(r) PROVE IInv'
<1> USE DEF IInv, TypeOK, SvcRun, isol
<1>1. TypeOK'
  OBVIOUS
<1>2. Began' = Began \cup {r} /\ r \notin Began /\ Succeeded' = Succeeded
  BY Zenon DEF Began, Succeeded
<1>3. Counted'
  <2>1. Began \in SUBSET Runs
    BY Zenon DEF Began
  <2>2. Cardinality(Began') = Cardinality(Began) + 1
    BY Zenon, <1>2, <2>1, AddRun
  <2> QED  BY <1>2, <2>2 DEF Counted
<1>4. Len(runT') = Len(runT) + 1 /\ \A i \in 1..Len(runT') :
         runT'[i] = IF i <= Len(runT) THEN runT[i] ELSE now
  <2>1. runT \in Seq(Nat) /\ now \in Nat /\ runT' = Append(runT, now)
    BY Zenon
  <2> HIDE DEF IInv, TypeOK, SvcRun, isol
  <2> QED  BY <2>1
<1>5. Dated'
  BY <1>1, <1>4 DEF Dated
<1>6. Len(endT) <= Len(runT)
  <2>1. Succeeded \subseteq Began /\ Succeeded \in SUBSET Runs /\ Began \in SUBSET Runs
    BY Zenon DEF Succeeded, Began
  <2>2. Cardinality(Succeeded) <= Cardinality(Began)
    BY Zenon, <2>1, RunsFinite, FS_Subset
  <2> QED  BY Zenon, <2>2 DEF Counted
<1>7. DurationsNonneg'
  BY SMTT(60), <1>4, <1>6 DEF DurationsNonneg, Zipped
<1> QED  BY Zenon, <1>1, <1>3, <1>5, <1>7

\* A run succeeds: there is a start for its end, and it is not later than now
\* (metric.rs:190).
LEMMA SvcEndIInv == ASSUME IInv, NEW r \in Runs, SvcEnd(r) PROVE IInv'
<1> USE DEF IInv, TypeOK, SvcEnd, isol
<1>1. TypeOK'
  OBVIOUS
<1>2. Succeeded' = Succeeded \cup {r} /\ r \notin Succeeded /\ Began' = Began
  BY Zenon DEF Began, Succeeded
<1>3. Counted'
  <2>1. Succeeded \in SUBSET Runs
    BY Zenon DEF Succeeded
  <2>2. Cardinality(Succeeded') = Cardinality(Succeeded) + 1
    BY Zenon, <1>2, <2>1, AddRun
  <2>3. Len(endT') = Len(endT) + 1 /\ Len(runT') = Len(runT)
    OBVIOUS
  <2>4. Len(runT) = Cardinality(Began) /\ Len(endT) = Cardinality(Succeeded)
    BY Zenon DEF Counted
  <2> QED  BY Zenon, <1>2, <2>2, <2>3, <2>4 DEF Counted
<1>4. Dated'
  BY Zenon DEF Dated
<1>5. Len(endT) + 1 <= Len(runT)
  BY Zenon, EndsAfterStarts
<1>6. Len(endT') = Len(endT) + 1 /\ \A i \in 1..Len(endT') :
         endT'[i] = IF i <= Len(endT) THEN endT[i] ELSE now
  <2>1. endT \in Seq(Nat) /\ now \in Nat /\ endT' = Append(endT, now)
    BY Zenon
  <2> HIDE DEF IInv, TypeOK, SvcEnd, isol
  <2> QED  BY <2>1
<1>7. DurationsNonneg'
  BY SMTT(60), <1>5, <1>6 DEF Dated, DurationsNonneg, Zipped
<1> QED  BY Zenon, <1>1, <1>3, <1>4, <1>7

\* A failing run leaves no mark.
LEMMA SvcFailIInv == ASSUME IInv, NEW r \in Runs, SvcFail(r) PROVE IInv'
<1> USE DEF IInv, TypeOK, SvcFail, isol
<1>1. Began' = Began /\ Succeeded' = Succeeded
  BY Zenon DEF Began, Succeeded
<1> QED  BY Zenon, <1>1 DEF Counted, Dated, DurationsNonneg, Zipped

\* The end of the isolation and the analysis leave the service's marks alone
\* (mod.rs:256-258, metric.rs:91-126).
LEMMA IsolIInv ==
    ASSUME IInv, \/ IsolEnd \/ IsolFail
                 \/ \E opt \in {"None", "All", "TotalDur", "Mem"} : analyze(opt)
    PROVE  IInv'
<1>1. UNCHANGED <<now, us, beginT, initT, runT, endT, st, began, ended>>
  BY Zenon DEF IsolEnd, IsolFail, analyze
<1>2. Began' = Began /\ Succeeded' = Succeeded
  BY Zenon, <1>1 DEF Began, Succeeded
<1>3. now_microsec \in Nat
  <2>1. now \in Nat /\ us \in Nat /\ Milli \in Nat
    BY MetricAssumption DEF IInv, TypeOK
  <2> QED  BY <2>1 DEF now_microsec
<1>4. stopT' \in Nat /\ end' \in {"none", "ok", "err"}
  BY Zenon, <1>3 DEF IsolEnd, IsolFail, analyze, IInv, TypeOK
<1> QED  BY Zenon, <1>1, <1>2, <1>4 DEF IInv, TypeOK, Counted, Dated, DurationsNonneg, Zipped

\* The invariant of the marks.
LEMMA Inductive == Spec => []IInv
<1>1. Init => IInv
  BY Zenon, InitIInv
<1>2. IInv /\ [Next]_vars => IInv'
  <2>1. IInv /\ UNCHANGED vars => IInv'
    <3> SUFFICES ASSUME IInv, UNCHANGED vars PROVE IInv'
      BY Zenon
    <3>1. Began' = Began /\ Succeeded' = Succeeded
      BY Zenon DEF Began, Succeeded, vars
    <3> QED  BY Zenon, <3>1 DEF vars, isol, IInv, TypeOK, Counted, Dated, DurationsNonneg, Zipped
  <2> QED  BY Zenon, <2>1, TickIInv, SvcInitIInv, SvcRunIInv, SvcEndIInv, SvcFailIInv, IsolIInv DEF Next
<1> QED  BY <1>1, <1>2, PTL DEF Spec

\* to_json never subtracts a later time from an earlier one, for any number of
\* runs in any order of marks and with any of them failing (metric.rs:148-153).
THEOREM NoUnderflow == Spec => []DurationsNonneg
<1>1. IInv => DurationsNonneg
  BY Zenon DEF IInv
<1> QED  BY <1>1, Inductive, PTL

-----------------------------------------------------------------------------
(* The report of an isolation that ran through                              *)

\* The isolation began in the first millisecond, its threads are joined before
\* run() returns, and the end it marks is not before any end of a run.
Timed ==
    /\ now <= MaxTime
    /\ Milli <= beginT /\ beginT < 2 * Milli /\ beginT <= now_microsec
    /\ \A i \in 1..Len(endT) : endT[i] <= now
    /\ \A r \in Runs : st[r] = "running" => end = "none"
    /\ end = "none" => report.durs = <<>>
    /\ end = "ok" => /\ beginT <= stopT /\ stopT <= now_microsec
                     /\ \A i \in 1..Len(endT) : Milli * endT[i] <= stopT

\* Products with the microseconds of a millisecond.
LEMMA MilliTimes ==
    ASSUME NEW a \in Nat, NEW b \in Nat
    PROVE  /\ Milli * a \in Nat
           /\ Milli * a = a * Milli
           /\ Milli * (a - b) = Milli * a - Milli * b
           /\ a <= b => Milli * a <= Milli * b
BY MetricAssumption

\* A tick of the clock is a microsecond (utils.rs:45-53).
LEMMA TickMicro ==
    ASSUME TypeOK, Tick
    PROVE  now_microsec \in Nat /\ now_microsec' = now_microsec + 1
<1>1. now \in Nat /\ us \in Nat /\ us + 1 <= Milli /\ Milli \in Nat
  BY MetricAssumption DEF TypeOK
<1>2. now * Milli \in Nat /\ (now + 1) * Milli = now * Milli + Milli
  BY <1>1
<1>3. CASE us + 1 = Milli
  BY <1>1, <1>2, <1>3 DEF Tick, now_microsec
<1>4. CASE us + 1 # Milli
  BY <1>1, <1>2, <1>4 DEF Tick, now_microsec
<1> QED  BY Zenon, <1>3, <1>4

\* Nothing has run when the isolation has just begun (mod.rs:92).
LEMMA InitTimed == Init => Timed
<1> SUFFICES ASSUME Init PROVE Timed
  OBVIOUS
<1>1. now = 1 /\ us \in 0..(Milli - 1) /\ Milli \in Nat
  BY Zenon, MetricAssumption DEF Init
<1>2. now_microsec = Milli + us
  BY <1>1 DEF now_microsec
<1>3. Milli <= beginT /\ beginT < 2 * Milli /\ beginT <= now_microsec
  BY <1>1, <1>2 DEF Init
<1> QED  BY <1>3, MetricAssumption DEF Init, Timed

\* The clock passes the marks.
LEMMA TickTimed == ASSUME IInv, Timed, Tick PROVE Timed'
<1>1. UNCHANGED <<beginT, stopT, end, report, endT, st>>
  BY Zenon DEF Tick, isol
<1>2. now_microsec \in Nat /\ now_microsec' = now_microsec + 1
  BY Zenon, TickMicro DEF IInv
<1>3. now \in Nat /\ now' \in Nat /\ now <= now' /\ now' <= MaxTime
  <2>1. now \in Nat /\ MaxTime \in Nat /\ now < MaxTime
    BY Zenon, MetricAssumption DEF Tick, IInv, TypeOK
  <2> QED  BY <2>1 DEF Tick
<1>4. \A i \in 1..Len(endT) : endT[i] <= now'
  <2>1. ASSUME NEW i \in 1..Len(endT) PROVE endT[i] \in Nat /\ endT[i] <= now
    BY DEF IInv, TypeOK, Timed
  <2> QED  BY <1>3, <2>1
<1>5. beginT \in Nat /\ stopT \in Nat
  BY Zenon DEF IInv, TypeOK
<1>6. beginT <= now_microsec'
  BY <1>2, <1>5 DEF Timed
<1>7. end = "ok" => stopT <= now_microsec'
  BY <1>2, <1>5 DEF Timed
<1> QED  BY Zenon, <1>1, <1>3, <1>4, <1>6, <1>7 DEF Timed

\* A service is loaded and its function called only while run() is under way.
LEMMA StartTimed ==
    ASSUME IInv, Timed, SvcInit \/ \E r \in Runs : SvcRun(r)
    PROVE  Timed'
<1>1. UNCHANGED <<now, us, beginT, stopT, end, report, endT>> /\ end = "none"
  BY Zenon DEF SvcInit, SvcRun, isol
<1>2. now_microsec' = now_microsec
  BY Zenon, <1>1 DEF now_microsec
<1> QED  BY Zenon, <1>1, <1>2 DEF Timed

\* So its end is marked before run() marks its own (elf_service.rs:331-334).
LEMMA EndTimed ==
    ASSUME IInv, Timed, NEW r \in Runs, SvcEnd(r) \/ SvcFail(r)
    PROVE  Timed'
<1>1. UNCHANGED <<now, us, beginT, stopT, end, report>> /\ end = "none"
  BY Zenon DEF SvcEnd, SvcFail, isol, Timed
<1>2. now_microsec' = now_microsec
  BY Zenon, <1>1 DEF now_microsec
<1>3. \A i \in 1..Len(endT') : endT'[i] <= now
  <2>1. endT \in Seq(Nat) /\ now \in Nat /\ \A i \in 1..Len(endT) : endT[i] <= now
    BY Zenon DEF IInv, TypeOK, Timed
  <2>2. endT' = endT \/ endT' = Append(endT, now)
    BY Zenon DEF SvcEnd, SvcFail
  <2> QED  BY <2>1, <2>2
<1>4. \A q \in Runs : st'[q] = "running" => end' = "none"
  BY Zenon, <1>1
<1> QED  BY Zenon, <1>1, <1>2, <1>3, <1>4 DEF Timed

\* Isolation::run marks the end of a run that succeeded, after all of them
\* (mod.rs:256-258).
LEMMA ReturnTimed == ASSUME IInv, Timed, IsolEnd \/ IsolFail PROVE Timed'
<1>1. UNCHANGED <<now, us, beginT, report, endT, st>> /\ \A r \in Runs : st[r] # "running"
  BY Zenon DEF IsolEnd, IsolFail
<1>2. now_microsec' = now_microsec
  BY Zenon, <1>1 DEF now_microsec
<1>3. end' = "ok" => stopT' = now_microsec
  BY Zenon DEF IsolEnd, IsolFail
<1>4. \A i \in 1..Len(endT) : Milli * endT[i] <= now_microsec
  <2>1. ASSUME NEW i \in 1..Len(endT) PROVE Milli * endT[i] <= now_microsec
    <3>1. endT[i] \in Nat /\ now \in Nat /\ endT[i] <= now /\ us \in Nat
      BY DEF IInv, TypeOK, Timed
    <3>2. Milli * endT[i] <= Milli * now /\ Milli * now = now * Milli /\ Milli * now \in Nat
          /\ Milli * endT[i] \in Nat
      BY Zenon, <3>1, MilliTimes
    <3> QED  BY <3>1, <3>2 DEF now_microsec
  <2> QED  BY Zenon, <2>1
<1>5. now_microsec \in Nat
  <2>1. now \in Nat /\ us \in Nat /\ Milli \in Nat
    BY MetricAssumption DEF IInv, TypeOK
  <2> QED  BY <2>1 DEF now_microsec
<1>6. end' \in {"ok", "err"}
  BY Zenon DEF IsolEnd, IsolFail
<1> QED  BY <1>1, <1>2, <1>3, <1>4, <1>5, <1>6 DEF Timed

\* The analysis only reads the marks.
LEMMA AnalyzeTimed == ASSUME IInv, Timed, NEW opt, analyze(opt) PROVE Timed'
<1>1. UNCHANGED <<now, us, beginT, stopT, end, endT, st>> /\ end # "none"
  BY Zenon DEF analyze
<1>2. now_microsec' = now_microsec
  BY Zenon, <1>1 DEF now_microsec
<1> QED  BY Zenon, <1>1, <1>2 DEF Timed

\* The end of an isolation that ran through is marked before the clock wraps, so
\* that the total is the time between its marks (metric.rs:28).
LEMMA TotalNotWrapped ==
    ASSUME IInv, Timed, end = "ok"
    PROVE  (stopT - beginT) % Wrap = stopT - beginT
<1>1. now \in Nat /\ us \in Nat /\ us < Milli /\ Milli \in Nat /\ MaxTime \in Nat /\ now <= MaxTime
  BY MetricAssumption DEF IInv, TypeOK, Timed
<1>2. stopT \in Nat /\ beginT \in Nat /\ beginT <= stopT /\ stopT <= now_microsec
  BY Zenon DEF IInv, TypeOK, Timed
<1>3. now * Milli <= MaxTime * Milli /\ (MaxTime + 1) * Milli = MaxTime * Milli + Milli
  BY <1>1
<1>4. now * Milli \in Nat /\ MaxTime * Milli \in Nat
  BY <1>1
<1>5. Wrap \in Nat /\ now_microsec < Wrap /\ now_microsec \in Nat
  BY <1>1, <1>3, <1>4, MetricAssumption DEF now_microsec
<1> DEFINE d == stopT - beginT
<1>6. d \in Nat /\ 0 <= d /\ d < Wrap
  BY <1>2, <1>5
<1> HIDE DEF d
<1>7. d % Wrap = d
  BY <1>5, <1>6
<1> QED  BY Zenon, <1>7 DEF d

\* What is zipped is an initial segment of both vectors.
LEMMA ZippedSegment ==
    ASSUME TypeOK
    PROVE  \A i \in 1..Cardinality(Zipped) : i \in 1..Len(runT) /\ i \in 1..Len(endT)
<1> DEFINE n == IF Len(runT) <= Len(endT) THEN Len(runT) ELSE Len(endT)
<1>1. Len(runT) \in Nat /\ Len(endT) \in Nat
  BY DEF TypeOK
<1>2. Zipped = 1..n /\ n \in Nat
  BY <1>1 DEF Zipped
<1>3. Cardinality(1..n) = n
  <2> HIDE DEF n
  <2>1. n \in Int /\ 1 \in Int /\ (1 > n \/ ~(1 > n)) /\ n \in Nat
    BY <1>2
  <2> QED  BY <2>1, FS_Interval
<1> QED  BY <1>1, <1>2, <1>3

\* A duration that the analysis reports fits in the time of the isolation.
LEMMA AnalyzeWithin ==
    ASSUME IInv, Timed, WithinIsolation, NEW opt, analyze(opt)
    PROVE  WithinIsolation'
<1>1. CASE report' = report
  BY Zenon, <1>1 DEF analyze, WithinIsolation
<1>2. CASE report' # report
  <2> SUFFICES ASSUME end = "ok", NEW i \in DOMAIN report'.durs
               PROVE  Milli * report'.durs[i] < report'.total + Milli
    BY Zenon DEF analyze, WithinIsolation
  <2>1. report' = [total |-> (stopT - beginT) % Wrap,
                   durs |-> IF opt = "All" THEN [j \in 1..Cardinality(Zipped) |-> RunDur(j)] ELSE <<>>]
    BY Zenon, <1>2 DEF analyze
  <2>2. i \in 1..Cardinality(Zipped) /\ report'.durs[i] = RunDur(i)
    BY <2>1
  <2>3. i \in 1..Len(runT) /\ i \in 1..Len(endT)
    BY Zenon, <2>2, ZippedSegment DEF IInv
  <2>4. runT[i] \in Nat /\ endT[i] \in Nat /\ 1 <= runT[i]
    BY <2>3 DEF IInv, TypeOK, Dated
  <2>5. Milli * endT[i] <= stopT /\ beginT < 2 * Milli /\ stopT \in Nat /\ beginT \in Nat /\ Milli \in Nat
    BY Zenon, <2>3, MetricAssumption DEF IInv, TypeOK, Timed
  <2>6. Milli * RunDur(i) = Milli * endT[i] - Milli * runT[i]
    BY Zenon, <2>4, MilliTimes DEF RunDur
  <2>7. Milli <= Milli * runT[i] /\ Milli * runT[i] \in Nat /\ Milli * endT[i] \in Nat
    <3>1. Milli * 1 = Milli /\ Milli * 1 <= Milli * runT[i]
      <4>1. 1 \in Nat /\ Milli * 1 = Milli
        BY <2>5
      <4> QED  BY Zenon, <2>4, <4>1, MilliTimes
    <3> QED  BY Zenon, <2>4, <3>1, MilliTimes
  <2>8. report'.total = stopT - beginT
    BY Zenon, <2>1, TotalNotWrapped
  <2> QED  BY <2>2, <2>5, <2>6, <2>7, <2>8
<1> QED  BY Zenon, <1>1, <1>2

\* In the report of an isolation that ran through no function took longer than
\* the isolation, up to the rounding of its marks, for any number of runs
\* (metric.rs:28, metric.rs:148-153, mod.rs:256-258).
THEOREM ReportWithin == Spec => []WithinIsolation
<1> DEFINE J == Timed /\ WithinIsolation
<1>1. Init => J
  BY Zenon, InitTimed DEF Init, WithinIsolation
<1>2. IInv /\ J /\ [Next]_vars => J'
  <2> SUFFICES ASSUME IInv, J, [Next]_vars PROVE J'
    BY Zenon
  <2>1. CASE \E opt \in {"None", "All", "TotalDur", "Mem"} : analyze(opt)
    BY Zenon, <2>1, AnalyzeTimed, AnalyzeWithin
  <2>2. CASE IsolEnd \/ IsolFail
    <3>1. Timed'
      BY Zenon, <2>2, ReturnTimed
    <3>2. report'.durs = <<>>
      BY Zenon, <2>2 DEF IsolEnd, IsolFail, Timed
    <3> QED  BY <3>1, <3>2 DEF WithinIsolation
  <2>3. CASE Tick \/ SvcInit \/ \E r \in Runs : SvcRun(r) \/ SvcEnd(r) \/ SvcFail(r)
    <3>1. Timed'
      BY Zenon, <2>3, TickTimed, StartTimed, EndTimed
    <3>2. UNCHANGED <<report, end>>
      BY Zenon, <2>3 DEF Tick, SvcInit, SvcRun, SvcEnd, SvcFail, isol
    <3> QED  BY Zenon, <3>1, <3>2 DEF WithinIsolation
  <2>4. CASE UNCHANGED vars
    BY Zenon, <2>4 DEF vars, isol, Timed, WithinIsolation, now_microsec
  <2> QED  BY Zenon, <2>1, <2>2, <2>3, <2>4 DEF Next
<1>3. J => WithinIsolation
  BY Zenon
<1> QED  BY <1>1, <1>2, <1>3, Inductive, PTL DEF Spec

-----------------------------------------------------------------------------
(* Sums over finite sets                                                    *)

\* g[T] is the sum of f over T, for every subset T of S.
Additive(g, f, S) ==
    /\ g \in [SUBSET S -> Int]
    /\ g[{}] = 0
    /\ \A T \in SUBSET S : \A x \in T : g[T] = f[x] + g[T \ {x}]

\* A set of subsets of a finite set has a least member: what TLC's folds compute
\* is shown by induction on the set folded over.
LEMMA LeastSet ==
    ASSUME NEW S, IsFiniteSet(S), NEW T \in SUBSET (SUBSET S), T # {}
    PROVE  \E U \in T : \A V \in T : V \subseteq U => V = U
<1>0. T \subseteq FiniteSubsetsOf(S)
  BY Zenon, FS_FiniteSubsetsOfFinite
<1>1. PICK x \in T : \A y \in T : ~ (<<y, x>> \in StrictSubsetOrdering(S))
  BY Zenon, <1>0, FS_StrictSubsetOrderingWellFounded, WFMin
<1> QED  BY Zenon, <1>1 DEF StrictSubsetOrdering

\* There is such a function: leave one element out, and add its term.
LEMMA AdditiveExists ==
    ASSUME NEW S, IsFiniteSet(S), NEW f \in [S -> Int]
    PROVE  \E g : Additive(g, f, S)
<1> DEFINE Bad == {U \in SUBSET S : ~ \E g : Additive(g, f, U)}
<1>1. SUFFICES ASSUME Bad # {} PROVE FALSE
  BY Zenon
<1>2. PICK U \in Bad : \A V \in Bad : V \subseteq U => V = U
  <2>1. Bad \in SUBSET (SUBSET S)
    BY Zenon
  <2> HIDE DEF Bad
  <2> QED  BY <1>1, <2>1, LeastSet
<1>3. U # {}
  <2>1. Additive([T \in {{}} |-> 0], f, {})
    BY DEF Additive
  <2> QED  BY Zenon, <2>1
<1>4. PICK a \in U : TRUE
  BY Zenon, <1>3
<1>5. PICK g : Additive(g, f, U \ {a})
  <2>1. U \ {a} \in SUBSET S /\ U \ {a} \notin Bad
    BY Zenon, <1>2, <1>4
  <2> QED  BY Zenon, <2>1
<1> DEFINE h == [T \in SUBSET U |-> IF a \in T THEN f[a] + g[T \ {a}] ELSE g[T]]
<1>6. f[a] \in Int /\ \A T \in SUBSET U : T \ {a} \in SUBSET (U \ {a}) /\ g[T \ {a}] \in Int
  BY Zenon, <1>5 DEF Additive
<1>7. h \in [SUBSET U -> Int] /\ h[{}] = 0
  <2>1. \A T \in SUBSET U : a \notin T => T \in SUBSET (U \ {a}) 
    BY Zenon
  <2>2. \A T \in SUBSET U : h[T] \in Int 
    BY <1>5, <1>6, <2>1 DEF Additive
  <2> QED  BY Zenon, <2>2, <1>5 DEF Additive
<1>8. ASSUME NEW T \in SUBSET U, NEW x \in T PROVE h[T] = f[x] + h[T \ {x}]
  <2>1. CASE x = a
    BY Zenon, <2>1
  <2>2. CASE x # a /\ a \in T
    <3>1. g[T \ {a}] = f[x] + g[(T \ {a}) \ {x}]
      <4>1. T \ {a} \in SUBSET (U \ {a}) /\ x \in T \ {a}
        BY Zenon, <2>2
      <4> QED  BY Zenon, <4>1, <1>5 DEF Additive
    <3>2. (T \ {a}) \ {x} = (T \ {x}) \ {a} /\ T \ {x} \in SUBSET U /\ a \in T \ {x}
      BY Zenon, <2>2
    <3>3. h[T] = f[a] + g[T \ {a}] /\ h[T \ {x}] = f[a] + g[(T \ {x}) \ {a}]
      BY Zenon, <2>2, <3>2
    <3>4. f[x] \in Int /\ g[(T \ {x}) \ {a}] \in Int
      BY Zenon, <3>2, <1>6
    <3>5. f[a] \in Int
      BY Zenon, <1>6
    <3>6. h[T] = f[a] + (f[x] + g[(T \ {x}) \ {a}])
      BY Zenon, <3>1, <3>2, <3>3
    <3>7. f[x] + h[T \ {x}] = f[x] + (f[a] + g[(T \ {x}) \ {a}])
      BY Zenon, <3>3
    <3> HIDE DEF h
    <3> QED  BY <3>4, <3>5, <3>6, <3>7
  <2>3. CASE a \notin T
    <3>1. T \in SUBSET (U \ {a})
      BY Zenon, <2>3
    <3>2. g[T] = f[x] + g[T \ {x}]
      BY Zenon, <3>1, <1>5 DEF Additive
    <3> QED  BY Zenon, <2>3, <3>2 
  <2> QED  BY Zenon, <2>1, <2>2, <2>3
<1>9. Additive(h, f, U)
  BY Zenon, <1>7, <1>8 DEF Additive
<1> QED  BY Zenon, <1>9, <1>2

\* The fold of the library computes it, whichever element it picks next.
LEMMA SumIs ==
    ASSUME NEW S, IsFiniteSet(S), NEW f \in [S -> Int], NEW g, Additive(g, f, S)
    PROVE  SumFunction(f) = g[S]
<1> DEFINE Eqn(it) == it = [s \in SUBSET S |->
                           IF s = {} THEN 0 ELSE f[CHOOSE x \in s : TRUE] + it[s \ {CHOOSE x \in s : TRUE}]]
<1>1. Eqn(g)
  <2>1. ASSUME NEW s \in SUBSET S, s # {} PROVE g[s] = f[CHOOSE x \in s : TRUE] + g[s \ {CHOOSE x \in s : TRUE}]
    <3>1. (CHOOSE x \in s : TRUE) \in s
      BY Zenon, <2>1
    <3> QED  BY Zenon, <3>1 DEF Additive
  <2> QED  BY Zenon, <2>1 DEF Additive
<1>2. ASSUME NEW it, Eqn(it) PROVE it = g
  <2> DEFINE Bad == {s \in SUBSET S : it[s] # g[s]}
  <2>0. /\ it = [s \in SUBSET S |-> it[s]]
        /\ g = [s \in SUBSET S |-> g[s]]
    BY Zenon, <1>1, <1>2
  <2>1. SUFFICES ASSUME Bad # {} PROVE FALSE
    <3>1. ASSUME Bad = {} PROVE it = g
      <4>1. \A s \in SUBSET S : it[s] = g[s]
        BY Zenon, <3>1
      <4> HIDE DEF Eqn
      <4> QED  BY Zenon, <2>0, <4>1
    <3> QED  BY Zenon, <3>1
  <2>2. PICK U \in Bad : \A V \in Bad : V \subseteq U => V = U
    <3>1. Bad \in SUBSET (SUBSET S)
      BY Zenon
    <3> HIDE DEF Bad
    <3> QED  BY <2>1, <3>1, LeastSet
  <2>3. CASE U = {}
    BY Zenon, <1>1, <1>2, <2>2, <2>3
  <2>4. CASE U # {}
    <3>1. PICK x \in U : x = CHOOSE y \in U : TRUE
      BY Zenon, <2>4
    <3>2. U \ {x} \in SUBSET S /\ it[U \ {x}] = g[U \ {x}]
      BY <2>2, <3>1
    <3>3. it[U] = f[x] + it[U \ {x}]
      BY Zenon, <1>2, <2>4, <3>1
    <3>4. g[U] = f[x] + g[U \ {x}]
      BY Zenon, <1>1, <2>4, <3>1
    <3> QED  BY Zenon, <2>2, <3>2, <3>3, <3>4
  <2> QED  BY Zenon, <2>3, <2>4
<1>3. Eqn(CHOOSE it : Eqn(it))
  <2> HIDE DEF Eqn
  <2> QED  BY Zenon, <1>1
<1>4. (CHOOSE it : Eqn(it)) = g
  BY Zenon, <1>2, <1>3
<1>5. DOMAIN f = S
  BY Zenon
<1>6. SumFunction(f) = (CHOOSE it : Eqn(it))[S]
  BY Zenon, <1>5 DEF SumFunction, SumFunctionOnSet, FoldFunctionOnSet, MapThenFoldSet
<1> QED  BY Zenon, <1>4, <1>6

\* What the analysis sums is additive (metric.rs:156-159).
LEMMA SumOf ==
    ASSUME NEW S, IsFiniteSet(S), NEW f \in [S -> Int]
    PROVE  \E g : Additive(g, f, S) /\ SumFunction(f) = g[S]
BY Zenon, AdditiveExists, SumIs

\* The sum of the durations is an integer, and zero when there are none.
LEMMA SumType ==
    ASSUME NEW S, IsFiniteSet(S), NEW f \in [S -> Int]
    PROVE  SumFunction(f) \in Int /\ (S = {} => SumFunction(f) = 0)
<1>1. PICK g : Additive(g, f, S) /\ SumFunction(f) = g[S]
  BY Zenon, SumOf
<1>2. S \in SUBSET S
  BY Zenon
<1>3. g \in [SUBSET S -> Int] /\ g[{}] = 0
  BY Zenon, <1>1 DEF Additive
<1> QED  BY Zenon, <1>1, <1>2, <1>3

\* Any term can be taken first.
LEMMA SumSplit ==
    ASSUME NEW S, IsFiniteSet(S), NEW f \in [S -> Int], NEW x \in S,
           NEW e \in [S \ {x} -> Int], \A y \in S \ {x} : e[y] = f[y]
    PROVE  SumFunction(f) = f[x] + SumFunction(e)
<1>1. PICK g : Additive(g, f, S) /\ SumFunction(f) = g[S]
  BY Zenon, SumOf
<1> DEFINE T == S \ {x}
           k == [V \in SUBSET T |-> g[V]]
<1>2. IsFiniteSet(T) /\ e \in [T -> Int]
  BY Zenon, FS_Subset
<1>3. Additive(k, e, T)
  <2>1. k \in [SUBSET T -> Int] /\ k[{}] = 0
    BY Zenon, <1>1 DEF Additive
  <2>2. ASSUME NEW V \in SUBSET T, NEW y \in V PROVE k[V] = e[y] + k[V \ {y}]
    <3>1. V \in SUBSET S /\ y \in T /\ V \ {y} \in SUBSET T
      BY Zenon
    <3>2. g[V] = f[y] + g[V \ {y}]
      BY Zenon, <1>1, <3>1 DEF Additive
    <3> QED  BY Zenon, <3>1, <3>2
  <2> QED  BY Zenon, <2>1, <2>2 DEF Additive
<1>4. SumFunction(e) = k[T]
  <2> HIDE DEF T, k
  <2> QED  BY Zenon, <1>2, <1>3, SumIs
<1>5. g[S] = f[x] + g[S \ {x}]
  BY Zenon, <1>1 DEF Additive
<1> QED  BY Zenon, <1>1, <1>4, <1>5

\* The sum of the differences is the difference of the sums.
LEMMA SumMinus ==
    ASSUME NEW S, IsFiniteSet(S), NEW f \in [S -> Int], NEW h \in [S -> Int]
    PROVE  SumFunction([x \in S |-> f[x] - h[x]]) = SumFunction(f) - SumFunction(h)
<1>1. PICK g : Additive(g, f, S) /\ SumFunction(f) = g[S]
  BY Zenon, SumOf
<1>2. PICK k : Additive(k, h, S) /\ SumFunction(h) = k[S]
  BY Zenon, SumOf
<1> DEFINE d == [x \in S |-> f[x] - h[x]]
           m == [V \in SUBSET S |-> g[V] - k[V]]
<1>3. d \in [S -> Int]
  OBVIOUS
<1>4. Additive(m, d, S)
  <2>1. m \in [SUBSET S -> Int] /\ m[{}] = 0
    <3>1. g \in [SUBSET S -> Int] /\ g[{}] = 0 /\ k \in [SUBSET S -> Int] /\ k[{}] = 0
      BY Zenon, <1>1, <1>2 DEF Additive
    <3>2. {} \in SUBSET S
      BY Zenon
    <3>3. \A V \in SUBSET S : g[V] - k[V] \in Int
      BY <3>1
    <3> QED  BY <3>1, <3>2, <3>3
  <2>2. ASSUME NEW V \in SUBSET S, NEW y \in V PROVE m[V] = d[y] + m[V \ {y}]
    <3>1. y \in S /\ V \ {y} \in SUBSET S
      BY Zenon
    <3>2. g[V] = f[y] + g[V \ {y}] /\ k[V] = h[y] + k[V \ {y}]
      BY Zenon, <1>1, <1>2 DEF Additive
    <3>3. f[y] \in Int /\ h[y] \in Int /\ g[V \ {y}] \in Int /\ k[V \ {y}] \in Int
      BY Zenon, <1>1, <1>2, <3>1 DEF Additive
    <3>4. m[V] = g[V] - k[V] /\ d[y] = f[y] - h[y] /\ m[V \ {y}] = g[V \ {y}] - k[V \ {y}]
      BY Zenon, <3>1
    <3> HIDE DEF m, d
    <3> QED  BY <3>2, <3>3, <3>4
  <2> QED  BY Zenon, <2>1, <2>2 DEF Additive
<1>5. SumFunction(d) = m[S]
  <2> HIDE DEF d, m
  <2> QED  BY Zenon, <1>3, <1>4, SumIs
<1> QED  BY Zenon, <1>1, <1>2, <1>5

\* One term changed: a run has begun or ended.
LEMMA SumExcept ==
    ASSUME NEW S, IsFiniteSet(S), NEW f \in [S -> Int], NEW x \in S, NEW v \in Int
    PROVE  SumFunction([f EXCEPT ![x] = v]) = (SumFunction(f) - f[x]) + v
<1> DEFINE h == [f EXCEPT ![x] = v]
           e == [y \in S \ {x} |-> f[y]]
<1>1. h \in [S -> Int] /\ h[x] = v /\ \A y \in S \ {x} : e[y] = h[y]
  BY Zenon
<1>2. e \in [S \ {x} -> Int] /\ \A y \in S \ {x} : e[y] = f[y]
  BY Zenon
<1>3. IsFiniteSet(S \ {x})
  BY Zenon, FS_Subset
<1> HIDE DEF h, e
<1>4. SumFunction(f) = f[x] + SumFunction(e)
  BY <1>2, SumSplit
<1>5. SumFunction(h) = v + SumFunction(e)
  BY <1>1, <1>2, SumSplit
<1>6. SumFunction(e) \in Int /\ f[x] \in Int
  BY Zenon, <1>2, <1>3, SumType
<1>7. SumFunction(h) = (SumFunction(f) - f[x]) + v
  BY <1>4, <1>5, <1>6
<1> QED  BY Zenon, <1>7 DEF h

\* The marks are a function on an interval (metric.rs:139-140).
LEMMA SeqInts ==
    ASSUME NEW s \in Seq(Nat)
    PROVE  IsFiniteSet(1..Len(s)) /\ s \in [1..Len(s) -> Int]
<1>1. Len(s) \in Int /\ 1 \in Int
  OBVIOUS
<1>2. IsFiniteSet(1..Len(s))
  BY Zenon, <1>1, FS_Interval
<1>3. s = [i \in 1..Len(s) |-> s[i]] /\ \A i \in 1..Len(s) : s[i] \in Int
  OBVIOUS
<1> QED  BY Zenon, <1>2, <1>3

\* One term more at the end of an interval.
LEMMA SumLast ==
    ASSUME NEW n \in Nat, NEW s \in [1..n -> Int], NEW t \in [1..(n + 1) -> Int],
           \A i \in 1..n : s[i] = t[i]
    PROVE  SumFunction(t) = SumFunction(s) + t[n + 1]
<1> DEFINE m == n + 1
           S == 1..m
<1>1. IsFiniteSet(S) /\ IsFiniteSet(1..n)
  BY FS_Interval
<1>2. m \in S /\ S \ {m} = 1..n /\ t \in [S -> Int] /\ t[m] \in Int
  OBVIOUS
<1>3. s \in [S \ {m} -> Int] /\ \A i \in S \ {m} : s[i] = t[i]
  BY Zenon, <1>2
<1>4. SumFunction(s) \in Int
  BY Zenon, <1>1, SumType
<1>5. SumFunction(t) = t[m] + SumFunction(s)
  <2>1. m \in S /\ t \in [S -> Int] /\ IsFiniteSet(S)
    BY Zenon, <1>1, <1>2
  <2> HIDE DEF m, S
  <2>2. \A x \in S : \A e \in [S \ {x} -> Int] :
            (\A y \in S \ {x} : e[y] = t[y]) => SumFunction(t) = t[x] + SumFunction(e)
    BY Zenon, <2>1, SumSplit
  <2>3. \A e \in [S \ {m} -> Int] :
            (\A y \in S \ {m} : e[y] = t[y]) => SumFunction(t) = t[m] + SumFunction(e)
    BY Zenon, <2>1, <2>2
  <2> QED  BY Zenon, <1>3, <2>3
<1> QED  BY <1>2, <1>4, <1>5

\* One mark more (metric.rs:189-190).
LEMMA SumAppend ==
    ASSUME NEW s \in Seq(Nat), NEW v \in Nat
    PROVE  SumFunction(Append(s, v)) = SumFunction(s) + v
<1> DEFINE t == Append(s, v)
<1>1. t \in Seq(Nat) /\ Len(t) = Len(s) + 1 /\ t[Len(s) + 1] = v /\ Len(s) \in Nat
  OBVIOUS
<1>2. \A i \in 1..Len(s) : s[i] = t[i]
  OBVIOUS
<1>3. s \in [1..Len(s) -> Int] /\ t \in [1..(Len(s) + 1) -> Int]
  BY Zenon, <1>1, SeqInts
<1> HIDE DEF t
<1>4. SumFunction(t) = SumFunction(s) + t[Len(s) + 1]
  BY Zenon, <1>1, <1>2, <1>3, SumLast
<1> QED  BY Zenon, <1>1, <1>4 DEF t

-----------------------------------------------------------------------------
(* The average                                                              *)

\* What is summed for the runs that have succeeded.
Credit == [r \in Runs |-> IF st[r] = "ok" THEN ended[r] ELSE 0]

\* The marks of the starts sum up to the times the runs began, and those of the
\* ends to the times the successful ones ended.
Summed ==
    /\ \A r \in Runs : st[r] = "idle" => began[r] = 0 /\ ended[r] = 0
    /\ SumFunction(runT) = SumFunction(began)
    /\ SumFunction(endT) = SumFunction(Credit)

\* The times are functions over the finite set of runs.
LEMMA TimesType ==
    ASSUME TypeOK
    PROVE  /\ IsFiniteSet(Runs)
           /\ began \in [Runs -> Int] /\ ended \in [Runs -> Int] /\ Credit \in [Runs -> Int]
           /\ SumFunction(began) \in Int /\ SumFunction(Credit) \in Int
<1>1. IsFiniteSet(Runs)
  BY Zenon, MetricAssumption
<1>2. began \in [Runs -> Int] /\ ended \in [Runs -> Int]
  BY DEF TypeOK
<1>3. Credit \in [Runs -> Int]
  BY <1>2 DEF Credit
<1> QED  BY Zenon, <1>1, <1>2, <1>3, SumType

\* Nothing has begun.
LEMMA InitSummed == Init => Summed
<1> SUFFICES ASSUME Init PROVE Summed
  OBVIOUS
<1> DEFINE zero == [r \in Runs |-> 0]
<1>1. began = zero /\ ended = zero /\ Credit = zero /\ runT = <<>> /\ endT = <<>>
  BY Zenon DEF Init, Credit
<1>2. SumFunction(<<>>) = 0
  <2>1. << >> \in Seq(Nat) /\ 1..Len(<< >>) = {}
    OBVIOUS
  <2> QED  BY Zenon, <2>1, SeqInts, SumType
<1>3. SumFunction(zero) = 0
  <2>1. zero \in [Runs -> Int] /\ IsFiniteSet(Runs) /\ [r \in Runs |-> zero[r] - zero[r]] = zero
    BY MetricAssumption
  <2> HIDE DEF zero
  <2>2. SumFunction(zero) \in Int
    BY Zenon, <2>1, SumType
  <2>3. SumFunction([r \in Runs |-> zero[r] - zero[r]]) = SumFunction(zero) - SumFunction(zero)
    BY <2>1, SumMinus
  <2> QED  BY <2>1, <2>2, <2>3
<1> QED  BY Zenon, <1>1, <1>2, <1>3 DEF Summed

\* A run begins: its mark is the time it began (elf_service.rs:317).
LEMMA SvcRunSummed ==
    ASSUME IInv, Summed, NEW r \in Runs, SvcRun(r)
    PROVE  Summed'
<1>1. TypeOK /\ now \in Nat /\ now \in Int /\ runT \in Seq(Nat)
  BY DEF IInv, TypeOK
<1>2. began[r] = 0 /\ SumFunction(began) \in Int /\ IsFiniteSet(Runs) /\ began \in [Runs -> Int]
  BY Zenon, <1>1, TimesType DEF SvcRun, Summed
<1>3. SumFunction(runT') = SumFunction(runT) + now
  BY Zenon, <1>1, SumAppend DEF SvcRun
<1>4. SumFunction(began') = (SumFunction(began) - began[r]) + now
  BY Zenon, <1>1, <1>2, SumExcept DEF SvcRun
<1>5. SumFunction(runT') = SumFunction(began')
  BY <1>1, <1>2, <1>3, <1>4 DEF Summed
<1>6. Credit' = Credit /\ endT' = endT
  BY Zenon, <1>1 DEF SvcRun, Credit, TypeOK
<1>7. \A q \in Runs : st'[q] = "idle" => began'[q] = 0 /\ ended'[q] = 0
  BY Zenon, <1>1 DEF SvcRun, Summed, TypeOK
<1> QED  BY Zenon, <1>5, <1>6, <1>7 DEF Summed

\* A run succeeds: its mark is the time it ended (elf_service.rs:331-334).
LEMMA SvcEndSummed ==
    ASSUME IInv, Summed, NEW r \in Runs, SvcEnd(r)
    PROVE  Summed'
<1>1. TypeOK /\ now \in Nat /\ now \in Int /\ endT \in Seq(Nat)
  BY DEF IInv, TypeOK
<1>2. Credit[r] = 0 /\ SumFunction(Credit) \in Int /\ IsFiniteSet(Runs) /\ Credit \in [Runs -> Int]
  BY Zenon, <1>1, TimesType DEF SvcEnd, Credit
<1>3. SumFunction(endT') = SumFunction(endT) + now
  BY Zenon, <1>1, SumAppend DEF SvcEnd
<1>4. Credit' = [Credit EXCEPT ![r] = now]
  BY Zenon, <1>1 DEF SvcEnd, Credit, TypeOK
<1>5. SumFunction(Credit') = (SumFunction(Credit) - Credit[r]) + now
  BY Zenon, <1>1, <1>2, <1>4, SumExcept
<1>6. SumFunction(endT') = SumFunction(Credit')
  BY <1>1, <1>2, <1>3, <1>5 DEF Summed
<1>7. \A q \in Runs : st'[q] = "idle" => began'[q] = 0 /\ ended'[q] = 0
  BY Zenon, <1>1 DEF SvcEnd, Summed, TypeOK
<1> QED  BY Zenon, <1>6, <1>7 DEF Summed, SvcEnd

\* Every other step leaves the marks and the times of the successful runs.
LEMMA OtherSummed ==
    ASSUME IInv, Summed,
           \/ Tick \/ SvcInit \/ IsolEnd \/ IsolFail \/ UNCHANGED vars
           \/ \E r \in Runs : SvcFail(r)
           \/ \E opt \in {"None", "All", "TotalDur", "Mem"} : analyze(opt)
    PROVE  Summed'
<1>1. UNCHANGED <<runT, endT, began>>
  BY Zenon DEF Tick, SvcInit, IsolEnd, IsolFail, SvcFail, analyze, vars
<1>2. CASE UNCHANGED <<st, ended>>
  BY Zenon, <1>1, <1>2 DEF Summed, Credit
<1>3. CASE \E r \in Runs : SvcFail(r)
  <2>1. Credit' = Credit
    BY Zenon, <1>3 DEF SvcFail, Credit, IInv, TypeOK
  <2>2. \A q \in Runs : st'[q] = "idle" => began'[q] = 0 /\ ended'[q] = 0
    BY Zenon, <1>3 DEF SvcFail, Summed, IInv, TypeOK
  <2> QED  BY Zenon, <1>1, <2>1, <2>2 DEF Summed
<1> QED  BY Zenon, <1>2, <1>3 DEF Tick, SvcInit, IsolEnd, IsolFail, analyze, vars

\* Without failures both vectors have a mark for each run that began, so the
\* sum over the pairs is the difference of the sums.
LEMMA SummedExact == ASSUME IInv, Summed PROVE AverageExact
<1> SUFFICES ASSUME \A r \in Runs : st[r] \in {"idle", "ok"}
             PROVE  TotalRunDur = SumFunction([r \in Runs |-> ended[r] - began[r]])
  BY Zenon DEF AverageExact
<1>1. TypeOK /\ runT \in Seq(Nat) /\ endT \in Seq(Nat)
  BY Zenon DEF IInv, TypeOK
<1>2. Len(runT) = Len(endT)
  <2>1. Began = Succeeded
    BY Zenon DEF Began, Succeeded
  <2> QED  BY Zenon, <2>1 DEF IInv, Counted
<1>3. Credit = ended
  <2>1. \A r \in Runs : Credit[r] = ended[r]
    BY Zenon DEF Credit, Summed
  <2> QED  BY Zenon, <2>1 DEF IInv, TypeOK, Credit
<1> DEFINE I == 1..Len(endT)
<1>4. Zipped = I /\ IsFiniteSet(I) /\ runT \in [I -> Int] /\ endT \in [I -> Int]
  <2>1. Zipped = I
    BY <1>1, <1>2 DEF Zipped
  <2> QED  BY Zenon, <1>1, <1>2, <2>1, SeqInts
<1>5. TotalRunDur = SumFunction(endT) - SumFunction(runT)
  <2>1. TotalRunDur = SumFunction([i \in I |-> endT[i] - runT[i]])
    BY Zenon, <1>4 DEF TotalRunDur, RunDur
  <2> HIDE DEF I
  <2> QED  BY Zenon, <1>4, <2>1, SumMinus
<1>6. SumFunction([r \in Runs |-> ended[r] - began[r]]) = SumFunction(ended) - SumFunction(began)
  BY Zenon, <1>1, TimesType, SumMinus
<1> QED  BY Zenon, <1>3, <1>5, <1>6 DEF Summed

\* When no run has failed, the average that to_json computes over the zipped
\* marks is the average of the runs' own durations, for any number of runs and
\* any order of their marks (metric.rs:156-159).
THEOREM ExactAverage == Spec => []AverageExact
<1>1. Init => Summed
  BY InitSummed
<1>2. IInv /\ Summed /\ [Next]_vars => Summed'
  BY Zenon, SvcRunSummed, SvcEndSummed, OtherSummed DEF Next
<1>3. IInv /\ Summed => AverageExact
  BY Zenon, SummedExact
<1> QED  BY <1>1, <1>2, <1>3, Inductive, PTL DEF Spec
==============================================================================
