--------------------------- MODULE WorkflowProofs ----------------------------
(***************************************************************************)
(* Isolation::run for every configuration: any number of stages, functions  *)
(* and names, with or without MPK and namespaces.                           *)
(***************************************************************************)
EXTENDS Workflow, TLAPS

\* The visor is inside a stage.
InStage == pc \in {"load", "inline", "spawn", "join", "scope"}

\* Where the visor's thread is, and what it knows of the functions.
Control ==
    /\ stage <= Len(Stages(conf)) + 1
    /\ InStage => stage <= Len(Stages(conf)) /\ idx <= Len(Group) + 1
    /\ pc = "inline" => Len(Group) = 1
    /\ pc = "scope" /\ ret = "ok" => idx = Len(Group) + 1
    /\ pc = "ok" => stage = Len(Stages(conf)) + 1

\* The stages before the current one have succeeded, those after it are idle.
Before == \A t \in Tasks(conf) : t[1] < stage => thr[t] = "ok"
After == \A t \in Tasks(conf) : t[1] > stage => thr[t] = "idle"

\* What the visor knows of the task t of the current stage.
Known(t) ==
    /\ pc \in {"start", "stage", "load"} => thr[t] = "idle"
    /\ pc = "spawn" => (t[2] < idx <=> thr[t] # "idle")
    /\ pc = "join" => thr[t] # "idle" /\ (t[2] < idx => thr[t] = "ok")
    /\ pc = "scope" /\ ret = "ok" => thr[t] = "ok"
    /\ pc = "scope" /\ ret = "err" /\ t[2] < idx => thr[t] \in {"ok", "err"}

Current == \A t \in Tasks(conf) : t[1] = stage => Known(t)

PanicKept ==
    pc = "scope" /\ ret = "panicked" => \E t \in Tasks(conf) : thr[t] = "panic"

\* The functions of the current stage that are loaded.
StageLoaded ==
    InStage => \A j \in 1..Len(Group) : pc # "load" \/ j < idx => Group[j] \in modules

IInv ==
    /\ TypeOK
    /\ Control
    /\ Before
    /\ After
    /\ Current
    /\ PanicKept
    /\ StageLoaded
    /\ NoOrphan
    /\ OutcomeFaithful
    /\ RunsLoaded

-----------------------------------------------------------------------------
(* Stages and tasks *)

\* A configuration's stages are sequences of names (mod.rs:246-253).
LEMMA StagesType ==
    ASSUME NEW c \in Configs
    PROVE  Stages(c) \in Seq(Seq(Names))
<1>1. c.apps \in Seq(Names) /\ c.groups \in Seq(Seq(Names))
  BY Zenon, ConfigsAssumption
<1>2. \A k \in 1..Len(c.apps) : <<c.apps[k]>> \in Seq(Names)
  BY <1>1
<1>3. [k \in 1..Len(c.apps) |-> <<c.apps[k]>>] \in Seq(Seq(Names))
  BY <1>1, <1>2
<1> QED  BY Zenon, <1>1, <1>3 DEF Stages

\* Facts about the shape of a configuration's stages, as arithmetic needs them.
LEMMA StagesLen ==
    ASSUME NEW c \in Configs
    PROVE  /\ Len(Stages(c)) \in Nat
           /\ \A k \in 1..Len(Stages(c)) : Len(Stages(c)[k]) \in Nat
<1>1. Stages(c) \in Seq(Seq(Names))
  BY Zenon, StagesType
<1> QED  BY <1>1

\* A task is a stage of the configuration and a position in that stage.
LEMMA TaskShape ==
    ASSUME NEW c, NEW t \in Tasks(c)
    PROVE  /\ t = <<t[1], t[2]>>
           /\ t[1] \in 1..Len(Stages(c))
           /\ t[2] \in 1..Len(Stages(c)[t[1]])
<1>1. PICK k \in 1..Len(Stages(c)) : t \in {k} \X (1..Len(Stages(c)[k]))
  BY Zenon DEF Tasks
<1> QED  BY <1>1

\* Every stage and position in it make a task.
LEMMA TaskIn ==
    ASSUME NEW c, NEW k \in 1..Len(Stages(c)), NEW j \in 1..Len(Stages(c)[k])
    PROVE  /\ <<k, j>> \in Tasks(c)
           /\ <<k, j>>[1] = k
           /\ <<k, j>>[2] = j
<1>1. <<k, j>> \in {k} \X (1..Len(Stages(c)[k]))
  BY Zenon
<1> QED  BY Zenon, <1>1 DEF Tasks

\* The shape of the configuration and of its tasks.
Shaped ==
    /\ Len(Stages(conf)) \in Nat
    /\ \A k \in 1..Len(Stages(conf)) : Len(Stages(conf)[k]) \in Nat
    /\ \A t \in Tasks(conf) : /\ t[1] \in 1..Len(Stages(conf))
                              /\ t[2] \in 1..Len(Stages(conf)[t[1]])
    /\ \A k \in 1..Len(Stages(conf)) : \A j \in 1..Len(Stages(conf)[k]) :
          <<k, j>> \in Tasks(conf) /\ <<k, j>>[1] = k /\ <<k, j>>[2] = j

\* Any configuration has that shape (config.rs:92-127).
LEMMA ConfShaped == conf \in Configs => Shaped
<1> SUFFICES ASSUME conf \in Configs PROVE Shaped
  BY Zenon
<1>1. Len(Stages(conf)) \in Nat /\ \A k \in 1..Len(Stages(conf)) : Len(Stages(conf)[k]) \in Nat
  BY Zenon, StagesLen
<1>2. \A t \in Tasks(conf) : /\ t[1] \in 1..Len(Stages(conf))
                              /\ t[2] \in 1..Len(Stages(conf)[t[1]])
  BY Zenon, TaskShape
<1>3. \A k \in 1..Len(Stages(conf)) : \A j \in 1..Len(Stages(conf)[k]) :
         <<k, j>> \in Tasks(conf) /\ <<k, j>>[1] = k /\ <<k, j>>[2] = j
  BY Zenon, TaskIn
<1> QED  BY Zenon, <1>1, <1>2, <1>3 DEF Shaped

-----------------------------------------------------------------------------
(* The invariant holds initially and is kept by every action *)

\* A fresh run() has started no function (mod.rs:226).
LEMMA InitIInv == Init => IInv
<1> SUFFICES ASSUME Init PROVE IInv
  BY Zenon
<1>1. Len(Stages(conf)) \in Nat
  BY Zenon, StagesLen DEF Init
<1>2. TypeOK
  BY DEF Init, TypeOK, Final, Status
<1>3. \A t \in Tasks(conf) : t[1] \in Nat \ {0}
  BY TaskShape, <1>1
<1> QED  BY <1>1, <1>2, <1>3 DEF Init, IInv, Control, InStage, Before, After, Current, Known,
            PanicKept, StageLoaded, NoOrphan, OutcomeFaithful, RunsLoaded, Final

\* Loading libc starts no function (mod.rs:226-244).
LEMMA StartIInv == ASSUME IInv, Start PROVE IInv'
<1> USE DEF IInv, TypeOK, Final, Group, Shaped, Start, OrLoad
<1>1. Shaped
  BY Zenon, ConfShaped
<1>2. TypeOK'
  BY <1>1 DEF Control, InStage, Status
<1>3. Control'
  BY <1>1, <1>2 DEF Control, InStage, Stages
<1>4. Before' /\ After'
  BY Zenon, <1>1, <1>2 DEF Control, InStage, Before, After, Current, Known
<1>5. Current'
  BY Zenon, <1>1, <1>2 DEF Control, InStage, After, Current, Known, Status
<1>6. PanicKept'
  BY Zenon, <1>1, <1>2 DEF Control, InStage, PanicKept
<1>7. StageLoaded'
  BY Zenon, <1>1, <1>2 DEF Control, InStage, StageLoaded
<1>8. NoOrphan' /\ OutcomeFaithful'
  BY SMTT(60), <1>1, <1>2 DEF Control, InStage, Before, After, Current, Known, PanicKept, NoOrphan, OutcomeFaithful
<1>9. RunsLoaded'
  BY Zenon, <1>1, <1>2 DEF Control, InStage, StageLoaded, RunsLoaded
<1> QED  BY Zenon, <1>2, <1>3, <1>4, <1>5, <1>6, <1>7, <1>8, <1>9

\* Entering a stage, or leaving the last one (mod.rs:246-258).
LEMMA NextStageIInv == ASSUME IInv, NextStage PROVE IInv'
<1> USE DEF IInv, TypeOK, Final, Group, Shaped, NextStage
<1>1. Shaped
  BY Zenon, ConfShaped
<1>2. TypeOK'
  BY <1>1 DEF Control, InStage, Status
<1>3. Control'
  BY <1>1, <1>2 DEF Control, InStage, Stages
<1>4. Before' /\ After'
  BY Zenon, <1>1, <1>2 DEF Control, InStage, Before, After, Current, Known
<1>5. Current'
  BY Zenon, <1>1, <1>2 DEF Control, InStage, After, Current, Known, Status
<1>6. PanicKept'
  BY Zenon, <1>1, <1>2 DEF Control, InStage, PanicKept
<1>7. StageLoaded'
  BY <1>1, <1>2 DEF Control, InStage, StageLoaded
<1>8. NoOrphan' /\ OutcomeFaithful'
  BY <1>1, <1>2 DEF Control, InStage, Before, After, Current, Known, PanicKept, NoOrphan, OutcomeFaithful
<1>9. RunsLoaded'
  BY Zenon, <1>1, <1>2 DEF Control, InStage, StageLoaded, RunsLoaded
<1> QED  BY Zenon, <1>2, <1>3, <1>4, <1>5, <1>6, <1>7, <1>8, <1>9

\* Loading a function starts none (mod.rs:200-203, 161-178).
LEMMA LoadAppIInv == ASSUME IInv, LoadApp PROVE IInv'
<1> USE DEF IInv, TypeOK, Final, Group, Shaped, LoadApp, OrLoad
<1>1. Shaped
  BY Zenon, ConfShaped
<1>2. TypeOK'
  BY <1>1 DEF Control, InStage, Status
<1>3. Control'
  <2>1. pc' \in {"load", "err"} /\ idx' = idx + 1 /\ UNCHANGED <<conf, stage>>
    BY Zenon
  <2>2. idx \in Nat /\ Len(Group) \in Nat /\ idx <= Len(Group) /\ stage <= Len(Stages(conf))
    BY <1>1 DEF Control, InStage
  <2>3. stage <= Len(Stages(conf)) + 1
    BY Zenon DEF Control
  <2> HIDE DEF IInv, TypeOK, Shaped, LoadApp, OrLoad
  <2> QED  BY <2>1, <2>2, <2>3 DEF Control, InStage
<1>4. Before' /\ After'
  BY Zenon, <1>1, <1>2 DEF Control, InStage, Before, After, Current, Known
<1>5. Current'
  BY Zenon, <1>1, <1>2 DEF Control, InStage, After, Current, Known, Status
<1>6. PanicKept'
  BY Zenon, <1>1, <1>2 DEF Control, InStage, PanicKept
<1>7. StageLoaded'
  BY <1>1, <1>2 DEF Control, InStage, StageLoaded
<1>8. NoOrphan' /\ OutcomeFaithful'
  BY SMTT(60), <1>1, <1>2 DEF Control, InStage, Before, After, Current, Known, PanicKept, NoOrphan, OutcomeFaithful
<1>9. RunsLoaded'
  BY Zenon, <1>1, <1>2 DEF Control, InStage, StageLoaded, RunsLoaded
<1> QED  BY Zenon, <1>2, <1>3, <1>4, <1>5, <1>6, <1>7, <1>8, <1>9

\* All functions of the stage are in the table (mod.rs:203).
LEMMA LoadedIInv == ASSUME IInv, Loaded PROVE IInv'
<1> USE DEF IInv, TypeOK, Final, Group, Shaped, Loaded
<1>1. Shaped
  BY Zenon, ConfShaped
<1>2. TypeOK'
  BY <1>1 DEF Control, InStage, Status
<1>3. Control'
  BY <1>1, <1>2 DEF Control, InStage, Stages
<1>4. Before' /\ After'
  BY Zenon, <1>1, <1>2 DEF Control, InStage, Before, After, Current, Known
<1>5. Current'
  BY <1>1, <1>2 DEF Control, InStage, After, Current, Known, Status
<1>6. PanicKept'
  BY Zenon, <1>1, <1>2 DEF Control, InStage, PanicKept
<1>7. StageLoaded'
  BY <1>1, <1>2 DEF Control, InStage, StageLoaded
<1>8. NoOrphan' /\ OutcomeFaithful'
  BY Zenon, <1>1, <1>2 DEF Control, InStage, Before, After, Current, Known, PanicKept, NoOrphan, OutcomeFaithful
<1>9. RunsLoaded'
  BY Zenon, <1>1, <1>2 DEF Control, InStage, StageLoaded, RunsLoaded
<1> QED  BY Zenon, <1>2, <1>3, <1>4, <1>5, <1>6, <1>7, <1>8, <1>9

\* A function of a sequence starts (mod.rs:191).
LEMMA CallAppIInv == ASSUME IInv, CallApp PROVE IInv'
<1> USE DEF IInv, TypeOK, Final, Group, Shaped, CallApp
<1>1. Shaped
  BY Zenon, ConfShaped
<1>2. TypeOK'
  BY Zenon, <1>1 DEF Control, InStage, Status
<1>3. Control'
  BY <1>1, <1>2 DEF Control, InStage, Stages
<1>4. Before' /\ After'
  BY <1>1, <1>2 DEF Control, InStage, Before, After, Current, Known
<1>5. Current'
  BY Zenon, <1>1, <1>2 DEF Control, InStage, After, Current, Known, Status
<1>6. PanicKept'
  BY Zenon, <1>1, <1>2 DEF Control, InStage, PanicKept
<1>7. StageLoaded'
  BY Zenon, <1>1, <1>2 DEF Control, InStage, StageLoaded
<1>8. NoOrphan' /\ OutcomeFaithful'
  BY Zenon, <1>1, <1>2 DEF Control, InStage, Before, After, Current, Known, PanicKept, NoOrphan, OutcomeFaithful
<1>9. RunsLoaded'
  BY SMTT(60), <1>1, <1>2 DEF Control, InStage, StageLoaded, RunsLoaded
<1> QED  BY Zenon, <1>2, <1>3, <1>4, <1>5, <1>6, <1>7, <1>8, <1>9

\* A function of a sequence has ended (mod.rs:191-193).
LEMMA AppReturnedIInv == ASSUME IInv, AppReturned PROVE IInv'
<1> USE DEF IInv, TypeOK, Final, Group, Shaped, AppReturned
<1>1. Shaped
  BY Zenon, ConfShaped
<1>one. \A t \in Tasks(conf) : t[1] = stage => t = <<stage, 1>>
  <2> SUFFICES ASSUME NEW t \in Tasks(conf), t[1] = stage PROVE t = <<stage, 1>>
    BY Zenon
  <2>1. t = <<t[1], t[2]>>
    BY Zenon, TaskShape
  <2>2. t[2] \in 1..Len(Group) /\ Len(Group) = 1
    BY Zenon, <1>1 DEF Control
  <2> QED  BY <2>1, <2>2
<1>2. TypeOK'
  BY <1>1 DEF Control, InStage, Status
<1>3. Control'
  BY <1>1, <1>2 DEF Control, InStage, Stages
<1>4. Before' /\ After'
  <2> SUFFICES ASSUME NEW t \in Tasks(conf)
               PROVE  (t[1] < stage' => thr[t] = "ok") /\ (t[1] > stage' => thr[t] = "idle")
    BY Zenon DEF Before, After
  <2>1. t[1] \in Nat
    BY <1>1
  <2> QED  BY <1>one, <2>1 DEF Before, After
<1>5. Current'
  BY <1>1, <1>2 DEF Control, InStage, After, Current, Known, Status
<1>6. PanicKept'
  BY Zenon, <1>1, <1>2 DEF Control, InStage, PanicKept
<1>7. StageLoaded'
  BY Zenon, <1>1, <1>2 DEF Control, InStage, StageLoaded
<1>8. NoOrphan' /\ OutcomeFaithful'
  <2> SUFFICES ASSUME pc' # "stage" PROVE NoOrphan' /\ OutcomeFaithful'
    BY Zenon DEF NoOrphan, OutcomeFaithful
  <2>1. \A t \in Tasks(conf) : thr[t] \in {"ok", "idle"} \/ t = <<stage, 1>>
    BY <1>1, <1>one DEF Before, After
  <2>2. <<stage, 1>> \in Tasks(conf)
    <3>1. pc = "inline" /\ Len(Stages(conf)) \in Nat /\ stage \in Nat \ {0}
      BY Zenon, <1>1
    <3>2. stage <= Len(Stages(conf)) /\ Len(Stages(conf)[stage]) = 1
      BY Zenon, <3>1 DEF Control, InStage
    <3>3. stage \in 1..Len(Stages(conf)) /\ 1 \in 1..Len(Stages(conf)[stage])
      BY <3>1, <3>2
    <3> QED  BY Zenon, <3>3, TaskIn
  <2> QED  BY Zenon, <2>1, <2>2 DEF NoOrphan, OutcomeFaithful
<1>9. RunsLoaded'
  BY Zenon, <1>1, <1>2 DEF Control, InStage, StageLoaded, RunsLoaded
<1> QED  BY Zenon, <1>2, <1>3, <1>4, <1>5, <1>6, <1>7, <1>8, <1>9

\* A function of a group starts, or its thread cannot be made (mod.rs:208-214).
LEMMA SpawnAppIInv == ASSUME IInv, SpawnApp PROVE IInv'
<1> USE DEF IInv, TypeOK, Final, Group, Shaped, SpawnApp
<1>1. Shaped
  BY Zenon, ConfShaped
<1>2. TypeOK'
  <2>1. <<stage, idx>> \in Tasks(conf)
    BY <1>1 DEF Control, InStage
  <2> QED  BY <2>1 DEF Status
<1>3. Control'
  BY <1>1, <1>2 DEF Control, InStage, Stages
<1>4. Before' /\ After'
  BY <1>1, <1>2 DEF Control, InStage, Before, After, Current, Known
<1>5. Current'
  <2> SUFFICES ASSUME NEW t \in Tasks(conf), t[1] = stage PROVE Known(t)'
    BY Zenon DEF Current
  <2>1. Known(t) /\ thr[t] \in Status
    BY Zenon DEF Current
  <2>2. t = <<stage, t[2]>> /\ t[2] \in 1..Len(Group)
    BY Zenon, <1>1, TaskShape
  <2>3. CASE t[2] = idx
    BY <1>2, <2>1, <2>2, <2>3 DEF Control, InStage, Known, Status
  <2>4. CASE t[2] # idx
    <3>1. t # <<stage, idx>>
      BY <2>2, <2>4
    <3> QED  BY <1>2, <2>1, <2>2, <2>4, <3>1 DEF Control, InStage, Known, Status
  <2> QED  BY Zenon, <2>3, <2>4
<1>6. PanicKept'
  BY Zenon, <1>1, <1>2 DEF Control, InStage, PanicKept
<1>7. StageLoaded'
  BY Zenon, <1>1, <1>2 DEF Control, InStage, StageLoaded
<1>8. NoOrphan' /\ OutcomeFaithful'
  BY Zenon, <1>1, <1>2 DEF Control, InStage, Before, After, Current, Known, PanicKept, NoOrphan, OutcomeFaithful
<1>9. RunsLoaded'
  BY SMTT(60), <1>1, <1>2 DEF Control, InStage, StageLoaded, RunsLoaded
<1> QED  BY Zenon, <1>2, <1>3, <1>4, <1>5, <1>6, <1>7, <1>8, <1>9

\* The group is running (mod.rs:216).
LEMMA SpawnedIInv == ASSUME IInv, Spawned PROVE IInv'
<1> USE DEF IInv, TypeOK, Final, Group, Shaped, Spawned
<1>1. Shaped
  BY Zenon, ConfShaped
<1> QED  BY <1>1 DEF Control, InStage, Before, After, Current, Known, PanicKept,
            StageLoaded, NoOrphan, OutcomeFaithful, RunsLoaded, Status

\* A handle is joined (mod.rs:217-219).
LEMMA JoinAppIInv == ASSUME IInv, JoinApp PROVE IInv'
<1> USE DEF IInv, TypeOK, Final, Group, Shaped, JoinApp
<1>1. Shaped
  BY Zenon, ConfShaped
<1>2. TypeOK'
  BY <1>1 DEF Control, InStage, Status
<1>3. Control'
  BY <1>1, <1>2 DEF Control, InStage, Stages
<1>4. Before' /\ After'
  BY Zenon, <1>1, <1>2 DEF Control, InStage, Before, After, Current, Known
<1>5. Current'
  <2> SUFFICES ASSUME NEW t \in Tasks(conf), t[1] = stage PROVE Known(t)'
    BY Zenon DEF Current
  <2>1. Known(t) /\ thr[t] \in Status
    BY Zenon DEF Current
  <2>2. t = <<stage, t[2]>> /\ t[2] \in 1..Len(Group)
    BY Zenon, <1>1, TaskShape
  <2>3. CASE t[2] = idx
    BY Zenon, <1>2, <2>1, <2>2, <2>3 DEF Control, InStage, Known, Status
  <2>4. CASE t[2] # idx
    <3>1. t # <<stage, idx>>
      BY <2>2, <2>4
    <3> QED  BY <1>2, <2>1, <2>2, <2>4, <3>1 DEF Control, InStage, Known, Status
  <2> QED  BY Zenon, <2>3, <2>4
<1>6. PanicKept'
  BY <1>1, <1>2 DEF Control, InStage, PanicKept
<1>7. StageLoaded'
  BY Zenon, <1>1, <1>2 DEF Control, InStage, StageLoaded
<1>8. NoOrphan' /\ OutcomeFaithful'
  BY Zenon, <1>1, <1>2 DEF Control, InStage, Before, After, Current, Known, PanicKept, NoOrphan, OutcomeFaithful
<1>9. RunsLoaded'
  BY Zenon, <1>1, <1>2 DEF Control, InStage, StageLoaded, RunsLoaded
<1> QED  BY Zenon, <1>2, <1>3, <1>4, <1>5, <1>6, <1>7, <1>8, <1>9

\* All handles are joined (mod.rs:221).
LEMMA JoinedIInv == ASSUME IInv, Joined PROVE IInv'
<1> USE DEF IInv, TypeOK, Final, Group, Shaped, Joined
<1>1. Shaped
  BY Zenon, ConfShaped
<1> QED  BY <1>1 DEF Control, InStage, Before, After, Current, Known, PanicKept,
            StageLoaded, NoOrphan, OutcomeFaithful, RunsLoaded, Status

\* thread::scope returns or panics (mod.rs:205, 222).
LEMMA ScopeEndIInv == ASSUME IInv, ScopeEnd PROVE IInv'
<1> USE DEF IInv, TypeOK, Final, Group, Shaped, ScopeEnd
<1>1. Shaped
  BY Zenon, ConfShaped
<1>2. TypeOK'
  BY <1>1 DEF Control, InStage, Status
<1>3. Control'
  BY <1>1, <1>2 DEF Control, InStage, Stages
<1>4. Before' /\ After'
  BY <1>1, <1>2 DEF Control, InStage, Before, After, Current, Known
<1>5. Current'
  BY <1>1, <1>2 DEF Control, InStage, After, Current, Known, Status
<1>6. PanicKept'
  BY Zenon, <1>1, <1>2 DEF Control, InStage, PanicKept
<1>7. StageLoaded'
  BY Zenon, <1>1, <1>2 DEF Control, InStage, StageLoaded
<1>8. NoOrphan' /\ OutcomeFaithful'
  <2> SUFFICES ASSUME pc' # "stage" PROVE NoOrphan' /\ OutcomeFaithful'
    BY Zenon DEF NoOrphan, OutcomeFaithful
  <2>1. ASSUME NEW t \in Tasks(conf)
        PROVE  thr[t] # "running"
    <3>1. t = <<t[1], t[2]>> /\ t[1] \in Nat
      BY <1>1, TaskShape
    <3>2. CASE t[1] = stage
      BY <1>1, <3>1, <3>2
    <3>3. CASE t[1] # stage
      BY <3>1, <3>3 DEF Before, After
    <3> QED  BY Zenon, <3>2, <3>3
  <2>2. ASSUME NEW t \in Tasks(conf), pc' = "err"
        PROVE  thr[t] # "panic"
    <3>1. t = <<t[1], t[2]>> /\ t[1] \in Nat
      BY <1>1, TaskShape
    <3>2. CASE t[1] = stage
      <4>1. Known(t) /\ t[2] \in 1..Len(Group) /\ ret = "err"
        BY Zenon, <1>1, <2>2, <3>2 DEF Current
      <4>2. CASE t[2] < idx
        BY Zenon, <4>1, <4>2 DEF Known
      <4>3. CASE t[2] \in idx..Len(Group)
        BY Zenon, <2>2, <3>1, <3>2, <4>3
      <4> QED  BY <1>1, <4>1, <4>2, <4>3 DEF Control, InStage
    <3>3. CASE t[1] # stage
      BY <3>1, <3>3 DEF Before, After
    <3> QED  BY Zenon, <3>2, <3>3
  <2>3. ASSUME pc' = "panicked"
        PROVE  \E t \in Tasks(conf) : thr[t] = "panic"
    <3>1. CASE ret = "panicked"
      BY Zenon, <3>1 DEF PanicKept
    <3>2. CASE \E j \in idx..Len(Group) : thr[<<stage, j>>] = "panic"
      <4>1. PICK j \in idx..Len(Group) : thr[<<stage, j>>] = "panic"
        BY Zenon, <3>2
      <4>2. <<stage, j>> \in Tasks(conf)
        BY <1>1 DEF Control, InStage
      <4> QED  BY Zenon, <4>1, <4>2
    <3> QED  BY Zenon, <2>3, <3>1, <3>2
  <2> QED  BY Zenon, <2>1, <2>2, <2>3 DEF NoOrphan, OutcomeFaithful
<1>9. RunsLoaded'
  BY Zenon, <1>1, <1>2 DEF Control, InStage, StageLoaded, RunsLoaded
<1> QED  BY Zenon, <1>2, <1>3, <1>4, <1>5, <1>6, <1>7, <1>8, <1>9

\* A function ends on its thread (elf_service.rs:317-334): it belongs to the
\* current stage, and the visor has drawn no conclusion about it yet.
LEMMA AppEndIInv ==
    ASSUME IInv, NEW u \in Tasks(conf), NEW o \in Finished, AppEnd(u, o)
    PROVE  IInv'
<1> USE DEF IInv, TypeOK, Final, Group, Shaped, AppEnd, Finished
<1>1. Shaped
  BY Zenon, ConfShaped
<1>2. TypeOK'
  BY Zenon DEF Status
<1>3. u[1] = stage /\ Known(u) /\ pc \notin Final
  <2>1. u[1] \in Nat
    BY <1>1
  <2> QED  BY <2>1 DEF Before, After, Current, NoOrphan
<1>4. Control' /\ Before' /\ After'
  BY <1>1, <1>2, <1>3 DEF Control, InStage, Before, After
<1>5. Current'
  <2> SUFFICES ASSUME NEW t \in Tasks(conf), t[1] = stage PROVE Known(t)'
    BY Zenon DEF Current
  <2>1. Known(t)
    BY Zenon DEF Current
  <2> QED  BY Zenon, <1>3, <2>1 DEF Known
<1>6. PanicKept' /\ StageLoaded' /\ NoOrphan' /\ OutcomeFaithful' /\ RunsLoaded'
  BY Zenon, <1>3 DEF PanicKept, StageLoaded, InStage, NoOrphan, OutcomeFaithful, RunsLoaded
<1> QED  BY Zenon, <1>2, <1>4, <1>5, <1>6

\* A stuttering step keeps the invariant.
LEMMA StutterIInv == IInv /\ UNCHANGED vars => IInv'
BY Zenon DEF vars, IInv, TypeOK, Control, InStage, Before, After, Current, Known, PanicKept,
       StageLoaded, NoOrphan, OutcomeFaithful, RunsLoaded, Group

\* The inductive invariant of Isolation::run.
THEOREM Inductive == Spec => []IInv
<1>1. Init => IInv
  BY Zenon, InitIInv
<1>2. IInv /\ [Next]_vars => IInv'
  BY Zenon, StartIInv, NextStageIInv, LoadAppIInv, LoadedIInv, CallAppIInv, AppReturnedIInv,
     SpawnAppIInv, SpawnedIInv, JoinAppIInv, JoinedIInv, ScopeEndIInv, AppEndIInv,
     StutterIInv DEF Next, Visor
<1> QED  BY <1>1, <1>2, PTL DEF Spec

-----------------------------------------------------------------------------
(* The properties *)

\* The state of run() keeps its type: no module is in the table that was not
\* registered (mod.rs:144-178).
THEOREM TypeCorrect == Spec => []TypeOK
<1>1. IInv => TypeOK
  BY Zenon DEF IInv
<1> QED  BY <1>1, Inductive, PTL

\* Stages run one after the other, each only if the earlier ones succeeded
\* (mod.rs:250-253).
THEOREM Barrier == Spec => []StageBarrier
<1>1. IInv => StageBarrier
  <2> SUFFICES ASSUME IInv, NEW t \in Tasks(conf), NEW u \in Tasks(conf),
                      thr[t] # "idle", u[1] < t[1]
               PROVE  thr[u] = "ok"
    BY Zenon DEF StageBarrier
  <2>1. t[1] \in Nat /\ u[1] \in Nat /\ stage \in Nat
    BY ConfShaped DEF Shaped, IInv, TypeOK
  <2> QED  BY <2>1 DEF IInv, Before, After
<1> QED  BY <1>1, Inductive, PTL

\* run() leaves no thread behind, and what it gives back is what happened
\* (mod.rs:205-223).
THEOREM Outcome == Spec => []OutcomeFaithful
<1>1. IInv => OutcomeFaithful
  BY Zenon DEF IInv
<1> QED  BY <1>1, Inductive, PTL

\* Functions run only from loaded modules (mod.rs:200-203).
THEOREM LoadedBeforeRun == Spec => []RunsLoaded
<1>1. IInv => RunsLoaded
  BY Zenon DEF IInv
<1> QED  BY <1>1, Inductive, PTL

-----------------------------------------------------------------------------
(* Isolation::run implements StagedRun *)

\* Starting a function of the current stage is StagedRun's Begin (mod.rs:191, 208-214).
LEMMA BeginStep ==
    ASSUME IInv, NEW t \in Tasks(conf), t[1] = stage, thr[t] = "idle", pc \notin Final,
           thr' = [thr EXCEPT ![t] = "running"], UNCHANGED <<conf, pc>>
    PROVE  Staged!Next
<1>1. \A u \in Tasks(conf) : u[1] < t[1] => thr[u] = "ok"
  BY Zenon DEF IInv, Before
<1>2. Staged!Begin(t)
  BY Zenon, <1>1 DEF Staged!Begin
<1> QED  BY Zenon, <1>2 DEF Staged!Next

\* The end of run() is StagedRun's Return (mod.rs:258 and the early returns).
LEMMA ReturnStep ==
    ASSUME IInv, IInv', pc \notin Final, pc' \in Final, UNCHANGED <<conf, thr>>
    PROVE  Staged!Next
<1>1. Staged!Return(pc')
  BY Zenon DEF Staged!Return, IInv, NoOrphan, OutcomeFaithful, Final
<1> QED  BY Zenon, <1>1 DEF Staged!Next, Final

\* A step of the visor that starts nothing and does not return is invisible.
LEMMA QuietStep ==
    ASSUME pc \notin Final, pc' \notin Final, UNCHANGED <<conf, thr>>
    PROVE  UNCHANGED Staged!stagedVars
BY Zenon DEF Staged!stagedVars

\* Isolation::run keeps the promise of StagedRun, whatever the configuration.
THEOREM Refinement == Spec => ImplementsStaged
<1>1. Init => Staged!Init
  BY Zenon DEF Init, Staged!Init, Final
<1>2. IInv /\ IInv' /\ [Next]_vars => [Staged!Next]_(Staged!stagedVars)
  <2> SUFFICES ASSUME IInv, IInv', [Next]_vars
               PROVE  Staged!Next \/ UNCHANGED Staged!stagedVars
    BY Zenon
  <2>1. CASE Start
    BY Zenon, <2>1, ReturnStep, QuietStep DEF Start, Final
  <2>2. CASE NextStage
    BY Zenon, <2>2, ReturnStep, QuietStep DEF NextStage, Final
  <2>3. CASE LoadApp
    BY Zenon, <2>3, ReturnStep, QuietStep DEF LoadApp, Final
  <2>4. CASE Loaded
    BY Zenon, <2>4, QuietStep DEF Loaded, Final
  <2>5. CASE CallApp
    <3>1. stage \in 1..Len(Stages(conf)) /\ 1 \in 1..Len(Stages(conf)[stage])
      BY <2>5, ConfShaped DEF CallApp, IInv, TypeOK, Control, InStage, Group, Shaped
    <3>2. <<stage, 1>> \in Tasks(conf) /\ <<stage, 1>>[1] = stage
      BY Zenon, <3>1, TaskIn
    <3> QED  BY Zenon, <2>5, <3>2, BeginStep DEF CallApp, Final
  <2>6. CASE AppReturned
    BY Zenon, <2>6, ReturnStep, QuietStep DEF AppReturned, Final
  <2>7. CASE SpawnApp
    <3>1. CASE thr' = thr
      BY Zenon, <2>7, <3>1, QuietStep DEF SpawnApp, Final
    <3>2. CASE thr' = [thr EXCEPT ![<<stage, idx>>] = "running"] /\ UNCHANGED pc
      <4>1. stage \in 1..Len(Stages(conf)) /\ idx \in 1..Len(Stages(conf)[stage])
        BY <2>7, ConfShaped DEF SpawnApp, IInv, TypeOK, Control, InStage, Group, Shaped
      <4>2. /\ <<stage, idx>> \in Tasks(conf)
            /\ <<stage, idx>>[1] = stage
            /\ <<stage, idx>>[2] = idx
        BY Zenon, <4>1, TaskIn
      <4>3. thr[<<stage, idx>>] = "idle"
        BY <2>7, <4>1, <4>2 DEF SpawnApp, IInv, Current, Known
      <4> QED  BY Zenon, <2>7, <3>2, <4>2, <4>3, BeginStep DEF SpawnApp, Final
    <3> QED  BY Zenon, <2>7, <3>1, <3>2 DEF SpawnApp
  <2>8. CASE Spawned
    BY Zenon, <2>8, QuietStep DEF Spawned, Final
  <2>9. CASE JoinApp
    BY Zenon, <2>9, QuietStep DEF JoinApp, Final
  <2>10. CASE Joined
    BY Zenon, <2>10, QuietStep DEF Joined, Final
  <2>11. CASE ScopeEnd
    BY Zenon, <2>11, ReturnStep, QuietStep DEF ScopeEnd, Final
  <2>12. ASSUME NEW t \in Tasks(conf), NEW o \in Finished, AppEnd(t, o)
         PROVE  Staged!Next
    <3>1. Staged!End(t, o)
      BY Zenon, <2>12 DEF AppEnd, Staged!End
    <3> QED  BY Zenon, <3>1 DEF Staged!Next, Staged!Finished, Finished
  <2>13. CASE UNCHANGED vars
    BY Zenon, <2>13 DEF vars, Staged!stagedVars
  <2> QED  BY Zenon, <2>1, <2>2, <2>3, <2>4, <2>5, <2>6, <2>7, <2>8, <2>9, <2>10, <2>11, <2>12,
              <2>13 DEF Next, Visor
<1> QED  BY <1>1, <1>2, Inductive, PTL DEF Spec, ImplementsStaged, Staged!Spec
==============================================================================
