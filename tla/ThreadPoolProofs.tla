-------------------------- MODULE ThreadPoolProofs --------------------------
(***************************************************************************)
(* Proofs about ThreadPool, for every number of workers, jobs and panics.  *)
(***************************************************************************)
EXTENDS ThreadPool, FiniteSetTheorems, TLAPS

\* The assumptions on the constants, in the parts the steps use.
LEMMA Bounds == TaskThreads \in Nat \ {0} /\ MaxPanics \in Nat
BY PoolAssumption

LEMMA NoJobIsAPlace == \A j \in Job : j \notin {"none", "probe", "pop", "leave", "gone"}
BY PoolAssumption

LEMMA TwoSpawners == Owner # Monitor
BY PoolAssumption

\* A thread inside spawn_worker has a slot of its own, counted but not yet
\* started.
SlotsOwned ==
    /\ \A s \in Spawner : at[s] \in {"start", "register"} => slot[s] \in Worker
    /\ \A s \in Spawner : at[s] = "start" => task[slot[s]] = "reserved"
    /\ at[Owner] = "start" /\ at[Monitor] = "start" => slot[Owner] # slot[Monitor]
    /\ at[Owner] \in {"spawn", "start", "refused", "register"} => left > 0
    /\ at[Owner] = "background" => left = 0

Typed == TypeOK /\ SlotsOwned

LEMMA TypedInit == Init => Typed
<1> SUFFICES ASSUME Init PROVE Typed
  OBVIOUS
<1> USE PoolAssumption DEF Init
<1>1. ControlOK
  BY DEF ControlOK, Spawner, OwnerPlace, MonitorPlace, WorkerPlace, BgPlace
<1>2. RegistryOK /\ QueuesOK
  BY DEF RegistryOK, QueuesOK
<1>3. T!TypeOK /\ G!TypeOK
  BY DEF T!Init, G!Init, T!TypeOK, G!TypeOK, T!Place, G!Place
<1>4. SlotsOwned
  BY DEF SlotsOwned, Spawner
<1> QED BY <1>1, <1>2, <1>3, <1>4 DEF Typed, TypeOK

\* The control state, and who owns which slot.
LEMMA ControlStep == Typed /\ [Next]_vars => (ControlOK /\ SlotsOwned)'
<1> SUFFICES ASSUME Typed, [Next]_vars PROVE (ControlOK /\ SlotsOwned)'
  OBVIOUS
<1> USE TwoSpawners, Bounds DEF Typed, TypeOK, ControlOK, SlotsOwned, Spawner, OwnerPlace, MonitorPlace,
        WorkerPlace, BgPlace, spawnVars, Goto, TaskGoto, BgGoto
<1> USE DEF RegistryOK
<1>1. ASSUME NEW s \in Spawner, NEW w \in Worker, Reserve(s, w) PROVE (ControlOK /\ SlotsOwned)'
  BY <1>1 DEF Reserve, RegistryOK
<1>2. ASSUME NEW s \in Spawner, Start(s) PROVE (ControlOK /\ SlotsOwned)'
  BY <1>2 DEF Start
<1>3. ASSUME NEW s \in Spawner, StartFails(s) PROVE (ControlOK /\ SlotsOwned)'
  BY <1>3 DEF StartFails, RegistryOK
<1>4. ASSUME NEW s \in Spawner, Refused(s) \/ TakeHandles(s) \/ Joined(s) PROVE (ControlOK /\ SlotsOwned)'
  BY <1>4 DEF Refused, TakeHandles, Joined
<1>5. ASSUME NEW s \in Spawner, Register(s) PROVE (ControlOK /\ SlotsOwned)'
  BY <1>5 DEF Register, RegistryOK
<1>6. ASSUME NEW w \in Worker, WorkerStep(w) PROVE (ControlOK /\ SlotsOwned)'
  <2>1. CASE Probe(w) \/ Turn(w)
    BY <2>1 DEF Probe, Turn
  <2>2. CASE TurnPanics(w)
    BY <2>2 DEF TurnPanics
  <2>3. CASE SendStopped(w)
    BY <2>3 DEF SendStopped
  <2>4. CASE DropGuard(w)
    BY <2>4 DEF DropGuard
  <2> QED BY <1>6, <2>1, <2>2, <2>3, <2>4 DEF WorkerStep
<1>7. ASSUME NEW b \in Bg, BgStep(b) PROVE (ControlOK /\ SlotsOwned)'
  <2>1. queue # <<>> => Head(queue) \in Job
    BY DEF QueuesOK
  <2> QED BY <1>7, <2>1 DEF BgStep, BgProbe, BgPop, BgRun, BgDropGuard
<1>8. ASSUME NEW j \in Job, Submit(j) PROVE (ControlOK /\ SlotsOwned)'
  BY <1>8 DEF Submit
<1>9. CASE Kill \/ MonitorStep
  BY <1>9 DEF Kill, MonitorStep, Listen, Timeout, Receive
<1>10. CASE OwnerStep
  BY <1>10 DEF OwnerStep, SpawnBgFails, SpawnBg, BlockOn, Shutdown, CloseJobs, JoinBg
<1>11. CASE UNCHANGED poolVars
  BY <1>11 DEF poolVars
<1> QED
  BY <1>1, <1>2, <1>3, <1>4, <1>5, <1>6, <1>7, <1>8, <1>9, <1>10, <1>11 DEF Next, SpawnStep, vars

\* The registry's own data.
LEMMA RegistryStep == Typed /\ [Next]_vars => RegistryOK'
<1> SUFFICES ASSUME Typed, [Next]_vars PROVE RegistryOK'
  OBVIOUS
<1> USE Bounds DEF Typed, TypeOK, RegistryOK, spawnVars
<1>1. ASSUME NEW s \in Spawner, SpawnStep(s) PROVE RegistryOK'
  <2>1. CASE Register(s)
    BY <2>1 DEF Register, SlotsOwned, Spawner, ControlOK
  <2> QED BY <1>1, <2>1 DEF SpawnStep, Start, StartFails, Refused, Reserve
<1>2. ASSUME NEW s \in Spawner, TakeHandles(s) \/ Joined(s) PROVE RegistryOK'
  BY <1>2 DEF TakeHandles, Joined
<1>3. ASSUME NEW w \in Worker, WorkerStep(w) PROVE RegistryOK'
  <2>1. CASE Probe(w) \/ Turn(w)
    BY <2>1 DEF Probe, Turn
  <2>2. CASE TurnPanics(w)
    BY <2>2 DEF TurnPanics
  <2>3. CASE SendStopped(w)
    BY <2>3 DEF SendStopped
  <2>4. CASE DropGuard(w)
    BY <2>4 DEF DropGuard
  <2> QED BY <1>3, <2>1, <2>2, <2>3, <2>4 DEF WorkerStep
<1>4. ASSUME NEW b \in Bg, BgStep(b) PROVE RegistryOK'
  BY <1>4 DEF BgStep, BgProbe, BgPop, BgRun, BgDropGuard
<1>5. ASSUME NEW j \in Job, Submit(j) PROVE RegistryOK'
  BY <1>5 DEF Submit
<1>6. CASE Kill \/ MonitorStep
  <2>1. CASE Receive
    <3>1. live' \in Int /\ handles' \subseteq Worker /\ UNCHANGED <<left, slot, taken, panics, called>>
      BY <2>1 DEF Receive
    <3> QED BY <3>1
  <2> QED BY <1>6, <2>1 DEF Kill, MonitorStep, Listen, Timeout
<1>7. CASE OwnerStep
  BY <1>7 DEF OwnerStep, SpawnBgFails, SpawnBg, BlockOn, Shutdown, CloseJobs, JoinBg, Working
<1>8. CASE UNCHANGED poolVars
  BY <1>8 DEF poolVars
<1> QED
  BY <1>1, <1>2, <1>3, <1>4, <1>5, <1>6, <1>7, <1>8 DEF Next, vars

LEMMA QueuesStep == Typed /\ [Next]_vars => QueuesOK'
<1> SUFFICES ASSUME Typed, [Next]_vars PROVE QueuesOK'
  OBVIOUS
<1> USE DEF Typed, TypeOK, QueuesOK, jobVars
<1>1. ASSUME NEW s \in Spawner, SpawnStep(s) PROVE QueuesOK'
  BY <1>1 DEF SpawnStep, Start, StartFails, Refused, Reserve, Register
<1>2. ASSUME NEW s \in Spawner, TakeHandles(s) \/ Joined(s) PROVE QueuesOK'
  BY <1>2 DEF TakeHandles, Joined
<1>3. ASSUME NEW w \in Worker, WorkerStep(w) PROVE QueuesOK'
  <2>1. <<"Panicked", w>> \in Message /\ <<"Stopped", w>> \in Message
    BY DEF Message
  <2>2. CASE Probe(w) \/ Turn(w)
    BY <2>2 DEF Probe, Turn
  <2>3. CASE TurnPanics(w)
    BY <2>1, <2>3 DEF TurnPanics, Send
  <2>4. CASE SendStopped(w)
    BY <2>1, <2>4 DEF SendStopped, Send
  <2>5. CASE DropGuard(w)
    BY <2>5 DEF DropGuard
  <2> QED BY <1>3, <2>2, <2>3, <2>4, <2>5 DEF WorkerStep
<1>4. ASSUME NEW b \in Bg, BgStep(b) PROVE QueuesOK'
  <2>1. queue # <<>> => Head(queue) \in Job /\ Tail(queue) \in Seq(Job)
    OBVIOUS
  <2> QED BY <1>4, <2>1 DEF BgStep, BgProbe, BgPop, BgRun, BgDropGuard
<1>5. ASSUME NEW j \in Job, Submit(j) PROVE QueuesOK'
  <2>1. queue' \in Seq(Job)
    BY <1>5 DEF Submit
  <2> QED BY <1>5, <2>1 DEF Submit
<1>6. CASE Kill \/ MonitorStep
  <2>1. events # <<>> => Tail(events) \in Seq(Message)
    OBVIOUS
  <2>2. CASE Receive
    BY <2>1, <2>2 DEF Receive
  <2> QED BY <1>6, <2>2 DEF Kill, MonitorStep, Listen, Timeout
<1>7. CASE OwnerStep
  BY <1>7 DEF OwnerStep, SpawnBgFails, SpawnBg, BlockOn, Shutdown, CloseJobs, JoinBg
<1>8. CASE UNCHANGED poolVars
  BY <1>8 DEF poolVars
<1> QED
  BY <1>1, <1>2, <1>3, <1>4, <1>5, <1>6, <1>7, <1>8 DEF Next, vars

\* What a step of the pool does to its wait groups.
TaskWaitMove == \/ T!Add
                \/ \E t \in Spawner \cup Worker :
                     T!Step(t) \/ T!SpuriousWake(t) \/ T!Done(t)
                \/ \E t \in Spawner : T!Enter(t)
                \/ UNCHANGED tVars

BgWaitMove == \/ G!Add
              \/ \E t \in {Owner} \cup Bg : G!Step(t) \/ G!SpuriousWake(t) \/ G!Done(t)
              \/ G!Enter(Owner)
              \/ UNCHANGED bVars

LEMMA WaitMoves == [Next]_vars => TaskWaitMove /\ BgWaitMove
<1> SUFFICES ASSUME [Next]_vars PROVE TaskWaitMove /\ BgWaitMove
  OBVIOUS
<1> USE DEF TaskWaitMove, BgWaitMove, tVars, bVars
<1>1. ASSUME NEW s \in Spawner, SpawnStep(s) PROVE TaskWaitMove /\ BgWaitMove
  BY <1>1 DEF SpawnStep, Start, StartFails, Refused, Reserve, Register
<1>2. ASSUME NEW s \in Spawner, TakeHandles(s) \/ Joined(s) PROVE TaskWaitMove /\ BgWaitMove
  BY <1>2 DEF TakeHandles, Joined
<1>3. ASSUME NEW w \in Worker, WorkerStep(w) PROVE TaskWaitMove /\ BgWaitMove
  BY <1>3 DEF WorkerStep, Probe, Turn, TurnPanics, SendStopped, DropGuard
<1>4. ASSUME NEW b \in Bg, BgStep(b) PROVE TaskWaitMove /\ BgWaitMove
  BY <1>4 DEF BgStep, BgProbe, BgPop, BgRun, BgDropGuard
<1>5. ASSUME NEW j \in Job, Submit(j) PROVE TaskWaitMove /\ BgWaitMove
  BY <1>5 DEF Submit
<1>6. CASE Kill \/ MonitorStep
  BY <1>6 DEF Kill, MonitorStep, Listen, Timeout, Receive, Spawner
<1>7. CASE OwnerStep
  BY <1>7 DEF OwnerStep, SpawnBgFails, SpawnBg, BlockOn, Shutdown, CloseJobs, JoinBg, Spawner
<1> QED
  BY <1>1, <1>2, <1>3, <1>4, <1>5, <1>6, <1>7 DEF Next, vars

LEMMA WaitsStep == Typed /\ [Next]_vars => (T!TypeOK /\ G!TypeOK)'
<1> SUFFICES ASSUME T!TypeOK, G!TypeOK, TaskWaitMove, BgWaitMove PROVE (T!TypeOK /\ G!TypeOK)'
  BY WaitMoves DEF Typed, TypeOK
<1>1. T!TypeOK'
  BY DEF TaskWaitMove, T!TypeOK, T!Step, T!SpuriousWake, T!Done, T!Enter, T!Go, T!Add, T!Release, T!Notify,
         T!Load, T!Lock, T!Check, T!Place, tVars, Spawner
<1>2. G!TypeOK'
  BY DEF BgWaitMove, G!TypeOK, G!Step, G!SpuriousWake, G!Done, G!Enter, G!Go, G!Add, G!Release, G!Notify,
         G!Load, G!Lock, G!Check, G!Place, bVars
<1> QED BY <1>1, <1>2

LEMMA TypedAlways == Spec => []Typed
<1>1. Typed /\ [Next]_vars => Typed'
  BY ControlStep, RegistryStep, QueuesStep, WaitsStep DEF Typed, TypeOK
<1> QED BY TypedInit, <1>1, PTL DEF Spec

\* Every variable keeps its type, for every number of workers and jobs.
THEOREM TypeCorrect == Spec => []TypeOK
BY TypedAlways, PTL DEF Typed

-----------------------------------------------------------------------------
\* The guards of the task workers.
TaskGuards == tCount = Cardinality(Working)

LEMMA WorkingFinite == IsFiniteSet(Working) /\ IsFiniteSet(BgWorking)
<1>1. Working \subseteq Worker /\ BgWorking \subseteq Bg
  BY DEF Working, BgWorking
<1> QED BY <1>1, PoolAssumption, FS_Subset

LEMMA TaskGuardsStep == Typed /\ TaskGuards /\ [Next]_vars => TaskGuards'
<1> SUFFICES ASSUME Typed, TaskGuards, [Next]_vars PROVE TaskGuards'
  OBVIOUS
<1>k. UNCHANGED <<tCount, task>> => TaskGuards'
  BY DEF TaskGuards, Working
<1> USE WorkingFinite, FS_CardinalityType DEF TaskGuards
<1>s. UNCHANGED tCount /\ Working' = Working => TaskGuards'
  OBVIOUS
<1>1. ASSUME NEW s \in Spawner, NEW w \in Worker, Reserve(s, w) PROVE TaskGuards'
  <2>1. Working' = Working \cup {w} /\ w \notin Working
    BY <1>1 DEF Reserve, Working, TaskGoto, Typed, TypeOK, ControlOK
  <2> QED BY <1>1, <2>1, FS_AddElement DEF Reserve, T!Add
<1>2. ASSUME NEW s \in Spawner, Start(s) PROVE TaskGuards'
  <2>1. slot[s] \in Worker /\ task[slot[s]] = "reserved"
    BY <1>2 DEF Start, Typed, SlotsOwned
  <2>2. Working' = Working
    BY <1>2, <2>1 DEF Start, Working, TaskGoto, Typed, TypeOK, ControlOK
  <2> QED BY <1>2, <2>2, <1>s DEF Start, tVars
<1>3. ASSUME NEW s \in Spawner, StartFails(s) PROVE TaskGuards'
  <2>1. slot[s] \in Worker /\ task[slot[s]] = "reserved"
    BY <1>3 DEF StartFails, Typed, SlotsOwned
  <2>2. Working' = Working \ {slot[s]} /\ slot[s] \in Working
    BY <1>3, <2>1 DEF StartFails, Working, TaskGoto, Typed, TypeOK, ControlOK
  <2> QED BY <1>3, <2>2, FS_RemoveElement DEF StartFails, T!Done
<1>4. ASSUME NEW s \in Spawner, Refused(s) \/ Register(s) \/ TakeHandles(s) \/ Joined(s) PROVE TaskGuards'
  BY <1>4, <1>k DEF Refused, Register, TakeHandles, Joined, tVars
<1>5. ASSUME NEW w \in Worker, WorkerStep(w) PROVE TaskGuards'
  <2>1. CASE DropGuard(w)
    <3>1. Working' = Working \ {w} /\ w \in Working
      BY <2>1 DEF DropGuard, Working, TaskGoto, Typed, TypeOK, ControlOK
    <3> QED BY <2>1, <3>1, FS_RemoveElement DEF DropGuard, T!Done
  <2>2. CASE ~DropGuard(w)
    <3>1. Working' = Working
      BY <1>5, <2>2 DEF WorkerStep, Probe, Turn, TurnPanics, SendStopped, Working, TaskGoto,
                        Typed, TypeOK, ControlOK
    <3> QED BY <1>5, <2>2, <3>1, <1>s DEF WorkerStep, Probe, Turn, TurnPanics, SendStopped, tVars
  <2> QED BY <2>1, <2>2
<1>6. ASSUME NEW b \in Bg, BgStep(b) PROVE TaskGuards'
  BY <1>6, <1>k DEF BgStep, BgProbe, BgPop, BgRun, BgDropGuard, tVars
<1>7. ASSUME NEW j \in Job, Submit(j) PROVE TaskGuards'
  BY <1>7, <1>k DEF Submit, tVars
<1>8. CASE Kill \/ MonitorStep
  BY <1>8, <1>k DEF Kill, MonitorStep, Listen, Timeout, Receive, tVars, T!Enter
<1>9. CASE OwnerStep
  BY <1>9, <1>k DEF OwnerStep, SpawnBgFails, SpawnBg, BlockOn, Shutdown, CloseJobs, JoinBg, tVars, T!Enter
<1>10. ASSUME NEW t \in Spawner \cup Worker, T!Step(t) \/ T!SpuriousWake(t), UNCHANGED <<poolVars, bVars>>
       PROVE  TaskGuards'
  BY <1>10, <1>k DEF poolVars, T!Step, T!SpuriousWake, T!Release, T!Notify, T!Load, T!Lock, T!Check
<1>11. CASE UNCHANGED <<poolVars, tVars>>
  BY <1>11, <1>k DEF poolVars, tVars
<1> QED
  BY <1>1, <1>2, <1>3, <1>4, <1>5, <1>6, <1>7, <1>8, <1>9, <1>10, <1>11 DEF Next, SpawnStep, vars

\* The guards of the background workers, and the one that a failed spawn leaks.
Leaked == IF at[Owner] = "panicked" /\ left = 0 THEN 1 ELSE 0
BgGuards == bCount = Cardinality(BgWorking) + Leaked

LEMMA BgGuardsStep == Typed /\ BgGuards /\ [Next]_vars => BgGuards'
<1> SUFFICES ASSUME Typed, BgGuards, [Next]_vars PROVE BgGuards'
  OBVIOUS
<1>k. UNCHANGED <<bCount, bg>> /\ Leaked' = Leaked => BgGuards'
  BY DEF BgGuards, BgWorking
<1>l. UNCHANGED <<at, left>> => Leaked' = Leaked
  BY DEF Leaked
<1> USE WorkingFinite, FS_CardinalityType DEF BgGuards
<1>s. UNCHANGED bCount /\ BgWorking' = BgWorking /\ Leaked' = Leaked => BgGuards'
  OBVIOUS
<1>1. ASSUME NEW s \in Spawner, SpawnStep(s) PROVE BgGuards'
  <2>1. Leaked' = Leaked
    BY <1>1, TwoSpawners DEF SpawnStep, Start, StartFails, Refused, Reserve, Register, Leaked, Goto, Spawner,
       Typed, TypeOK, ControlOK, RegistryOK, SlotsOwned, spawnVars
  <2> QED BY <1>1, <2>1, <1>k DEF SpawnStep, Start, StartFails, Refused, Reserve, Register, bVars
<1>2. ASSUME NEW s \in Spawner, TakeHandles(s) \/ Joined(s) PROVE BgGuards'
  <2>1. Leaked' = Leaked
    BY <1>2, TwoSpawners DEF TakeHandles, Joined, Leaked, Goto, Spawner, Typed, TypeOK, ControlOK, spawnVars
  <2> QED BY <1>2, <2>1, <1>k DEF TakeHandles, Joined, bVars
<1>3. ASSUME NEW w \in Worker, WorkerStep(w) PROVE BgGuards'
  BY <1>3, <1>k, <1>l DEF WorkerStep, Probe, Turn, TurnPanics, SendStopped, DropGuard, bVars, spawnVars
<1>4. ASSUME NEW b \in Bg, BgStep(b) PROVE BgGuards'
  <2>0. UNCHANGED <<at, left>>
    BY <1>4 DEF BgStep, BgProbe, BgPop, BgRun, BgDropGuard, spawnVars
  <2>1. CASE BgDropGuard(b)
    <3>1. BgWorking' = BgWorking \ {b} /\ b \in BgWorking
      BY <2>1, NoJobIsAPlace DEF BgDropGuard, BgWorking, BgGoto, Typed, TypeOK, ControlOK
    <3>2. bCount' = bCount - 1
      BY <2>1 DEF BgDropGuard, G!Done
    <3>3. Leaked' = Leaked /\ Leaked \in Int
      BY <2>0, <1>l DEF Leaked
    <3>4. Cardinality(BgWorking \ {b}) = Cardinality(BgWorking) - 1
      BY <3>1, FS_RemoveElement
    <3>5. Cardinality(BgWorking) \in Int
      OBVIOUS
    <3> QED BY <3>1, <3>2, <3>3, <3>4, <3>5
  <2>2. CASE ~BgDropGuard(b)
    <3>1. queue # <<>> => Head(queue) \in Job
      BY DEF Typed, TypeOK, QueuesOK
    <3>2. BgWorking' = BgWorking
      BY <1>4, <2>2, <3>1 DEF BgStep, BgProbe, BgPop, BgRun, BgWorking, BgGoto, Typed, TypeOK, ControlOK
    <3> QED BY <1>4, <2>0, <2>2, <3>2, <1>l, <1>s DEF BgStep, BgProbe, BgPop, BgRun, bVars
  <2> QED BY <2>1, <2>2
<1>5. ASSUME NEW j \in Job, Submit(j) PROVE BgGuards'
  BY <1>5, <1>k, <1>l DEF Submit, bVars, spawnVars
<1>6. CASE Kill \/ MonitorStep
  <2>1. Leaked' = Leaked
    BY <1>6, TwoSpawners DEF Kill, MonitorStep, Listen, Timeout, Receive, Leaked, Goto, Spawner,
                             Typed, TypeOK, ControlOK, spawnVars
  <2> QED BY <1>6, <2>1, <1>k DEF Kill, MonitorStep, Listen, Timeout, Receive, bVars
<1>7. CASE SpawnBgFails
  <2>1. Leaked = 0 /\ Leaked' = 1
    BY <1>7 DEF SpawnBgFails, Leaked, Goto, Spawner, Typed, TypeOK, ControlOK, SlotsOwned, spawnVars
  <2>2. bCount' = bCount + 1 /\ BgWorking' = BgWorking
    BY <1>7 DEF SpawnBgFails, G!Add, BgWorking
  <2> QED BY <2>1, <2>2
<1>8. ASSUME NEW b \in Bg, SpawnBg(b) PROVE BgGuards'
  <2>1. BgWorking' = BgWorking \cup {b} /\ b \notin BgWorking
    BY <1>8, NoJobIsAPlace DEF SpawnBg, BgWorking, BgGoto, Typed, TypeOK, ControlOK
  <2>2. bCount' = bCount + 1
    BY <1>8 DEF SpawnBg, G!Add
  <2>3. Leaked = 0 /\ Leaked' = 0
    BY <1>8 DEF SpawnBg, Leaked, Goto, Spawner, Typed, TypeOK, ControlOK
  <2> QED BY <2>1, <2>2, <2>3, FS_AddElement
<1>9. CASE BlockOn \/ Shutdown \/ CloseJobs \/ JoinBg
  <2>1. Leaked' = Leaked
    BY <1>9 DEF BlockOn, Shutdown, CloseJobs, JoinBg, Leaked, Goto, Spawner, Typed, TypeOK, ControlOK, spawnVars
  <2> QED BY <1>9, <2>1, <1>k DEF BlockOn, Shutdown, CloseJobs, JoinBg, bVars, G!Enter
<1>10. ASSUME NEW t \in {Owner} \cup Bg, G!Step(t) \/ G!SpuriousWake(t), UNCHANGED <<poolVars, tVars>>
       PROVE  BgGuards'
  BY <1>10, <1>k, <1>l DEF poolVars, spawnVars, G!Step, G!SpuriousWake, G!Release, G!Notify, G!Load, G!Lock, G!Check
<1>11. CASE UNCHANGED <<poolVars, bVars>>
  BY <1>11, <1>k, <1>l DEF poolVars, bVars, spawnVars
<1> QED
  BY <1>1, <1>2, <1>3, <1>4, <1>5, <1>6, <1>7, <1>8, <1>9, <1>10, <1>11 DEF Next, OwnerStep, vars

LEMMA GuardsAlways == Spec => [](Typed /\ TaskGuards /\ BgGuards)
<1>1. Init => TaskGuards /\ BgGuards
  <2> SUFFICES ASSUME Init PROVE TaskGuards /\ BgGuards
    OBVIOUS
  <2>1. Working = {} /\ BgWorking = {} /\ Leaked = 0
    BY NoJobIsAPlace DEF Init, Working, BgWorking, Leaked, Spawner
  <2>2. tCount = 0 /\ bCount = 0
    BY DEF Init, T!Init, G!Init
  <2> QED BY <2>1, <2>2, FS_EmptySet DEF TaskGuards, BgGuards
<1> QED BY <1>1, TypedAlways, TaskGuardsStep, BgGuardsStep, PTL DEF Spec

\* waitgroup.rs, spawn_worker, worker_loop: whatever way a worker leaves, the
\* counts are the numbers of the guards alive.
THEOREM GuardsCorrect == Spec => []GuardsCounted
<1>1. TaskGuards /\ BgGuards => GuardsCounted
  BY DEF TaskGuards, BgGuards, Leaked, GuardsCounted
<1> QED BY <1>1, GuardsAlways, PTL

-----------------------------------------------------------------------------
\* What shutdown leaves behind: the workers counted when it was called are not
\* respawned, and have dropped their guards when its wait is over.
Waited ==
    /\ called # {} => kill = "set" /\ at[Owner] \in {"close", "joinBg", "wait", "join", "done"}
    /\ \A w \in called : task[w] = "none" => at[Monitor] # "spawn"
    /\ tPlace[Owner] \in {"release", "notify"} => at[Owner] = "refused"
    /\ at[Owner] = "wait" /\ tPlace[Owner] = "out" => called \cap Working = {}
    /\ at[Owner] \in {"join", "done"} => called \cap Working = {}

LEMMA WaitedStep == Typed /\ TaskGuards /\ Waited /\ [Next]_vars => Waited'
<1> SUFFICES ASSUME Typed, TaskGuards, Waited, [Next]_vars PROVE Waited'
  OBVIOUS
<1> USE TwoSpawners DEF Waited, Typed, TypeOK, ControlOK, RegistryOK, SlotsOwned, T!TypeOK, Spawner,
                        OwnerPlace, MonitorPlace, spawnVars, tVars, Goto, TaskGoto
<1>1. ASSUME NEW s \in Spawner, NEW w \in Worker, Reserve(s, w) PROVE Waited'
  <2>1. w \notin called
    BY <1>1 DEF Reserve
  <2> QED BY <1>1, <2>1 DEF Reserve, Working, T!Add
<1>2. ASSUME NEW s \in Spawner, Start(s) PROVE Waited'
  BY <1>2 DEF Start, Working
<1>3. ASSUME NEW s \in Spawner, StartFails(s) PROVE Waited'
  BY <1>3 DEF StartFails, Working, T!Done, T!Go
<1>4. ASSUME NEW s \in Spawner, Refused(s) PROVE Waited'
  BY <1>4 DEF Refused, Working
<1>5. ASSUME NEW s \in Spawner, Register(s) PROVE Waited'
  BY <1>5 DEF Register, Working
<1>6. ASSUME NEW s \in Spawner, TakeHandles(s) \/ Joined(s) PROVE Waited'
  BY <1>6 DEF TakeHandles, Joined, Working
<1>7. ASSUME NEW w \in Worker, WorkerStep(w) PROVE Waited'
  <2>1. w # Owner
    BY PoolAssumption
  <2>2. CASE DropGuard(w)
    BY <2>1, <2>2 DEF DropGuard, Working, T!Done, T!Go
  <2> QED BY <1>7, <2>2 DEF WorkerStep, Probe, Turn, TurnPanics, SendStopped, Working
<1>8. ASSUME NEW b \in Bg, BgStep(b) PROVE Waited'
  BY <1>8 DEF BgStep, BgProbe, BgPop, BgRun, BgDropGuard, Working
<1>9. ASSUME NEW j \in Job, Submit(j) PROVE Waited'
  BY <1>9 DEF Submit, Working
<1>10. CASE Kill
  BY <1>10 DEF Kill, Working
<1>11. CASE MonitorStep
  BY <1>11 DEF MonitorStep, Listen, Timeout, Receive, Respawns, Working, T!Enter, T!Go
<1>12. CASE SpawnBgFails \/ \E b \in Bg : SpawnBg(b)
  BY <1>12 DEF SpawnBgFails, SpawnBg, Working
<1>13. CASE BlockOn
  BY <1>13 DEF BlockOn, Working, T!Enter, T!Go
<1>14. CASE Shutdown
  BY <1>14 DEF Shutdown, Working, T!Enter, T!Go
<1>15. CASE CloseJobs \/ JoinBg
  BY <1>15 DEF CloseJobs, JoinBg, Working, T!Enter, T!Go
<1>16. ASSUME NEW t \in Spawner \cup Worker, T!Step(t) \/ T!SpuriousWake(t), UNCHANGED poolVars
       PROVE  Waited'
  <2>1. Working' = Working
    BY <1>16 DEF poolVars, Working
  <2>2. T!Load(t) /\ tCount = 0 => Working = {}
    BY WorkingFinite, FS_EmptySet DEF TaskGuards
  <2>3. tPlace'[Owner] \in {"release", "notify"} => tPlace[Owner] \in {"release", "notify"}
    BY <1>16 DEF T!Step, T!SpuriousWake, T!Release, T!Notify, T!Load, T!Lock, T!Check, T!Go
  <2>4. tPlace'[Owner] = "out" /\ tPlace[Owner] # "out" =>
           tPlace[Owner] = "notify" \/ (T!Load(t) /\ tCount = 0)
    BY <1>16 DEF T!Step, T!SpuriousWake, T!Release, T!Notify, T!Load, T!Lock, T!Check, T!Go
  <2> QED BY <1>16, <2>1, <2>2, <2>3, <2>4 DEF poolVars
<1>17. CASE UNCHANGED <<poolVars, tVars>>
  BY <1>17 DEF poolVars, Working
<1> QED
  BY <1>1, <1>2, <1>3, <1>4, <1>5, <1>6, <1>7, <1>8, <1>9, <1>10, <1>11, <1>12, <1>13, <1>14, <1>15,
     <1>16, <1>17 DEF Next, SpawnStep, OwnerStep, vars

\* PoolGuard::shutdown: when it goes on to join the threads, every worker that
\* was counted when it was called has dropped its guard.
THEOREM ShutdownWaits == Spec => []ShutdownWaited
<1>1. Init => Waited
  BY DEF Init, Waited, T!Init, Spawner
<1>2. Waited => ShutdownWaited
  BY DEF Waited, ShutdownWaited
<1> QED BY <1>1, <1>2, GuardsAlways, WaitedStep, PTL DEF Spec

-----------------------------------------------------------------------------
\* The monitor is the only one to count down, and looks before it does.
Counted == live >= 0 /\ (at[Monitor] = "recv" => live > 0)

\* listen_for_activity: two subtractions for one panicked worker never bring
\* the unsigned counter below zero.
THEOREM LiveCorrect == Spec => []LiveNeverWraps
<1>1. Init => Counted
  BY TwoSpawners DEF Init, Counted, Spawner
<1>2. Typed /\ Counted /\ [Next]_vars => Counted'
  <2> SUFFICES ASSUME Typed, Counted, [Next]_vars PROVE Counted'
    OBVIOUS
  <2> USE TwoSpawners DEF Counted, Typed, TypeOK, ControlOK, RegistryOK, Spawner, spawnVars, Goto
  <2>1. ASSUME NEW s \in Spawner, SpawnStep(s) PROVE Counted'
    BY <2>1 DEF SpawnStep, Start, StartFails, Refused, Reserve, Register
  <2>2. ASSUME NEW s \in Spawner, TakeHandles(s) \/ Joined(s) PROVE Counted'
    BY <2>2 DEF TakeHandles, Joined
  <2>3. UNCHANGED <<at, live>> => Counted'
    OBVIOUS
  <2>4. ASSUME NEW w \in Worker, WorkerStep(w) PROVE Counted'
    BY <2>3, <2>4 DEF WorkerStep, Probe, Turn, TurnPanics, SendStopped, DropGuard
  <2>5. ASSUME NEW b \in Bg, BgStep(b) PROVE Counted'
    BY <2>3, <2>5 DEF BgStep, BgProbe, BgPop, BgRun, BgDropGuard
  <2>6. ASSUME NEW j \in Job, Submit(j) PROVE Counted'
    BY <2>3, <2>6 DEF Submit
  <2>7. CASE Kill
    BY <2>3, <2>7 DEF Kill
  <2>8. CASE MonitorStep
    <3>1. CASE Listen
      BY <3>1 DEF Listen
    <3>2. CASE Timeout
      BY <3>2 DEF Timeout
    <3>3. CASE Receive
      <4>1. live' = live - 1 /\ at[Monitor] = "recv" /\ at'[Monitor] # "recv"
        BY <3>3 DEF Receive
      <4> QED BY <4>1
    <3> QED BY <2>8, <3>1, <3>2, <3>3 DEF MonitorStep
  <2>9. CASE OwnerStep
    BY <2>9 DEF OwnerStep, SpawnBgFails, SpawnBg, BlockOn, Shutdown, CloseJobs, JoinBg
  <2>10. CASE UNCHANGED poolVars
    BY <2>3, <2>10 DEF poolVars
  <2> QED BY <2>1, <2>2, <2>4, <2>5, <2>6, <2>7, <2>8, <2>9, <2>10 DEF Next, vars
<1>3. Counted => LiveNeverWraps
  BY DEF Counted, LiveNeverWraps
<1> QED BY <1>1, <1>2, <1>3, TypedAlways, PTL DEF Spec

-----------------------------------------------------------------------------
\* LockSignal: nobody sleeps on a released flag once its signaller has notified.
THEOREM WakeCorrect == Spec => []ReleasedWakes
<1>1. Init => ReleasedWakes
  BY DEF Init, ReleasedWakes, T!ReleasedWakes, G!ReleasedWakes, T!Init, G!Init
<1>2. Typed /\ ReleasedWakes /\ [Next]_vars => ReleasedWakes'
  <2> SUFFICES ASSUME T!TypeOK, G!TypeOK, ReleasedWakes, TaskWaitMove, BgWaitMove PROVE ReleasedWakes'
    BY WaitMoves DEF Typed, TypeOK
  <2>1. T!ReleasedWakes'
    <3> USE DEF ReleasedWakes, T!ReleasedWakes, T!TypeOK, T!Place, T!Go
    <3>1. ASSUME NEW t \in Spawner \cup Worker, T!Release(t) \/ T!Notify(t) PROVE T!ReleasedWakes'
      BY <3>1 DEF T!Release, T!Notify
    <3>2. ASSUME NEW t \in Spawner \cup Worker, T!Load(t) \/ T!Lock(t) \/ T!Check(t) PROVE T!ReleasedWakes'
      BY <3>2 DEF T!Load, T!Lock, T!Check
    <3>3. ASSUME NEW t \in Spawner \cup Worker, T!SpuriousWake(t) \/ T!Done(t) PROVE T!ReleasedWakes'
      BY <3>3 DEF T!SpuriousWake, T!Done
    <3>4. ASSUME NEW t \in Spawner \cup Worker, T!Enter(t) PROVE T!ReleasedWakes'
      BY <3>4 DEF T!Enter
    <3>5. CASE T!Add \/ UNCHANGED tVars
      BY <3>5 DEF T!Add, tVars
    <3> QED BY <3>1, <3>2, <3>3, <3>4, <3>5 DEF TaskWaitMove, T!Step, Spawner
  <2>2. G!ReleasedWakes'
    <3> USE DEF ReleasedWakes, G!ReleasedWakes, G!TypeOK, G!Place, G!Go
    <3>1. ASSUME NEW t \in {Owner} \cup Bg, G!Release(t) \/ G!Notify(t) PROVE G!ReleasedWakes'
      BY <3>1 DEF G!Release, G!Notify
    <3>2. ASSUME NEW t \in {Owner} \cup Bg, G!Load(t) \/ G!Lock(t) \/ G!Check(t) PROVE G!ReleasedWakes'
      BY <3>2 DEF G!Load, G!Lock, G!Check
    <3>3. ASSUME NEW t \in {Owner} \cup Bg, G!SpuriousWake(t) \/ G!Done(t) PROVE G!ReleasedWakes'
      BY <3>3 DEF G!SpuriousWake, G!Done
    <3>4. ASSUME NEW t \in {Owner} \cup Bg, G!Enter(t) PROVE G!ReleasedWakes'
      BY <3>4 DEF G!Enter
    <3>5. CASE G!Add \/ UNCHANGED bVars
      BY <3>5 DEF G!Add, bVars
    <3> QED BY <3>1, <3>2, <3>3, <3>4, <3>5 DEF BgWaitMove, G!Step, Spawner
  <2> QED BY <2>1, <2>2 DEF ReleasedWakes
<1> QED BY <1>1, <1>2, TypedAlways, PTL DEF Spec

-----------------------------------------------------------------------------
\* A pool of initialize_pool has no monitor: every worker it ever started is
\* one whose handle is kept, is about to be, or is being joined.
Spawning == IF at[Owner] \in {"start", "register"} THEN {slot[Owner]} ELSE {}

Joinable ==
    kind = "pool" =>
      /\ at[Monitor] = "none"
      /\ \A w \in Worker : task[w] # "none" => w \in handles \cup taken[Owner] \cup Spawning
      /\ at[Owner] \in {"join", "done"} => handles = {}
      /\ at[Owner] \notin {"join", "done"} => taken[Owner] = {}
      /\ at[Owner] = "done" => \A w \in Worker : WorkerEnded(w)

\* A thread whose closure is over takes part in no wait group again.
LEMMA EndedStays ==
    ASSUME Typed, [Next]_vars, NEW w \in Worker, task[w] = "gone"
    PROVE  task'[w] = "gone" /\ (tPlace[w] = "out" => tPlace'[w] = "out")
<1> USE DEF Typed, TypeOK, ControlOK, T!TypeOK, WorkerPlace, tVars, TaskGoto, T!Go
<1>0. w # Owner /\ w # Monitor /\ w \in Spawner \cup Worker
  BY PoolAssumption
<1>1. ASSUME NEW s \in Spawner, SpawnStep(s) PROVE task'[w] = "gone" /\ tPlace'[w] = tPlace[w]
  <2>1. s # w
    BY <1>0 DEF Spawner
  <2> QED BY <1>1, <2>1 DEF SpawnStep, Start, StartFails, Refused, Reserve, Register, SlotsOwned, T!Add, T!Done
<1>2. ASSUME NEW s \in Spawner, TakeHandles(s) \/ Joined(s) PROVE task'[w] = "gone" /\ tPlace'[w] = tPlace[w]
  BY <1>2 DEF TakeHandles, Joined
<1>3. ASSUME NEW v \in Worker, WorkerStep(v) PROVE task'[w] = "gone" /\ tPlace'[w] = tPlace[w]
  <2>1. v # w /\ (DropGuard(v) \/ UNCHANGED tVars)
    BY <1>3 DEF WorkerStep, Probe, Turn, TurnPanics, SendStopped, DropGuard
  <2>2. task'[w] = task[w]
    BY <1>3, <2>1 DEF WorkerStep, Probe, Turn, TurnPanics, SendStopped, DropGuard
  <2> QED BY <2>1, <2>2 DEF DropGuard, T!Done
<1>4. ASSUME NEW b \in Bg, BgStep(b) PROVE task'[w] = "gone" /\ tPlace'[w] = tPlace[w]
  BY <1>4 DEF BgStep, BgProbe, BgPop, BgRun, BgDropGuard
<1>5. ASSUME NEW j \in Job, Submit(j) PROVE task'[w] = "gone" /\ tPlace'[w] = tPlace[w]
  BY <1>5 DEF Submit
<1>6. CASE Kill \/ MonitorStep
  BY <1>0, <1>6 DEF Kill, MonitorStep, Listen, Timeout, Receive, T!Enter
<1>7. CASE OwnerStep
  BY <1>0, <1>7 DEF OwnerStep, SpawnBgFails, SpawnBg, BlockOn, Shutdown, CloseJobs, JoinBg, T!Enter
<1>8. ASSUME NEW t \in Spawner \cup Worker, T!Step(t) \/ T!SpuriousWake(t), UNCHANGED poolVars
      PROVE  task'[w] = "gone" /\ (tPlace[w] = "out" => tPlace'[w] = "out")
  BY <1>8 DEF poolVars, T!Step, T!SpuriousWake, T!Release, T!Notify, T!Load, T!Lock, T!Check
<1>9. CASE UNCHANGED <<poolVars, tVars>>
  BY <1>9 DEF poolVars
<1> QED BY <1>1, <1>2, <1>3, <1>4, <1>5, <1>6, <1>7, <1>8, <1>9 DEF Next, vars

LEMMA KindKept == [Next]_vars => kind' = kind
<1> SUFFICES ASSUME [Next]_vars PROVE kind' = kind
  OBVIOUS
<1>1. ASSUME NEW s \in Spawner, SpawnStep(s) \/ TakeHandles(s) \/ Joined(s) PROVE kind' = kind
  BY <1>1 DEF SpawnStep, Start, StartFails, Refused, Reserve, Register, TakeHandles, Joined
<1>2. ASSUME NEW w \in Worker, WorkerStep(w) PROVE kind' = kind
  BY <1>2 DEF WorkerStep, Probe, Turn, TurnPanics, SendStopped, DropGuard
<1>3. ASSUME NEW b \in Bg, BgStep(b) PROVE kind' = kind
  BY <1>3 DEF BgStep, BgProbe, BgPop, BgRun, BgDropGuard
<1>4. ASSUME NEW j \in Job, Submit(j) PROVE kind' = kind
  BY <1>4 DEF Submit
<1>5. CASE Kill \/ MonitorStep
  BY <1>5 DEF Kill, MonitorStep, Listen, Timeout, Receive
<1>6. CASE OwnerStep
  BY <1>6 DEF OwnerStep, SpawnBgFails, SpawnBg, BlockOn, Shutdown, CloseJobs, JoinBg
<1>7. CASE UNCHANGED poolVars
  BY <1>7 DEF poolVars
<1> QED BY <1>1, <1>2, <1>3, <1>4, <1>5, <1>6, <1>7 DEF Next, vars

LEMMA JoinableStep == Typed /\ Joinable /\ [Next]_vars => Joinable'
<1> SUFFICES ASSUME Typed, Joinable, [Next]_vars, kind = "pool", kind' = "pool" PROVE Joinable'
  BY KindKept DEF Joinable
<1>0. ASSUME NEW w \in Worker, WorkerEnded(w), task'[w] # "none", task[w] # "none" PROVE WorkerEnded(w)'
  BY <1>0, EndedStays DEF WorkerEnded
<1> USE TwoSpawners DEF Joinable, Typed, TypeOK, ControlOK, RegistryOK, SlotsOwned, Spawner, Spawning,
                        spawnVars, Goto, TaskGoto
<1>1. ASSUME NEW s \in Spawner, SpawnStep(s) PROVE Joinable'
  <2>1. s = Owner /\ at[Owner] \notin {"join", "done"} /\ at'[Owner] \notin {"join", "done"} /\ taken' = taken
    BY <1>1 DEF SpawnStep, Start, StartFails, Refused, Reserve, Register
  <2>2. at'[Monitor] = "none"
    BY <1>1, <2>1 DEF SpawnStep, Start, StartFails, Refused, Reserve, Register
  <2>3. ASSUME NEW w \in Worker, task'[w] # "none" PROVE (w \in handles \cup taken[Owner] \cup Spawning)'
    <3>1. CASE \E v \in Worker : Reserve(s, v)
      BY <2>1, <2>3, <3>1 DEF Reserve
    <3>2. CASE Start(s)
      BY <2>1, <2>3, <3>2 DEF Start
    <3>3. CASE StartFails(s)
      BY <2>1, <2>3, <3>3 DEF StartFails
    <3>4. CASE Refused(s)
      BY <2>1, <2>3, <3>4 DEF Refused
    <3>5. CASE Register(s)
      BY <2>1, <2>3, <3>5 DEF Register
    <3> QED BY <1>1, <3>1, <3>2, <3>3, <3>4, <3>5 DEF SpawnStep
  <2> QED BY <2>1, <2>2, <2>3
<1>2. ASSUME NEW s \in Spawner, TakeHandles(s) \/ Joined(s) PROVE Joinable'
  <2>1. s = Owner /\ task' = task
    BY <1>2 DEF TakeHandles, Joined
  <2>2. CASE TakeHandles(s)
    BY <2>1, <2>2 DEF TakeHandles
  <2>3. CASE Joined(s)
    <3>1. \A w \in Worker : WorkerEnded(w)
      BY <2>1, <2>3 DEF Joined, WorkerEnded
    <3>2. (\A w \in Worker : WorkerEnded(w))'
      BY <2>3, <3>1 DEF Joined, WorkerEnded, tVars
    <3> QED BY <2>1, <2>3, <3>2 DEF Joined
  <2> QED BY <1>2, <2>2, <2>3
<1>3. ASSUME UNCHANGED <<at, handles, taken, slot>>,
             \A w \in Worker : task'[w] # "none" => task[w] # "none"
      PROVE  Joinable'
  <2>1. ASSUME at[Owner] = "done", NEW w \in Worker PROVE WorkerEnded(w)'
    BY <1>0, <1>3, <2>1 DEF WorkerEnded
  <2> QED BY <1>3, <2>1
<1>4. ASSUME NEW w \in Worker, WorkerStep(w) PROVE Joinable'
  BY <1>3, <1>4 DEF WorkerStep, Probe, Turn, TurnPanics, SendStopped, DropGuard
<1>5. ASSUME NEW b \in Bg, BgStep(b) PROVE Joinable'
  BY <1>3, <1>5 DEF BgStep, BgProbe, BgPop, BgRun, BgDropGuard
<1>6. ASSUME NEW j \in Job, Submit(j) PROVE Joinable'
  BY <1>3, <1>6 DEF Submit
<1>7. CASE Kill
  BY <1>3, <1>7 DEF Kill
<1>8. CASE MonitorStep
  BY <1>8 DEF MonitorStep, Listen, Timeout, Receive
<1>9. CASE OwnerStep
  <2>1. at[Owner] \notin {"join", "done"} /\ at'[Owner] \notin {"join", "done"} /\ at'[Monitor] = "none"
    BY <1>9 DEF OwnerStep, SpawnBgFails, SpawnBg, BlockOn, Shutdown, CloseJobs, JoinBg
  <2>2. UNCHANGED <<task, handles, taken>> /\ Spawning = {}
    BY <1>9 DEF OwnerStep, SpawnBgFails, SpawnBg, BlockOn, Shutdown, CloseJobs, JoinBg
  <2> QED BY <2>1, <2>2
<1>10. CASE UNCHANGED poolVars
  BY <1>3, <1>10 DEF poolVars
<1> QED
  BY <1>1, <1>2, <1>4, <1>5, <1>6, <1>7, <1>8, <1>9, <1>10 DEF Next, vars

\* The background workers are joined before the task workers, and each job that
\* runs is in the hands of one of them.
BgJoined ==
    /\ kind = "pool" /\ at[Owner] \in {"wait", "join", "done"} => \A b \in Bg : BgEnded(b)
    /\ \A j \in Job : job[j] = "running" => \E b \in Bg : bg[b] = j

LEMMA BgEndedStays ==
    ASSUME Typed, [Next]_vars, at[Owner] # "background", NEW b \in Bg, BgEnded(b)
    PROVE  BgEnded(b)'
<1> USE NoJobIsAPlace DEF Typed, TypeOK, ControlOK, G!TypeOK, BgEnded, bVars, BgGoto, G!Go
<1>0. b # Owner /\ b \in {Owner} \cup Bg
  BY PoolAssumption
<1>1. ASSUME NEW s \in Spawner, SpawnStep(s) \/ TakeHandles(s) \/ Joined(s) PROVE BgEnded(b)'
  BY <1>1 DEF SpawnStep, Start, StartFails, Refused, Reserve, Register, TakeHandles, Joined
<1>2. ASSUME NEW w \in Worker, WorkerStep(w) PROVE BgEnded(b)'
  BY <1>2 DEF WorkerStep, Probe, Turn, TurnPanics, SendStopped, DropGuard
<1>3. ASSUME NEW c \in Bg, BgStep(c) PROVE BgEnded(b)'
  <2>1. c # b
    BY <1>3 DEF BgStep, BgProbe, BgPop, BgRun, BgDropGuard
  <2> QED BY <1>3, <2>1 DEF BgStep, BgProbe, BgPop, BgRun, BgDropGuard, G!Done
<1>4. ASSUME NEW j \in Job, Submit(j) PROVE BgEnded(b)'
  BY <1>4 DEF Submit
<1>5. CASE Kill \/ MonitorStep
  BY <1>5 DEF Kill, MonitorStep, Listen, Timeout, Receive
<1>6. CASE OwnerStep
  BY <1>0, <1>6 DEF OwnerStep, SpawnBgFails, SpawnBg, BlockOn, Shutdown, CloseJobs, JoinBg, G!Enter
<1>7. ASSUME NEW t \in {Owner} \cup Bg, G!Step(t) \/ G!SpuriousWake(t), UNCHANGED poolVars PROVE BgEnded(b)'
  BY <1>7 DEF poolVars, G!Step, G!SpuriousWake, G!Release, G!Notify, G!Load, G!Lock, G!Check
<1>8. CASE UNCHANGED <<poolVars, bVars>>
  BY <1>8 DEF poolVars
<1> QED BY <1>1, <1>2, <1>3, <1>4, <1>5, <1>6, <1>7, <1>8 DEF Next, vars

LEMMA BgJoinedStep == Typed /\ Joinable /\ BgJoined /\ [Next]_vars => BgJoined'
<1> SUFFICES ASSUME Typed, Joinable, BgJoined, [Next]_vars PROVE BgJoined'
  OBVIOUS
<1>1. ASSUME kind' = "pool", at'[Owner] \in {"wait", "join", "done"}, NEW b \in Bg PROVE BgEnded(b)'
  <2>1. kind = "pool"
    BY <1>1, KindKept
  <2>2. at[Owner] \in {"joinBg", "wait", "join", "done"}
    <3> USE TwoSpawners, <1>1, <2>1 DEF Joinable, Typed, TypeOK, ControlOK, Goto, spawnVars
    <3>1. ASSUME NEW s \in Spawner, SpawnStep(s) \/ TakeHandles(s) \/ Joined(s) PROVE s = Owner
      BY <3>1 DEF Spawner, SpawnStep, Start, StartFails, Refused, Reserve, Register, TakeHandles, Joined
    <3>2. ASSUME NEW s \in Spawner, SpawnStep(s) \/ TakeHandles(s) \/ Joined(s) PROVE at[Owner] \in {"wait", "join"}
      BY <3>1, <3>2 DEF SpawnStep, Start, StartFails, Refused, Reserve, Register, TakeHandles, Joined
    <3>3. CASE UNCHANGED at
      BY <3>3
    <3>4. ASSUME NEW w \in Worker, WorkerStep(w) PROVE at' = at
      BY <3>4 DEF WorkerStep, Probe, Turn, TurnPanics, SendStopped, DropGuard
    <3>5. ASSUME NEW c \in Bg, BgStep(c) PROVE at' = at
      BY <3>5 DEF BgStep, BgProbe, BgPop, BgRun, BgDropGuard
    <3>6. ASSUME NEW j \in Job, Submit(j) PROVE at' = at
      BY <3>6 DEF Submit
    <3>7. CASE Kill
      BY <3>3, <3>7 DEF Kill
    <3>8. CASE MonitorStep
      BY <3>8 DEF MonitorStep, Listen, Timeout, Receive
    <3>9. CASE OwnerStep
      BY <3>9 DEF OwnerStep, SpawnBgFails, SpawnBg, BlockOn, Shutdown, CloseJobs, JoinBg
    <3>10. CASE UNCHANGED poolVars
      BY <3>3, <3>10 DEF poolVars
    <3> QED BY <3>2, <3>3, <3>4, <3>5, <3>6, <3>7, <3>8, <3>9, <3>10 DEF Next, vars
  <2>3. BgEnded(b)
    <3>1. at[Owner] = "joinBg" => JoinBg
      <4> SUFFICES ASSUME at[Owner] = "joinBg" PROVE JoinBg
        OBVIOUS
      <4> USE TwoSpawners, <1>1, <2>1 DEF Joinable, Typed, TypeOK, ControlOK, Goto, spawnVars
      <4>1. ASSUME NEW s \in Spawner, SpawnStep(s) \/ TakeHandles(s) \/ Joined(s) PROVE FALSE
        BY <4>1 DEF Spawner, SpawnStep, Start, StartFails, Refused, Reserve, Register, TakeHandles, Joined
      <4>2. at' # at
        BY <1>1
      <4>3. ASSUME NEW w \in Worker, WorkerStep(w) PROVE FALSE
        BY <4>2, <4>3 DEF WorkerStep, Probe, Turn, TurnPanics, SendStopped, DropGuard
      <4>4. ASSUME NEW c \in Bg, BgStep(c) PROVE FALSE
        BY <4>2, <4>4 DEF BgStep, BgProbe, BgPop, BgRun, BgDropGuard
      <4>5. ASSUME NEW j \in Job, Submit(j) PROVE FALSE
        BY <4>2, <4>5 DEF Submit
      <4>6. ~ Kill /\ ~ UNCHANGED poolVars
        BY <4>2 DEF Kill, poolVars
      <4>7. ~ MonitorStep
        BY DEF MonitorStep, Listen, Timeout, Receive
      <4>8. CASE OwnerStep
        BY <4>8 DEF OwnerStep, SpawnBgFails, SpawnBg, BlockOn, Shutdown, CloseJobs
      <4> QED BY <4>1, <4>3, <4>4, <4>5, <4>6, <4>7, <4>8 DEF Next, vars
    <3>2. at[Owner] = "joinBg" => BgEnded(b)
      BY <3>1 DEF JoinBg
    <3> QED BY <2>1, <2>2, <3>2 DEF BgJoined
  <2> QED BY <2>2, <2>3, BgEndedStays
<1>2. ASSUME NEW j \in Job, job'[j] = "running" PROVE \E b \in Bg : bg'[b] = j
  <2> USE NoJobIsAPlace, <1>2 DEF BgJoined, Typed, TypeOK, ControlOK, QueuesOK, BgGoto, jobVars
  <2>1. ASSUME NEW s \in Spawner, SpawnStep(s) \/ TakeHandles(s) \/ Joined(s) PROVE UNCHANGED <<job, bg>>
    BY <2>1 DEF SpawnStep, Start, StartFails, Refused, Reserve, Register, TakeHandles, Joined
  <2>2. ASSUME NEW w \in Worker, WorkerStep(w) PROVE UNCHANGED <<job, bg>>
    BY <2>2 DEF WorkerStep, Probe, Turn, TurnPanics, SendStopped, DropGuard
  <2>3. ASSUME NEW c \in Bg, BgProbe(c) \/ BgDropGuard(c) PROVE \E b \in Bg : bg'[b] = j
    BY <2>3 DEF BgProbe, BgDropGuard
  <2>4. ASSUME NEW c \in Bg, BgPop(c) PROVE \E b \in Bg : bg'[b] = j
    <3>1. CASE queue = <<>>
      BY <2>4, <3>1 DEF BgPop
    <3>2. CASE queue # <<>> /\ Head(queue) = j
      <4>1. bg'[c] = j
        BY <2>4, <3>2 DEF BgPop
      <4> QED BY <4>1
    <3>3. CASE queue # <<>> /\ Head(queue) # j
      <4>1. job[j] = "running"
        BY <2>4, <3>3 DEF BgPop
      <4>2. PICK b \in Bg : bg[b] = j
        BY <4>1
      <4>3. b # c /\ bg'[b] = bg[b]
        BY <2>4, <3>3, <4>2 DEF BgPop
      <4> QED BY <4>2, <4>3
    <3> QED BY <3>1, <3>2, <3>3
  <2>5. ASSUME NEW c \in Bg, BgRun(c) PROVE \E b \in Bg : bg'[b] = j
    BY <2>5 DEF BgRun
  <2>6. ASSUME NEW i \in Job, Submit(i) PROVE \E b \in Bg : bg'[b] = j
    BY <2>6 DEF Submit
  <2>7. CASE Kill \/ MonitorStep
    BY <2>7 DEF Kill, MonitorStep, Listen, Timeout, Receive
  <2>8. ASSUME NEW c \in Bg, SpawnBg(c) PROVE \E b \in Bg : bg'[b] = j
    BY <2>8 DEF SpawnBg
  <2>9. CASE SpawnBgFails \/ BlockOn \/ Shutdown \/ CloseJobs \/ JoinBg
    BY <2>9 DEF SpawnBgFails, BlockOn, Shutdown, CloseJobs, JoinBg
  <2>10. CASE UNCHANGED poolVars
    BY <2>10 DEF poolVars
  <2> QED
    BY <2>1, <2>2, <2>3, <2>4, <2>5, <2>6, <2>7, <2>8, <2>9, <2>10 DEF Next, vars, BgStep, OwnerStep
<1> QED BY <1>1, <1>2 DEF BgJoined

\* initialize_pool's guard: when its shutdown has returned, every worker that
\* was ever started has ended, and no job is running.
THEOREM PoolEnds == Spec => []PoolEnded
<1>1. Init => Joinable /\ BgJoined
  BY TwoSpawners DEF Init, Joinable, BgJoined, Spawner
<1>2. Joinable /\ BgJoined => PoolEnded
  <2> SUFFICES ASSUME Joinable, BgJoined, kind = "pool", at[Owner] = "done" PROVE PoolEnded
    BY DEF PoolEnded
  <2>1. (\A w \in Worker : WorkerEnded(w)) /\ (\A b \in Bg : BgEnded(b))
    BY DEF Joinable, BgJoined
  <2>2. ASSUME NEW j \in Job PROVE job[j] # "running"
    BY <2>1, NoJobIsAPlace DEF BgJoined, BgEnded
  <2> QED BY <2>1, <2>2 DEF PoolEnded
<1> QED BY <1>1, <1>2, JoinableStep, BgJoinedStep, TypedAlways, PTL DEF Spec

=============================================================================
