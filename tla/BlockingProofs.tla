-------------------------- MODULE BlockingProofs --------------------------
(***************************************************************************)
(* Proofs about the three primitives that make threads wait for each       *)
(* other, for every number of threads.                                     *)
(*                                                                         *)
(* SpinBarrier: while nobody leads, the count is the number of threads     *)
(* that wait for the current generation to end; whoever leads has found    *)
(* all the others waiting for it.                                          *)
(*                                                                         *)
(* SpinCondVar: a waiter decides under the mutex that there is nothing,    *)
(* and reads the generation before it lets the mutex go: whoever adds an   *)
(* item after that finds it counted and moves the generation on.           *)
(*                                                                         *)
(* OnceLock: what call_once guarantees by itself, and what is left of it   *)
(* with call_once_force as long as no initialiser fails.                   *)
(***************************************************************************)
EXTENDS SpinBarrier, SpinCondVar, OnceLock, ThreadsProofs

\* A thread is level with the generation, or it is about to leave the last one.
Level == \A t \in Thread :
  \/ /\ barPassed[t] = barGen
     /\ barPlace[t] # "out" => barSeen[t] = barGen
  \/ /\ barPassed[t] = barGen - 1
     /\ barSeen[t] = barGen - 1
     /\ barPlace[t] = "spin"

\* Whether a thread waits for the current generation to end.
Inside == [t \in Thread |->
             IF barPlace[t] \in {"spin", "reset"} /\ barSeen[t] = barGen THEN "in" ELSE "out"]

Counted == barCount = Cardinality(In(Inside, {"in"})) \/ \E t \in Thread : barPlace[t] = "bump"

Leading == \A t \in Thread :
  /\ barPlace[t] \in {"reset", "bump"} =>
       \A u \in Thread : u # t => barPlace[u] = "spin" /\ barSeen[u] = barGen
  /\ barPlace[t] = "bump" => barCount = 0

BarInd == BarrierTypeOK /\ Level /\ Counted /\ Leading

LEMMA BarIndInit == BarrierInit => BarInd
<1> SUFFICES ASSUME BarrierInit PROVE BarInd
  OBVIOUS
<1>1. Cardinality(Thread) \in Nat
  BY InFinite
<1>2. BarrierTypeOK /\ Level /\ Leading
  BY <1>1 DEF BarrierInit, BarrierTypeOK, BarPlaces, Level, Leading, num_threads
<1>3. \A t \in Thread : Inside[t] \notin {"in"}
  BY DEF BarrierInit, Inside
<1>4. Cardinality(In(Inside, {"in"})) = 0
  BY <1>3, InNone
<1> QED BY <1>2, <1>4 DEF BarInd, Counted, BarrierInit

\* A thread that is about to add to the count is not counted yet, and the one
\* that brings it to the number of threads finds all the others waiting.
LEMMA Adding ==
  ASSUME BarInd, NEW t \in Thread, Add(t)
  PROVE  /\ barCount' = Cardinality(In(Inside', {"in"}))
         /\ barCount + 1 \in 0..num_threads
         /\ barCount + 1 = num_threads => \A u \in Thread : u # t =>
                 barPlace[u] = "spin" /\ barSeen[u] = barGen
<1> USE DEF BarInd, BarrierTypeOK, BarGo, Add
<1> DEFINE S == {"in"}
<1>1. Inside[t] \notin S /\ Inside'[t] \in S /\ \A u \in Thread : u # t => Inside'[u] = Inside[u]
  BY DEF Inside, Level
<1>2. ~ \E u \in Thread : barPlace[u] \in {"reset", "bump"}
  BY DEF Leading
<1> HIDE DEF S
<1>3. Cardinality(In(Inside', S)) = Cardinality(In(Inside, S)) + 1
  BY <1>1, InEnter
<1>4. barCount = Cardinality(In(Inside, S))
  BY <1>2 DEF Counted, S
<1>5. Cardinality(In(Inside', S)) <= Cardinality(Thread) /\ Cardinality(In(Inside', S)) \in Nat
      /\ Cardinality(Thread) \in Nat
  BY InFinite
<1>6. ASSUME barCount + 1 = num_threads, NEW u \in Thread, u # t
      PROVE  barPlace[u] = "spin" /\ barSeen[u] = barGen
  <2>1. Inside'[u] \in S
    BY <1>3, <1>4, <1>6, InAll DEF num_threads
  <2>2. Inside[u] = "in"
    BY <2>1, <1>1, <1>6 DEF S
  <2> QED BY <2>2, <1>2 DEF Inside
<1> QED BY <1>3, <1>4, <1>5, <1>6 DEF num_threads, S

LEMMA BarIndStep == BarInd /\ [BarrierNext]_barVars => BarInd'
<1> SUFFICES ASSUME BarInd, [BarrierNext]_barVars PROVE BarInd'
  OBVIOUS
<1> USE DEF BarInd
<1>0. Cardinality(Thread) \in Nat
  BY InFinite
<1>1. ASSUME NEW t \in Thread, LoadGen(t) PROVE BarInd'
  <2>1. BarrierTypeOK' /\ Level' /\ Leading'
    BY <1>1 DEF LoadGen, BarGo, BarrierTypeOK, BarPlaces, Level, Leading
  <2>2. Inside' = Inside
    BY <1>1 DEF LoadGen, BarGo, BarrierTypeOK, Inside
  <2>3. Counted'
    BY <1>1, <2>2 DEF Counted, LoadGen, BarGo, BarrierTypeOK, In
  <2> QED BY <2>1, <2>3
<1>2. ASSUME NEW t \in Thread, Add(t) PROVE BarInd'
  <2>1. BarrierTypeOK'
    BY <1>0, <1>2, Adding DEF Add, BarGo, BarrierTypeOK, BarPlaces, num_threads
  <2>2. Level'
    BY <1>2 DEF Add, BarGo, BarrierTypeOK, Level
  <2>3. Leading'
    <3>1. \A u \in Thread : barPlace[u] \notin {"reset", "bump"}
      BY <1>2 DEF Add, Leading
    <3>2. barCount \in Nat /\ barCount + 1 \in 0..num_threads
      BY <1>0, <1>2, Adding DEF BarrierTypeOK, num_threads
    <3>3. barPlace'[t] = "reset" =>
            \A u \in Thread : u # t => barPlace[u] = "spin" /\ barSeen[u] = barGen
      <4>1. barPlace'[t] = "reset" => ~(barCount + 1 < num_threads)
        BY <1>2 DEF Add, BarGo, BarrierTypeOK
      <4>2. barPlace'[t] = "reset" => barCount + 1 = num_threads
        BY <1>0, <3>2, <4>1 DEF num_threads
      <4> QED BY <1>2, <4>2, Adding
    <3>4. /\ \A u \in Thread : u # t => barPlace'[u] = barPlace[u]
          /\ barPlace'[t] \in {"spin", "reset"}
          /\ barSeen' = barSeen /\ barGen' = barGen
      BY <1>2 DEF Add, BarGo, BarrierTypeOK
    <3> QED BY <3>1, <3>3, <3>4 DEF Leading
  <2>4. Counted'
    BY <1>2, Adding DEF Counted, In
  <2> QED BY <2>1, <2>2, <2>3, <2>4
<1>3. ASSUME NEW t \in Thread, SeeNewGen(t) PROVE BarInd'
  <2>1. BarrierTypeOK' /\ Level' /\ Leading'
    BY <1>3 DEF SeeNewGen, Leave, BarGo, BarrierTypeOK, BarPlaces, Level, Leading
  <2>2. Inside' = Inside
    BY <1>3 DEF SeeNewGen, Leave, BarGo, BarrierTypeOK, Inside
  <2>3. Counted'
    BY <1>3, <2>2 DEF Counted, SeeNewGen, Leave, BarGo, BarrierTypeOK, In
  <2> QED BY <2>1, <2>3
<1>4. ASSUME NEW t \in Thread, Reset(t) PROVE BarInd'
  <2>1. BarrierTypeOK' /\ Level' /\ Leading'
    BY <1>0, <1>4 DEF Reset, BarGo, BarrierTypeOK, BarPlaces, Level, Leading, num_threads
  <2>2. Counted'
    BY <1>4 DEF Counted, Reset, BarGo, BarrierTypeOK
  <2> QED BY <2>1, <2>2
<1>5. ASSUME NEW t \in Thread, Bump(t) PROVE BarInd'
  <2>1. /\ barPlace[t] = "bump" /\ barCount = 0
        /\ \A u \in Thread : u # t => barPlace[u] = "spin" /\ barSeen[u] = barGen
    BY <1>5 DEF Bump, Leading
  <2>2. BarrierTypeOK' /\ Level' /\ Leading'
    BY <1>5, <2>1 DEF Bump, Leave, BarGo, BarrierTypeOK, BarPlaces, Level, Leading
  <2>3. \A u \in Thread : Inside'[u] \notin {"in"}
    BY <1>5, <2>1 DEF Bump, Leave, BarGo, BarrierTypeOK, Inside
  <2>4. Cardinality(In(Inside', {"in"})) = 0
    BY <2>3, InNone
  <2>5. Counted'
    BY <1>5, <2>1, <2>4 DEF Counted, Bump, In
  <2> QED BY <2>2, <2>5
<1>6. CASE UNCHANGED barVars
  BY <1>6 DEF barVars, BarrierTypeOK, Level, Counted, Leading, Inside, In
<1> QED BY <1>1, <1>2, <1>3, <1>4, <1>5, <1>6 DEF BarrierNext, BarrierStep, Leader

LEMMA BarIndAlways == BarrierSpec => []BarInd
BY BarIndInit, BarIndStep, PTL DEF BarrierSpec

\* wait(): the count never passes the number of threads.
THEOREM BarrierTypeCorrect == BarrierSpec => []BarrierTypeOK
<1>1. BarInd => BarrierTypeOK
  BY DEF BarInd
<1> QED BY <1>1, BarIndAlways, PTL

\* wait(): the threads stay together, whatever their number.
THEOREM BarrierKeepsTogether == BarrierSpec => []BarrierTogether
<1>1. BarInd => BarrierTogether
  BY DEF BarInd, Level, BarrierTogether, BarrierTypeOK
<1> QED BY <1>1, BarIndAlways, PTL

-----------------------------------------------------------------------------
\* The places at which a thread has the mutex, and those inside wait.
Holding == {"produce", "test", "register", "readGen", "unlock"}
InWait == {"readGen", "unlock", "spin", "deregister", "giveUp"}

CvAct(t) == \/ LockToConsume(t) \/ Consume(t) \/ Wait(t) \/ Waiting(t) \/ Relock(t)
            \/ LockToProduce(t) \/ Produce(t) \/ Notifying(t)
            \/ TimesOut(t) \/ GiveUp(t) \/ LastLook(t)

\* On its way into wait a thread holds the mutex, and there is no item.
NothingThere == \A t \in Thread :
  cvPlace[t] \in {"register", "readGen", "unlock"} => cvItems = 0

\* Nobody has read a generation that is yet to come.
SeenPast == \A t \in Thread : cvSeen[t] <= cvGen

CvInd == CvTypeOK /\ WaitersCounted /\ NothingThere /\ SeenPast /\ NoLostWakeup

LEMMA CvIndInit == CvInit => CvInd
<1> SUFFICES ASSUME CvInit PROVE CvInd
  OBVIOUS
<1>1. CvTypeOK /\ NothingThere /\ SeenPast /\ NoLostWakeup
  BY DEF CvInit, CvTypeOK, CvPlaces, NothingThere, SeenPast, NoLostWakeup
<1>2. Cardinality(In(cvPlace, Holding)) = 0 /\ Cardinality(In(cvPlace, InWait)) = 0
  BY InNone DEF CvInit, Holding, InWait
<1>3. WaitersCounted
  BY <1>2 DEF WaitersCounted, Holders, Registered, Holding, InWait, CvInit
<1> QED BY <1>1, <1>3 DEF CvInd

\* Every act moves one thread.
LEMMA CvOthers ==
  ASSUME CvTypeOK, NEW t \in Thread, CvAct(t)
  PROVE  \A u \in Thread : u # t => cvPlace'[u] = cvPlace[u] /\ cvSeen'[u] = cvSeen[u]
<1> USE DEF CvTypeOK, CvGo
<1>1. CASE LockToConsume(t) \/ Relock(t) \/ LockToProduce(t)
  BY <1>1 DEF LockToConsume, Relock, LockToProduce, CvLock
<1>2. CASE Consume(t) \/ Wait(t) \/ Produce(t) \/ Notifying(t)
  <2>1. \E p \in CvPlaces : cvPlace' = [cvPlace EXCEPT ![t] = p] /\ cvSeen' = cvSeen
    BY <1>2 DEF Consume, Wait, Produce, Notifying, NotifyLoad, NextGen, CvPlaces
  <2> QED BY <2>1
<1>3. CASE Waiting(t)
  BY <1>3 DEF Waiting, Register, ReadGen, Unlock, Woken, Deregister, CvLeave
<1>4. CASE TimesOut(t) \/ GiveUp(t) \/ LastLook(t)
  BY <1>4 DEF TimesOut, GiveUp, CvLeave, LastLook
<1> QED BY <1>1, <1>2, <1>3, <1>4 DEF CvAct

\* LOCKED follows the one thread that takes or releases the mutex.
LEMMA CvHeldStep ==
  ASSUME CvInd, NEW t \in Thread, CvAct(t)
  PROVE  cvHeld' = Cardinality(Holders')
<1> USE DEF CvInd, CvTypeOK, CvGo
<1> DEFINE H == Holding
<1>1. \A u \in Thread : u # t => cvPlace'[u] = cvPlace[u]
  BY CvOthers
<1>2. cvHeld = Cardinality(In(cvPlace, H))
  BY DEF WaitersCounted, Holders, Holding
<1>3. CASE LockToConsume(t) \/ Relock(t) \/ LockToProduce(t)
  <2>1. cvPlace[t] \notin H /\ cvPlace'[t] \in H /\ cvHeld = 0 /\ cvHeld' = 1
    BY <1>3 DEF LockToConsume, Relock, LockToProduce, CvLock, Holding
  <2> HIDE DEF H
  <2>2. Cardinality(In(cvPlace', H)) = Cardinality(In(cvPlace, H)) + 1
    BY <1>1, <2>1, InEnter
  <2>3. Holders' = In(cvPlace', H)
    BY DEF Holders, H, Holding, In
  <2> QED BY <1>2, <2>1, <2>2, <2>3
<1>4. CASE Consume(t) \/ Produce(t) \/ Unlock(t)
  <2>1. cvPlace[t] \in H /\ cvPlace'[t] \notin H /\ cvHeld' = 0
    BY <1>4 DEF Consume, Produce, Unlock, Holding
  <2> HIDE DEF H
  <2>2. Cardinality(In(cvPlace', H)) = Cardinality(In(cvPlace, H)) - 1 /\ Cardinality(In(cvPlace, H)) > 0
    BY <1>1, <2>1, InLeave
  <2>3. cvHeld = 1
    BY <1>2, <2>2
  <2> QED BY <1>2, <2>1, <2>2, <2>3 DEF Holders, H, Holding, In
<1>5. CASE Wait(t) \/ Notifying(t) \/ Register(t) \/ ReadGen(t) \/ Woken(t) \/ Deregister(t)
           \/ TimesOut(t) \/ GiveUp(t) \/ LastLook(t)
  <2>1. (cvPlace[t] \in H <=> cvPlace'[t] \in H) /\ cvHeld' = cvHeld
    BY <1>5 DEF Wait, Notifying, NotifyLoad, NextGen, Register, ReadGen, Woken, Deregister, CvLeave,
                TimesOut, GiveUp, LastLook, Holding
  <2> HIDE DEF H
  <2>2. In(cvPlace', H) = In(cvPlace, H)
    BY <1>1, <2>1, InStay
  <2> QED BY <1>2, <2>1, <2>2 DEF Holders, H, Holding, In
<1> QED BY <1>3, <1>4, <1>5 DEF CvAct, Waiting

\* The waiter count follows the threads that enter and leave wait.
LEMMA CvWaitersStep ==
  ASSUME CvInd, NEW t \in Thread, CvAct(t)
  PROVE  cvWaiters' = Cardinality(Registered') /\ cvWaiters' \in Nat
<1> USE DEF CvInd, CvTypeOK, CvGo
<1> DEFINE I == InWait
<1>1. \A u \in Thread : u # t => cvPlace'[u] = cvPlace[u]
  BY CvOthers
<1>2. cvWaiters = Cardinality(In(cvPlace, I))
  BY DEF WaitersCounted, Registered, InWait
<1>3. CASE Register(t)
  <2>1. cvPlace[t] \notin I /\ cvPlace'[t] \in I /\ cvWaiters' = cvWaiters + 1
    BY <1>3 DEF Register, InWait
  <2> HIDE DEF I
  <2>2. Cardinality(In(cvPlace', I)) = Cardinality(In(cvPlace, I)) + 1
    BY <1>1, <2>1, InEnter
  <2> QED BY <1>2, <2>1, <2>2 DEF Registered, I, InWait, In
<1>4. CASE Deregister(t) \/ GiveUp(t)
  <2>1. cvPlace[t] \in I /\ cvPlace'[t] \notin I /\ cvWaiters' = cvWaiters - 1
    BY <1>4 DEF Deregister, GiveUp, CvLeave, InWait
  <2> HIDE DEF I
  <2>2. Cardinality(In(cvPlace', I)) = Cardinality(In(cvPlace, I)) - 1 /\ Cardinality(In(cvPlace, I)) > 0
    BY <1>1, <2>1, InLeave
  <2> QED BY <1>2, <2>1, <2>2 DEF Registered, I, InWait, In
<1>5. CASE LockToConsume(t) \/ Relock(t) \/ LockToProduce(t) \/ Consume(t) \/ Wait(t) \/ Produce(t)
           \/ Notifying(t) \/ ReadGen(t) \/ Unlock(t) \/ Woken(t) \/ TimesOut(t) \/ LastLook(t)
  <2>1. (cvPlace[t] \in I <=> cvPlace'[t] \in I) /\ cvWaiters' = cvWaiters
    BY <1>5 DEF LockToConsume, Relock, LockToProduce, CvLock, Consume, Wait, Produce, Notifying, NotifyLoad,
                NextGen, ReadGen, Unlock, Woken, TimesOut, LastLook, InWait
  <2> HIDE DEF I
  <2>2. In(cvPlace', I) = In(cvPlace, I)
    BY <1>1, <2>1, InStay
  <2> QED BY <1>2, <2>1, <2>2 DEF Registered, I, InWait, In
<1> QED BY <1>3, <1>4, <1>5 DEF CvAct, Waiting

LEMMA CvTypeStep ==
  ASSUME CvInd, NEW t \in Thread, CvAct(t)
  PROVE  CvTypeOK'
<1>0. cvWaiters' \in Nat
  BY CvWaitersStep
<1> USE <1>0 DEF CvInd, CvTypeOK, CvGo, CvPlaces
<1>1. CASE LockToConsume(t) \/ Relock(t) \/ LockToProduce(t)
  BY <1>1 DEF LockToConsume, Relock, LockToProduce, CvLock
<1>2. CASE Consume(t) \/ Wait(t) \/ Produce(t) \/ Notifying(t)
  BY <1>2 DEF Consume, Wait, Produce, Notifying, NotifyLoad, NextGen
<1>3. CASE Waiting(t)
  BY <1>3 DEF Waiting, Register, ReadGen, Unlock, Woken, Deregister, CvLeave
<1>4. CASE TimesOut(t) \/ GiveUp(t) \/ LastLook(t)
  BY <1>4 DEF TimesOut, GiveUp, CvLeave, LastLook
<1> QED BY <1>1, <1>2, <1>3, <1>4 DEF CvAct

\* Items come under the mutex, and only one thread has it.
LEMMA CvNothingStep ==
  ASSUME CvInd, NEW t \in Thread, CvAct(t)
  PROVE  NothingThere' /\ SeenPast'
<1> USE DEF CvInd, CvTypeOK, CvGo, NothingThere, SeenPast
<1>1. CASE LockToConsume(t) \/ Relock(t) \/ LockToProduce(t)
  BY <1>1 DEF LockToConsume, Relock, LockToProduce, CvLock
<1>2. CASE Produce(t)
  <2>1. \A u \in Thread : cvPlace[u] \in Holding => u = t
    <3>1. Cardinality(In(cvPlace, Holding)) <= 1
      BY DEF WaitersCounted, Holders, Holding
    <3>2. t \in In(cvPlace, Holding)
      BY <1>2 DEF Produce, Holding, In
    <3>3. ASSUME NEW u \in Thread, cvPlace[u] \in Holding PROVE u = t
      <4>1. u \in In(cvPlace, Holding)
        BY <3>3 DEF In
      <4> QED BY <3>1, <3>2, <4>1, InOne
    <3> QED BY <3>3
  <2> QED BY <1>2, <2>1 DEF Produce, Holding
<1>3. CASE Consume(t) \/ LastLook(t)
  BY <1>3 DEF Consume, LastLook
<1>4. CASE Wait(t) \/ Notifying(t)
  BY <1>4 DEF Wait, Notifying, NotifyLoad, NextGen
<1>5. CASE Waiting(t)
  BY <1>5 DEF Waiting, Register, ReadGen, Unlock, Woken, Deregister, CvLeave
<1>6. CASE TimesOut(t) \/ GiveUp(t)
  BY <1>6 DEF TimesOut, GiveUp, CvLeave
<1> QED BY <1>1, <1>2, <1>3, <1>4, <1>5, <1>6 DEF CvAct

\* A notifier that finds no waiter leaves nobody spinning.
LEMMA CvWakeStep ==
  ASSUME CvInd, NEW t \in Thread, CvAct(t)
  PROVE  NoLostWakeup'
<1> USE DEF CvInd, CvTypeOK, CvGo, NoLostWakeup
<1>1. CASE LockToConsume(t) \/ Relock(t) \/ LockToProduce(t)
  BY <1>1 DEF LockToConsume, Relock, LockToProduce, CvLock
<1>2. CASE Produce(t)
  BY <1>2 DEF Produce
<1>3. CASE Consume(t) \/ LastLook(t)
  BY <1>3 DEF Consume, LastLook
<1>4. CASE Wait(t)
  BY <1>4 DEF Wait
<1>5. CASE NotifyLoad(t)
  <2>1. cvWaiters = 0 => \A u \in Thread : cvPlace[u] # "spin"
    <3>1. cvWaiters = Cardinality(In(cvPlace, InWait))
      BY DEF WaitersCounted, Registered, InWait
    <3>2. cvWaiters = 0 => \A u \in Thread : cvPlace[u] \notin InWait
      BY <3>1, InNone
    <3> QED BY <3>2 DEF InWait
  <2>2. CASE cvWaiters > 0
    <3>1. cvPlace'[t] = "bump"
      BY <1>5, <2>2 DEF NotifyLoad
    <3> QED BY <3>1
  <2>3. CASE cvWaiters = 0
    <3>1. \A u \in Thread : cvPlace'[u] # "spin"
      BY <1>5, <2>1, <2>3 DEF NotifyLoad
    <3> QED BY <3>1
  <2> QED BY <2>2, <2>3
<1>6. CASE NextGen(t)
  BY <1>6 DEF NextGen, SeenPast
<1>7. CASE Unlock(t)
  BY <1>7 DEF Unlock, NothingThere
<1>8. CASE Register(t) \/ ReadGen(t) \/ Woken(t) \/ Deregister(t)
  BY <1>8 DEF Register, ReadGen, Woken, Deregister, CvLeave
<1>9. CASE TimesOut(t) \/ GiveUp(t)
  BY <1>9 DEF TimesOut, GiveUp, CvLeave
<1> QED BY <1>1, <1>2, <1>3, <1>4, <1>5, <1>6, <1>7, <1>8, <1>9 DEF CvAct, Waiting, Notifying

LEMMA CvIndStep == CvInd /\ [CvNext]_cvVars => CvInd'
<1> SUFFICES ASSUME CvInd, [CvNext]_cvVars PROVE CvInd'
  OBVIOUS
<1>1. ASSUME NEW t \in Thread, CvAct(t) PROVE CvInd'
  BY <1>1, CvTypeStep, CvHeldStep, CvWaitersStep, CvNothingStep, CvWakeStep DEF CvInd, WaitersCounted
<1>2. CASE UNCHANGED cvVars
  BY <1>2 DEF CvInd, cvVars, CvTypeOK, WaitersCounted, Holders, Registered, In, NothingThere, SeenPast,
              NoLostWakeup
<1> QED BY <1>1, <1>2 DEF CvNext, CvAct

LEMMA CvIndAlways == CvSpec => []CvInd
BY CvIndInit, CvIndStep, PTL DEF CvSpec

\* CondVar's words: types, and a waiter count that never wraps.
THEOREM CvTypeCorrect == CvSpec => []CvTypeOK
<1>1. CvInd => CvTypeOK
  BY DEF CvInd
<1> QED BY <1>1, CvIndAlways, PTL

\* The mutex excludes and the waiters are counted, whoever times out when.
THEOREM CvCounts == CvSpec => []WaitersCounted
<1>1. CvInd => WaitersCounted
  BY DEF CvInd
<1> QED BY <1>1, CvIndAlways, PTL

\* wait and notify: no wake-up is lost, for any number of threads.
THEOREM CvWakes == CvSpec => []NoLostWakeup
<1>1. CvInd => NoLostWakeup
  BY DEF CvInd
<1> QED BY <1>1, CvIndAlways, PTL

-----------------------------------------------------------------------------
\* Without call_once_force: whoever initialises owns RUNNING.
PlainInd == onceUse = "plain" =>
  \A t \in Thread :
    /\ oncePlace[t] \notin {"forceCas", "forceCasPoisoned"}
    /\ oncePlace[t] \in {"init", "store"} =>
         onceState = "Running" /\ \A u \in Thread : oncePlace[u] \in {"init", "store"} => u = t

\* Without a failure nobody has met POISONED.
UnfailedInd == onceFailed = {} =>
  /\ onceState # "Poisoned"
  /\ \A t \in Thread : oncePlace[t] # "forceCasPoisoned" /\ onceSeen[t] # "Poisoned"

\* Who is about to store COMPLETE has written the data, and nothing unwrites it.
Written == onceUse = "plain" \/ onceFailed = {} =>
  /\ onceState = "Complete" => onceData # None
  /\ \A t \in Thread : oncePlace[t] = "store" => onceData # None

OnceInd == OnceTypeOK /\ PlainInd /\ UnfailedInd /\ Written

LEMMA OnceIndInit == OnceInit => OnceInd
BY DEF OnceInit, OnceInd, OnceTypeOK, OnceUses, OnceStates, OncePlaces, PlainInd, UnfailedInd, Written

LEMMA OnceIndStep == OnceInd /\ [OnceNext]_onceVars => OnceInd'
<1> SUFFICES ASSUME OnceInd, [OnceNext]_onceVars PROVE OnceInd'
  OBVIOUS
<1> USE NoneAssumption DEF OnceInd, OnceTypeOK, OnceUses, OnceStates, OncePlaces, PlainInd, UnfailedInd, Written,
        OnceGo, See
<1>1. ASSUME NEW t \in Thread, CallOnce(t) \/ Spin(t) PROVE OnceInd'
  BY <1>1 DEF CallOnce, Spin
<1>2. ASSUME NEW t \in Thread, Cas(t) PROVE OnceInd'
  BY <1>2 DEF Cas
<1>3. ASSUME NEW t \in Thread, CallOnceForce(t) PROVE OnceInd'
  BY <1>3 DEF CallOnceForce
<1>4. ASSUME NEW t \in Thread, ForceCas(t) PROVE OnceInd'
  BY <1>4 DEF ForceCas
<1>5. ASSUME NEW t \in Thread, ForceCasFails(t) PROVE OnceInd'
  BY <1>5 DEF ForceCasFails
<1>6. ASSUME NEW t \in Thread, Write(t) PROVE OnceInd'
  BY <1>6 DEF Write
<1>7. ASSUME NEW t \in Thread, Panic(t) PROVE OnceInd'
  BY <1>7 DEF Panic
<1>8. ASSUME NEW t \in Thread, Store(t) PROVE OnceInd'
  BY <1>8 DEF Store
<1>9. CASE UNCHANGED onceVars
  BY <1>9 DEF onceVars
<1> QED
  BY <1>1, <1>2, <1>3, <1>4, <1>5, <1>6, <1>7, <1>8, <1>9 DEF OnceNext, OnceStep, Initialise

LEMMA OnceIndAlways == OnceSpec => []OnceInd
BY OnceIndInit, OnceIndStep, PTL DEF OnceSpec

\* call_once: one initialiser, and a value once it is complete.
THEOREM PlainCorrect == OnceSpec => []PlainOnce
<1>1. OnceInd => PlainOnce
  BY DEF OnceInd, PlainInd, Written, PlainOnce, CompletedIsInitialised
<1> QED BY <1>1, OnceIndAlways, PTL

\* call_once_force: a completed lock has its value if no initialiser fails.
THEOREM UnfailedCorrect == OnceSpec => []UnfailedIsInitialised
<1>1. OnceInd => UnfailedIsInitialised
  BY DEF OnceInd, Written, UnfailedIsInitialised, CompletedIsInitialised
<1> QED BY <1>1, OnceIndAlways, PTL

\* get_or_init: what has been handed out never changes.
THEOREM PlainStays == OnceSpec => PlainIsFinal
<1> DEFINE A == onceUse = "plain" /\ onceState = "Complete" => UNCHANGED <<onceState, onceData>>
<1>1. ASSUME OnceInd, [OnceNext]_onceVars PROVE [A]_onceVars
  <2>1. ASSUME NEW t \in Thread, OnceStep(t), onceUse = "plain", onceState = "Complete"
        PROVE  UNCHANGED <<onceState, onceData>>
    <3>1. oncePlace[t] \notin {"init", "store", "forceCas", "forceCasPoisoned"}
      BY <1>1, <2>1 DEF OnceInd, PlainInd
    <3> QED BY <2>1, <3>1 DEF OnceStep, CallOnce, Cas, Spin, CallOnceForce, ForceCas, ForceCasFails,
                              Initialise, Write, Panic, Store
  <2> QED BY <1>1, <2>1 DEF OnceNext
<1> QED BY <1>1, OnceIndAlways, PTL DEF OnceSpec, PlainIsFinal
=============================================================================
