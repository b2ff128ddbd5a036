---------------------------- MODULE SpinCondVar ----------------------------
(***************************************************************************)
(* The no_std CondVar with its CondVarMutex.  The mutex protects a number  *)
(* of items; a consumer waits while there are none (wait_while, also the   *)
(* timed ones), a producer adds one and, the mutex released, notifies.     *)
(* Nothing sets NOTIFY_FLAG or the mutex' POISONED bit, so the condition   *)
(* variable's state is its count of waiters; notify_one and notify_all     *)
(* are the same code and wake everyone.                                    *)
(***************************************************************************)
EXTENDS Integers, Threads

CONSTANT MaxItems  \* how many items are produced in all

ASSUME MaxItemsAssumption == MaxItems \in Nat

VARIABLES cvHeld,     \* how many threads hold the mutex: its LOCKED bit
          cvItems,    \* what the mutex protects
          cvMade,     \* how many items were ever produced
          cvWaiters,  \* state & WAITER_MASK
          cvGen,      \* generation
          cvSeen,     \* the generation each waiter has read
          cvPlace     \* where each thread is

cvVars == <<cvHeld, cvItems, cvMade, cvWaiters, cvGen, cvSeen, cvPlace>>

CvPlaces == {"out", "produce", "test", "register", "readGen", "unlock", "spin",
             "deregister", "relock", "giveUp", "last", "notify", "bump"}

CvGo(t, p) == cvPlace' = [cvPlace EXCEPT ![t] = p]

CvInit == /\ cvHeld = 0
          /\ cvItems = 0
          /\ cvMade = 0
          /\ cvWaiters = 0
          /\ cvGen = 0
          /\ cvSeen = [t \in Thread |-> 0]
          /\ cvPlace = [t \in Thread |-> "out"]

(* lock(): a compare_exchange that finds LOCKED clear. *)
CvLock(t, from, to) == /\ cvPlace[t] = from
                       /\ cvHeld = 0
                       /\ cvHeld' = 1
                       /\ CvGo(t, to)
                       /\ UNCHANGED <<cvItems, cvMade, cvWaiters, cvGen, cvSeen>>

LockToConsume(t) == CvLock(t, "out", "test")
LockToProduce(t) == cvMade < MaxItems /\ CvLock(t, "out", "produce")
Relock(t) == CvLock(t, "relock", "test")

Produce(t) == /\ cvPlace[t] = "produce"
              /\ cvItems' = cvItems + 1
              /\ cvMade' = cvMade + 1
              /\ cvHeld' = 0
              /\ CvGo(t, "notify")
              /\ UNCHANGED <<cvWaiters, cvGen, cvSeen>>

\* Does not see the only waiter.
NotifyOffByOne(t) == /\ cvPlace[t] = "notify"
                     /\ CvGo(t, IF cvWaiters > 1 THEN "bump" ELSE "out")
                     /\ UNCHANGED <<cvHeld, cvItems, cvMade, cvWaiters, cvGen, cvSeen>>

(* notify_one, notify_all: load the count of waiters, then count on. *)
NotifyLoad(t) == /\ cvPlace[t] = "notify"
                 /\ CvGo(t, IF cvWaiters > 0 THEN "bump" ELSE "out")
                 /\ UNCHANGED <<cvHeld, cvItems, cvMade, cvWaiters, cvGen, cvSeen>>

NextGen(t) == /\ cvPlace[t] = "bump"
              /\ cvGen' = cvGen + 1
              /\ CvGo(t, "out")
              /\ UNCHANGED <<cvHeld, cvItems, cvMade, cvWaiters, cvSeen>>

(* wait_while: the predicate, under the mutex. *)
Consume(t) == /\ cvPlace[t] = "test"
              /\ cvItems > 0
              /\ cvItems' = cvItems - 1
              /\ cvHeld' = 0
              /\ CvGo(t, "out")
              /\ UNCHANGED <<cvMade, cvWaiters, cvGen, cvSeen>>

Wait(t) == /\ cvPlace[t] = "test"
           /\ cvItems = 0
           /\ CvGo(t, "register")
           /\ UNCHANGED <<cvHeld, cvItems, cvMade, cvWaiters, cvGen, cvSeen>>

(* wait(): count in, read the generation, and only then release the mutex. *)
Register(t) == /\ cvPlace[t] = "register"
               /\ cvWaiters' = cvWaiters + 1
               /\ CvGo(t, "readGen")
               /\ UNCHANGED <<cvHeld, cvItems, cvMade, cvGen, cvSeen>>

ReadGen(t) == /\ cvPlace[t] = "readGen"
              /\ cvSeen' = [cvSeen EXCEPT ![t] = cvGen]
              /\ CvGo(t, "unlock")
              /\ UNCHANGED <<cvHeld, cvItems, cvMade, cvWaiters, cvGen>>

Unlock(t) == /\ cvPlace[t] = "unlock"
             /\ cvHeld' = 0
             /\ CvGo(t, "spin")
             /\ UNCHANGED <<cvItems, cvMade, cvWaiters, cvGen, cvSeen>>

Woken(t) == /\ cvPlace[t] = "spin"
            /\ cvGen # cvSeen[t]
            /\ CvGo(t, "deregister")
            /\ UNCHANGED <<cvHeld, cvItems, cvMade, cvWaiters, cvGen, cvSeen>>

(* wait_timeout: so many spins without a new generation. *)
TimesOut(t) == /\ cvPlace[t] = "spin"
               /\ cvGen = cvSeen[t]
               /\ CvGo(t, "giveUp")
               /\ UNCHANGED <<cvHeld, cvItems, cvMade, cvWaiters, cvGen, cvSeen>>

CvLeave(t, from, to) == /\ cvPlace[t] = from
                        /\ cvWaiters' = cvWaiters - 1
                        /\ CvGo(t, to)
                        /\ UNCHANGED <<cvHeld, cvItems, cvMade, cvGen, cvSeen>>

\* A waiter that gives up forgets to count itself out.
GiveUpCounted(t) == /\ cvPlace[t] = "giveUp"
                    /\ CvGo(t, "last")
                    /\ UNCHANGED <<cvHeld, cvItems, cvMade, cvWaiters, cvGen, cvSeen>>

Deregister(t) == CvLeave(t, "deregister", "relock")
GiveUp(t) == CvLeave(t, "giveUp", "last")

(* After a timeout the guard goes back to the caller, who finds an item or
   nothing and drops it. *)
LastLook(t) == /\ cvPlace[t] = "last"
               /\ cvHeld = 0
               /\ cvItems' \in {cvItems, IF cvItems > 0 THEN cvItems - 1 ELSE 0}
               /\ CvGo(t, "out")
               /\ UNCHANGED <<cvHeld, cvMade, cvWaiters, cvGen, cvSeen>>

Notifying(t) == NotifyLoad(t) \/ NextGen(t)

\* wait() releases the mutex before it reads the generation.
UnlockFirst(t) == /\ cvPlace[t] = "readGen"
                  /\ cvHeld' = 0
                  /\ CvGo(t, "unlock")
                  /\ UNCHANGED <<cvItems, cvMade, cvWaiters, cvGen, cvSeen>>
ReadGenLast(t) == /\ cvPlace[t] = "unlock"
                  /\ cvSeen' = [cvSeen EXCEPT ![t] = cvGen]
                  /\ CvGo(t, "spin")
                  /\ UNCHANGED <<cvHeld, cvItems, cvMade, cvWaiters, cvGen>>
WaitingUnlocksFirst(t) == Register(t) \/ UnlockFirst(t) \/ ReadGenLast(t) \/ Woken(t) \/ Deregister(t)

Waiting(t) == Register(t) \/ ReadGen(t) \/ Unlock(t) \/ Woken(t) \/ Deregister(t)

CvNext == \E t \in Thread :
            \/ LockToConsume(t) \/ Consume(t) \/ Wait(t) \/ Waiting(t) \/ Relock(t)
            \/ LockToProduce(t) \/ Produce(t) \/ Notifying(t)
            \/ TimesOut(t) \/ GiveUp(t) \/ LastLook(t)

CvSpec == CvInit /\ [][CvNext]_cvVars

----------------------------------------------------------------------------

Holders == In(cvPlace, {"produce", "test", "register", "readGen", "unlock"})
Registered == In(cvPlace, {"readGen", "unlock", "spin", "deregister", "giveUp"})

(* Types of the condition variable; the waiter count never wraps below zero. *)
CvTypeOK == /\ cvHeld \in 0..1
            /\ cvItems \in Nat
            /\ cvMade \in Nat
            /\ cvWaiters \in Nat
            /\ cvGen \in Nat
            /\ cvSeen \in [Thread -> Nat]
            /\ cvPlace \in [Thread -> CvPlaces]

(* CondVarMutex and the waiter count: one thread at a time holds the mutex,
   and the count that notify relies on is the number of threads inside wait,
   also when some give up and others are woken at the same time. *)
WaitersCounted == /\ cvHeld = Cardinality(Holders)
                  /\ cvWaiters = Cardinality(Registered)

(* wait and notify: while there is an item, no waiter spins on the current
   generation unless a notifier is still on its way to move it. *)
NoLostWakeup == \A t \in Thread :
  cvPlace[t] = "spin" /\ cvSeen[t] = cvGen /\ cvItems > 0
    => \E u \in Thread : cvPlace[u] \in {"notify", "bump"}

(* wait: a waiter goes on once there is an item that stays. *)
WaiterWakes == \A t \in Thread :
  (cvPlace[t] = "spin" /\ cvItems > 0) ~> (cvPlace[t] # "spin" \/ cvItems = 0)
=============================================================================
