----------------------------- MODULE WaitGroup -----------------------------
(***************************************************************************)
(* synca::WaitGroup over synca::LockSignal: a counter, and a condition     *)
(* variable with one three-valued flag that stands for all its waiters.    *)
(* A step is what one thread does between two points where another one can *)
(* run: an atomic operation on the counter, or the code between taking and *)
(* giving back the mutex of the flag.  "place" says where a thread is      *)
(* inside these operations; "out" is outside of all of them.               *)
(***************************************************************************)
EXTENDS Integers

CONSTANT Thread

VARIABLES count,   \* WaitGroup.count
          lock,    \* LockSignal.lock
          place    \* where each thread is inside wait() or done()

Place == {"out", "load", "lock", "check", "asleep", "release", "notify"}

Go(t, p) == place' = [place EXCEPT ![t] = p]

Init == /\ count = 0
        /\ lock = "Free"
        /\ place = [t \in Thread |-> "out"]

Add == count' = count + 1 /\ UNCHANGED <<lock, place>>

(* done(), also the drop of a WaitGroupGuard: whoever brings the count to  *)
(* zero goes on to signal_all, in two steps.                               *)
Done(t) == /\ place[t] = "out"
           /\ count' = count - 1
           /\ Go(t, IF count = 1 THEN "release" ELSE "out")
           /\ UNCHANGED lock

Release(t) == /\ place[t] = "release"
              /\ lock' = "Released"
              /\ Go(t, "notify")
              /\ UNCHANGED count

\* Wakes one of the sleepers, as signal_one does.
NotifyOne(t) == /\ place[t] = "notify"
                /\ LET sleepers == {u \in Thread : place[u] = "asleep"}
                   IN  IF sleepers = {} THEN Go(t, "out")
                       ELSE \E u \in sleepers : place' = [place EXCEPT ![t] = "out", ![u] = "check"]
                /\ UNCHANGED <<count, lock>>

Notify(t) == /\ place[t] = "notify"
             /\ place' = [u \in Thread |-> IF u = t THEN "out"
                                           ELSE IF place[u] = "asleep" THEN "check"
                                           ELSE place[u]]
             /\ UNCHANGED <<count, lock>>

(* wait(): read the count, set the flag, sleep on the flag, and again. *)
Enter(t) == /\ place[t] = "out"
            /\ Go(t, "load")
            /\ UNCHANGED <<count, lock>>

\* The last worker is not waited for.
LoadOffByOne(t) == /\ place[t] = "load"
                   /\ Go(t, IF count <= 1 THEN "out" ELSE "lock")
                   /\ UNCHANGED <<count, lock>>

Load(t) == /\ place[t] = "load"
           /\ Go(t, IF count = 0 THEN "out" ELSE "lock")
           /\ UNCHANGED <<count, lock>>

Lock(t) == /\ place[t] = "lock"
           /\ lock' = "Locked"
           /\ Go(t, "check")
           /\ UNCHANGED count

Check(t) == /\ place[t] = "check"
            /\ lock' = IF lock = "Released" THEN "Free" ELSE lock
            /\ Go(t, IF lock = "Locked" THEN "asleep" ELSE "load")
            /\ UNCHANGED count

(* A condition variable may wake a thread that nobody notified. *)
SpuriousWake(t) == /\ place[t] = "asleep"
                   /\ Go(t, "check")
                   /\ UNCHANGED <<count, lock>>

Step(t) == Release(t) \/ Notify(t) \/ Load(t) \/ Lock(t) \/ Check(t)

----------------------------------------------------------------------------

TypeOK == /\ count \in Int
          /\ lock \in {"Free", "Locked", "Released"}
          /\ place \in [Thread -> Place]

(* LockSignal: no waiter sleeps on a flag that says Released, except in the
   moment between the flag and the notification. *)
ReleasedWakes == (\E t \in Thread : place[t] = "asleep") /\ lock = "Released"
                   => \E t \in Thread : place[t] = "notify"

=============================================================================
