---------------------------- MODULE SpinBarrier ----------------------------
(***************************************************************************)
(* SpinBarrier::wait, called over and over by exactly the num_threads      *)
(* threads the barrier was made for.                                       *)
(***************************************************************************)
EXTENDS Integers, Threads

CONSTANT Rounds  \* how often each thread comes to the barrier

ASSUME RoundsAssumption == Rounds \in Nat

VARIABLES barCount,   \* count: AtomicUsize
          barGen,     \* generation: AtomicUsize
          barSeen,    \* local_gen of each thread
          barPlace,   \* where each thread is inside wait()
          barPassed   \* how many calls of wait() each thread has returned from

barVars == <<barCount, barGen, barSeen, barPlace, barPassed>>

BarPlaces == {"out", "add", "spin", "reset", "bump"}

num_threads == Cardinality(Thread)

BarGo(t, p) == barPlace' = [barPlace EXCEPT ![t] = p]
Leave(t) == BarGo(t, "out") /\ barPassed' = [barPassed EXCEPT ![t] = @ + 1]

BarrierInit == /\ barCount = 0
               /\ barGen = 0
               /\ barSeen = [t \in Thread |-> 0]
               /\ barPlace = [t \in Thread |-> "out"]
               /\ barPassed = [t \in Thread |-> 0]

LoadGen(t) == /\ barPlace[t] = "out"
              /\ barPassed[t] < Rounds
              /\ barSeen' = [barSeen EXCEPT ![t] = barGen]
              /\ BarGo(t, "add")
              /\ UNCHANGED <<barCount, barGen, barPassed>>

\* Takes the last thread but one for the last.
AddOffByOne(t) == /\ barPlace[t] = "add"
                  /\ barCount' = barCount + 1
                  /\ BarGo(t, IF barCount + 2 < num_threads THEN "spin" ELSE "reset")
                  /\ UNCHANGED <<barGen, barSeen, barPassed>>

Add(t) == /\ barPlace[t] = "add"
          /\ barCount' = barCount + 1
          /\ BarGo(t, IF barCount + 1 < num_threads THEN "spin" ELSE "reset")
          /\ UNCHANGED <<barGen, barSeen, barPassed>>

SeeNewGen(t) == /\ barPlace[t] = "spin"
                /\ barGen # barSeen[t]
                /\ Leave(t)
                /\ UNCHANGED <<barCount, barGen, barSeen>>

\* The new generation first, the count after it.
BumpFirst(t) == /\ barPlace[t] = "reset"
                /\ barGen' = barGen + 1
                /\ BarGo(t, "bump")
                /\ UNCHANGED <<barCount, barSeen, barPassed>>

ResetLast(t) == /\ barPlace[t] = "bump"
                /\ barCount' = 0
                /\ Leave(t)
                /\ UNCHANGED <<barGen, barSeen>>

(* The last thread: reset the count, and only then let the others go. *)
Reset(t) == /\ barPlace[t] = "reset"
            /\ barCount' = 0
            /\ BarGo(t, "bump")
            /\ UNCHANGED <<barGen, barSeen, barPassed>>

Bump(t) == /\ barPlace[t] = "bump"
           /\ barGen' = barGen + 1
           /\ Leave(t)
           /\ UNCHANGED <<barCount, barSeen>>

SwappedLeader(t) == BumpFirst(t) \/ ResetLast(t)
Leader(t) == Reset(t) \/ Bump(t)

BarrierStep(t) == LoadGen(t) \/ Add(t) \/ SeeNewGen(t) \/ Leader(t)

BarrierNext == \E t \in Thread : BarrierStep(t)

BarrierSpec == BarrierInit /\ [][BarrierNext]_barVars

----------------------------------------------------------------------------

(* Types of the barrier; the count never passes the number of threads. *)
BarrierTypeOK == /\ barCount \in 0..num_threads
                 /\ barGen \in Nat
                 /\ barSeen \in [Thread -> Nat]
                 /\ barPlace \in [Thread -> BarPlaces]
                 /\ barPassed \in [Thread -> Nat]

(* wait(): nobody is past a round that another thread has not come to, and a
   thread that runs ahead into the next round waits there for the slowest. *)
BarrierTogether == \A t, u \in Thread :
  barPassed[t] > barPassed[u] => /\ barPassed[t] = barPassed[u] + 1
                                 /\ barPlace[u] = "spin"
                                 /\ barSeen[u] # barGen

(* wait(): if every thread comes as often, every call returns, also when the
   fast threads are back before the slow ones have left. *)
BarrierReturns == \A t \in Thread : barPlace[t] = "spin" ~> barPlace[t] = "out"
=============================================================================
