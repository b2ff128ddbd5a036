------------------------------ MODULE Threads ------------------------------
(***************************************************************************)
(* The threads that share one primitive of foundation_nostd.  A step of a  *)
(* thread is one atomic operation (a load, a compare_exchange, a fetch, a  *)
(* store) with the local code up to the next one; where a thread spins it  *)
(* takes no step until what it waits for holds.  The orderings in the code *)
(* are Acquire and Release around each critical section, so interleaved    *)
(* atomic steps stand for the executions the build can have.               *)
(***************************************************************************)
EXTENDS FiniteSets

CONSTANT Thread

ASSUME ThreadAssumption == IsFiniteSet(Thread)

\* The threads whose place is one of the given ones.
In(place, places) == {t \in Thread : place[t] \in places}
=============================================================================
