-------------------------- MODULE PrimitivesProofs --------------------------
(***************************************************************************)
(* The primitives of foundation_nostd together (MCPrimitives): whichever   *)
(* of them an execution is about, it is an execution of each by its own    *)
(* specification, the others standing still, so that what is proved of     *)
(* each holds of all of them, for every number of threads.                 *)
(***************************************************************************)
EXTENDS MCPrimitives, SpinRwLockProofs, BlockingProofs

\* A step of one primitive is a step of it and leaves the others where they are.
LEMMA PartStep ==
    [MCNext]_vars => /\ [RwNext]_rwVars
                     /\ [BarrierNext]_barVars
                     /\ [CvNext]_cvVars
                     /\ [OnceNext]_onceVars
BY DEF MCNext, RwPart, BarrierPart, CvPart, OncePart, vars

\* Each primitive runs by its own specification.
LEMMA EachRuns == MCSpec => RwSpec /\ BarrierSpec /\ CvSpec /\ OnceSpec
<1>1. MCInit => RwInit /\ BarrierInit /\ CvInit /\ OnceInit
  BY DEF MCInit
<1> QED BY <1>1, PartStep, PTL DEF MCSpec, RwSpec, BarrierSpec, CvSpec, OnceSpec

\* No word of a primitive leaves its type, for any number of threads: the reader
\* count its bits, the barrier's count the number of threads, the waiter count
\* the naturals (SpinRwLock, SpinBarrier::wait, CondVar::wait).
THEOREM PrimitivesTypeCorrect == MCSpec => []PrimitivesTypeOK
<1>1. RwTypeOK /\ BarrierTypeOK /\ CvTypeOK => PrimitivesTypeOK
  BY DEF PrimitivesTypeOK
<1> QED BY <1>1, EachRuns, RwTypeCorrect, BarrierTypeCorrect, CvTypeCorrect, PTL

\* Every safety property of the primitives, of the specification the run checks:
\* a writer is alone and the flag that shuts readers out has an owner, the
\* barrier's threads stay together, no wake-up of a condition variable is lost,
\* and a Once that completed has its value and keeps it.
THEOREM PrimitivesCorrect ==
    MCSpec => /\ IsReadWriteLock /\ []RwExclusion /\ []RwFlagOwned
              /\ []BarrierTogether
              /\ []WaitersCounted /\ []NoLostWakeup
              /\ []PlainOnce /\ []UnfailedIsInitialised /\ PlainIsFinal
BY EachRuns, RwImplements, RwExclusive, RwNotShutOut, BarrierKeepsTogether, CvCounts,
   CvWakes, PlainCorrect, UnfailedCorrect, PlainStays, PTL
=============================================================================
