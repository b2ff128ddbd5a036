---------------------------- MODULE MCPrimitives ----------------------------
(***************************************************************************)
(* The primitives of foundation_nostd in one run.  They do not call one    *)
(* another, so an execution is an execution of one of them, which "which"  *)
(* names; the others stay in their initial states.                         *)
(***************************************************************************)
EXTENDS SpinRwLock, SpinBarrier, SpinCondVar, OnceLock

VARIABLE which

vars == <<which, rwVars, barVars, cvVars, onceVars>>

MCInit == /\ which \in {"rwlock", "barrier", "condvar", "once"}
          /\ RwInit /\ BarrierInit /\ CvInit /\ OnceInit
          /\ which # "rwlock" => rwKind = "SpinRwLock"
          /\ which # "once" => onceUse = "plain"

RwPart(A) == which = "rwlock" /\ A /\ UNCHANGED <<which, barVars, cvVars, onceVars>>
BarrierPart(A) == which = "barrier" /\ A /\ UNCHANGED <<which, rwVars, cvVars, onceVars>>
CvPart(A) == which = "condvar" /\ A /\ UNCHANGED <<which, rwVars, barVars, onceVars>>
OncePart(A) == which = "once" /\ A /\ UNCHANGED <<which, rwVars, barVars, cvVars>>

MCNext == \/ RwPart(RwNext)
          \/ BarrierPart(BarrierNext)
          \/ CvPart(CvNext)
          \/ OncePart(OnceNext)

MCSpec == MCInit /\ [][MCNext]_vars

(* A thread inside a barrier, a notify, a wait or a call of Once is not
   stopped for ever, and a thread that owes the barrier a call makes it. *)
FairSpec == /\ MCSpec
            /\ \A t \in Thread : /\ WF_vars(BarrierPart(BarrierStep(t)))
                                 /\ WF_vars(CvPart(Notifying(t)))
                                 /\ WF_vars(CvPart(Waiting(t)))
                                 /\ WF_vars(OncePart(OnceStep(t)))

(* The words of the primitives stay within their types: the reader count within
   its bits, the barrier's count below the number of threads, and the waiter
   count never below zero (SpinRwLock, SpinBarrier::wait, CondVar::wait). *)
PrimitivesTypeOK == RwTypeOK /\ BarrierTypeOK /\ CvTypeOK
=============================================================================
