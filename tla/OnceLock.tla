------------------------------ MODULE OnceLock ------------------------------
(***************************************************************************)
(* OnceLock over Once.  get_or_init goes through Once::call_once, set and  *)
(* get_or_try_init through Once::call_once_force.  A lock on which only    *)
(* get_or_init is called is "plain"; AtomicLazy::force is that too.  A     *)
(* call that finds the value there returns at once and takes no step.      *)
(***************************************************************************)
EXTENDS Threads

CONSTANT None  \* data that nobody has written

ASSUME NoneAssumption == None \notin Thread

VARIABLES onceUse,    \* which operations are called on this lock
          onceState,  \* Once.state
          onceData,   \* who wrote OnceLock.data
          onceFailed, \* who has panicked in an initialiser
          onceSeen,   \* the state each thread has loaded
          oncePlace   \* where each thread is

onceVars == <<onceUse, onceState, onceData, onceFailed, onceSeen, oncePlace>>

OnceUses == {"plain", "forced"}
OnceStates == {"Incomplete", "Running", "Complete", "Poisoned"}
OncePlaces == {"out", "cas", "spin", "forceCas", "forceCasPoisoned", "init", "store"}

OnceGo(t, p) == oncePlace' = [oncePlace EXCEPT ![t] = p]
See(t) == onceSeen' = [onceSeen EXCEPT ![t] = onceState]

OnceInit == /\ onceUse \in OnceUses
            /\ onceState = "Incomplete"
            /\ onceData = None
            /\ onceFailed = {}
            /\ onceSeen = [t \in Thread |-> "Incomplete"]
            /\ oncePlace = [t \in Thread |-> "out"]

(* call_once *)
CallOnce(t) == /\ oncePlace[t] = "out"
               /\ onceState \in {"Incomplete", "Running"}
               /\ OnceGo(t, "cas")
               /\ UNCHANGED <<onceUse, onceState, onceData, onceFailed, onceSeen>>

\* Takes a state that is RUNNING for one it may set to RUNNING.
CasRunning(t) == /\ oncePlace[t] = "cas"
                 /\ IF onceState \in {"Incomplete", "Running"}
                    THEN onceState' = "Running" /\ OnceGo(t, "init")
                    ELSE UNCHANGED onceState /\ OnceGo(t, "spin")
                 /\ UNCHANGED <<onceUse, onceData, onceFailed, onceSeen>>

Cas(t) == /\ oncePlace[t] = "cas"
          /\ IF onceState = "Incomplete"
             THEN onceState' = "Running" /\ OnceGo(t, "init")
             ELSE UNCHANGED onceState /\ OnceGo(t, "spin")
          /\ UNCHANGED <<onceUse, onceData, onceFailed, onceSeen>>

Spin(t) == /\ oncePlace[t] = "spin"
           /\ onceState \in {"Complete", "Poisoned"}
           /\ OnceGo(t, "out")
           /\ UNCHANGED <<onceUse, onceState, onceData, onceFailed, onceSeen>>

(* call_once_force: what was loaded first decides whether the closure is told
   that the Once is poisoned, and the closures of set and get_or_try_init then
   do nothing. *)
CallOnceForce(t) == /\ oncePlace[t] = "out"
                    /\ onceUse = "forced"
                    /\ onceState # "Complete"
                    /\ See(t)
                    /\ OnceGo(t, IF onceState = "Poisoned" THEN "forceCasPoisoned" ELSE "forceCas")
                    /\ UNCHANGED <<onceUse, onceState, onceData, onceFailed>>

\* Takes RUNNING for poisoned, and skips the initialiser.
ForceCasSkips(t) == /\ oncePlace[t] \in {"forceCas", "forceCasPoisoned"}
                    /\ onceState = onceSeen[t]
                    /\ onceState' = "Running"
                    /\ OnceGo(t, IF onceSeen[t] = "Incomplete" THEN "init" ELSE "store")
                    /\ UNCHANGED <<onceUse, onceData, onceFailed, onceSeen>>

ForceCas(t) == /\ oncePlace[t] \in {"forceCas", "forceCasPoisoned"}
               /\ onceState = onceSeen[t]
               /\ onceState' = "Running"
               /\ OnceGo(t, IF oncePlace[t] = "forceCas" THEN "init" ELSE "store")
               /\ UNCHANGED <<onceUse, onceData, onceFailed, onceSeen>>

ForceCasFails(t) == /\ oncePlace[t] \in {"forceCas", "forceCasPoisoned"}
                    /\ onceState # onceSeen[t]
                    /\ IF onceState = "Complete" THEN OnceGo(t, "out") /\ UNCHANGED onceSeen
                                                 ELSE See(t) /\ UNCHANGED oncePlace
                    /\ UNCHANGED <<onceUse, onceState, onceData, onceFailed>>

(* The closure writes the value, or panics and the guard poisons the Once;
   get_or_try_init panics also when its initialiser answers with an error. *)
Write(t) == /\ oncePlace[t] = "init"
            /\ onceData' = t
            /\ OnceGo(t, "store")
            /\ UNCHANGED <<onceUse, onceState, onceFailed, onceSeen>>

\* A panic leaves the Once as if nothing had been called.
PanicLeavesRunning(t) == /\ oncePlace[t] = "init"
                         /\ onceFailed' = onceFailed \cup {t}
                         /\ OnceGo(t, "out")
                         /\ UNCHANGED <<onceUse, onceState, onceData, onceSeen>>

Panic(t) == /\ oncePlace[t] = "init"
            /\ onceState' = "Poisoned"
            /\ onceFailed' = onceFailed \cup {t}
            /\ OnceGo(t, "out")
            /\ UNCHANGED <<onceUse, onceData, onceSeen>>

Store(t) == /\ oncePlace[t] = "store"
            /\ onceState' = "Complete"
            /\ OnceGo(t, "out")
            /\ UNCHANGED <<onceUse, onceData, onceFailed, onceSeen>>

Initialise(t) == Write(t) \/ Panic(t)

OnceStep(t) == \/ CallOnce(t) \/ Cas(t) \/ Spin(t)
               \/ CallOnceForce(t) \/ ForceCas(t) \/ ForceCasFails(t)
               \/ Initialise(t) \/ Store(t)

OnceNext == \E t \in Thread : OnceStep(t)

OnceSpec == OnceInit /\ [][OnceNext]_onceVars

----------------------------------------------------------------------------

(* Types of the lock. *)
OnceTypeOK == /\ onceUse \in OnceUses
              /\ onceState \in OnceStates
              /\ onceData \in Thread \cup {None}
              /\ onceFailed \subseteq Thread
              /\ onceSeen \in [Thread -> OnceStates]
              /\ oncePlace \in [Thread -> OncePlaces]

(* get() hands out the data of a completed lock unchecked.  Violated:
   after a failed get_or_try_init the next one skips its initialiser and still
   completes. *)
CompletedIsInitialised == onceState = "Complete" => onceData # None

(* get(): as long as no initialiser has failed the data of a completed lock is
   there, also where call_once_force lets two initialisers run at once. *)
UnfailedIsInitialised == onceFailed = {} => CompletedIsInitialised

(* call_once: one initialiser at a time, a completed lock has its value. *)
PlainOnce == onceUse = "plain" =>
  /\ \A t, u \in Thread : oncePlace[t] \in {"init", "store"}
                          /\ oncePlace[u] \in {"init", "store"} => t = u
  /\ CompletedIsInitialised

(* get_or_init: the reference that was handed out keeps its value, nothing is
   written or taken back once the lock is complete. *)
PlainIsFinal == [][onceUse = "plain" /\ onceState = "Complete"
                     => UNCHANGED <<onceState, onceData>>]_onceVars

(* get_or_init: a call that waits for another one's initialiser returns, or
   panics, when that one returns or panics. *)
PlainReturns == \A t \in Thread :
  (onceUse = "plain" /\ oncePlace[t] = "spin") ~> oncePlace[t] = "out"
=============================================================================
