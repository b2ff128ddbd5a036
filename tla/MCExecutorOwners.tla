--------------------------- MODULE MCExecutorOwners ---------------------------
(***************************************************************************)
(* Two programs that own an executor, for one run of TLC.  The executor of  *)
(* the configuration belongs to a thread that calls block_until_finished on *)
(* tasks that spawn onto the local queue; Worker is the executor of a pool's *)
(* worker, which runs block_on while other threads fill the global queue.   *)
(* A behaviour is one of them from beginning to end.                        *)
(***************************************************************************)
EXTENDS MCLocalExecutor

VARIABLE owner

Worker == INSTANCE LocalExecutor WITH
    Moves <- Usual,
    DiscardedMoves <- UsualDiscarded,
    OutsideCalls <- {},
    Others <- TRUE,
    Priority <- "Top",
    Driver <- "block_on"

OwnersInit == Init /\ owner \in {"finishing", "worker"}

OwnersTurn ==
    /\ \/ owner = "finishing" /\ Turn
       \/ owner = "worker" /\ Worker!Turn
    /\ UNCHANGED owner

OwnersOutside ==
    /\ \/ owner = "finishing" /\ Outside
       \/ owner = "worker" /\ Worker!Outside
    /\ UNCHANGED owner

\* Time passes for either of them.
Ripens(h) == Ripen(h) /\ UNCHANGED owner

\* FairSpec of LocalExecutor for either of them.  The properties are those of
\* LocalExecutor: none depends on Moves or the calls of the owner, and
\* StopsOnlyWhenDone on the driver only, which gives control back in one of them.
OwnersSpec ==
    /\ OwnersInit /\ [][OwnersTurn \/ OwnersOutside]_<<vars, owner>>
    /\ WF_<<vars, owner>>(OwnersTurn)
    /\ \A h \in Entries : WF_<<vars, owner>>(Ripens(h))
=============================================================================
