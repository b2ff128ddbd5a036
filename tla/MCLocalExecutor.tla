--------------------------- MODULE MCLocalExecutor ---------------------------
(***************************************************************************)
(* The sets of steps from which the configurations LocalExecutor_*.cfg and *)
(* MCExecutorOwners choose what tasks may do.                              *)
(***************************************************************************)
EXTENDS LocalExecutor

\* Steps that spawn nothing.
Quiet == {"nothing"} \X {"progressed", "pending", "delay", "reschedule",
                         "done", "none", "panicked", "spawn_failed"}

\* The steps TaskIterator, DoNext and OnNext can make: a spawn whose State is
\* its own, or one made by a resolver that then reports progress.
Usual == Quiet \union
    {<<"schedule", "spawned">>, <<"schedule", "progressed">>,
     <<"broadcast", "spawned">>, <<"lift_alone", "progressed">>,
     <<"lift", "lifted">>, <<"sequence", "sequenced">>}

\* Those of tasks that are never scheduled by what a composite discards.
UsualDiscarded == Quiet \union {<<"schedule", "spawned">>, <<"broadcast", "spawned">>}

\* Tasks that spawn only onto the local queue, and not with their last step.
\* (do_work takes None like Done and SpawnFailed like Panicked: they are in Usual.)
Local == {<<"nothing", "pending">>, <<"nothing", "delay">>, <<"nothing", "reschedule">>,
          <<"nothing", "done">>, <<"nothing", "panicked">>, <<"schedule", "spawned">>,
          <<"lift", "lifted">>, <<"lift_alone", "progressed">>, <<"sequence", "sequenced">>}
LocalDiscarded == {<<"nothing", "pending">>, <<"nothing", "done">>, <<"nothing", "panicked">>}

\* Tasks of one or more steps that sequence, and lift.
SequencingThenLifting ==
    {<<"nothing", "done">>, <<"nothing", "progressed">>,
     <<"sequence", "sequenced">>, <<"lift", "lifted">>}
=============================================================================
