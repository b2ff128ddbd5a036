---------------------------- MODULE LocalExecutor ----------------------------
(***************************************************************************)
(* One valtron executor (foundation_core/src/valtron/executors/local.rs):  *)
(* the state of a LocalThreadExecutor, its turn (schedule_and_do_work),    *)
(* the engine calls by which running tasks and outside code spawn tasks    *)
(* (lift, sequenced, schedule, broadcast), the composite tasks of          *)
(* dependent_lift.rs, and the loops that drive turns.                      *)
(*                                                                         *)
(* A task is known by what one call of ExecutionIterator::next does: the   *)
(* engine call it makes, if any, and the State it returns.  Entries are    *)
(* numbered in the order insert issues them: that an entry is never issued *)
(* twice is EntryList's promise (HandleMap).  Time is the order in which   *)
(* sleepers become ready.  The executor is one thread, but other threads   *)
(* fill the global queue, and time passes, between any two of its steps.   *)
(***************************************************************************)
EXTENDS Integers, SequencesExt

CONSTANTS
    Task,            \* the tasks that may ever exist
    Fuel,            \* bound: steps a task takes before it ends
    GlobalCap,       \* capacity of the global queue
    Moves,           \* what a task's step may do: pairs <<engine call, State>>
    DiscardedMoves,  \* the same, for a step whose State a composite discards
    OutsideCalls,    \* engine calls its owner makes between turns
    Others,          \* TRUE if other threads push to the global queue too
    Priority,        \* where woken tasks go: "Top" or "Bottom" of the queue
    Driver           \* "run_once", "run_until", "until_finished" or "block_on"

\* <<engine call, State>> of one step.  The State of a step that spawned
\* through an ExecutionAction is the SpawnFinished of that spawn; a step may
\* also call the engine itself (an OnNext resolver, or spawn() in the task).
AllMoves ==
    ({"nothing"} \X {"progressed", "pending", "delay", "reschedule",
                     "done", "none", "panicked", "spawn_failed", "spawned"})
      \union ({"schedule", "broadcast"} \X {"spawned", "progressed", "done"})
      \union ({"lift_alone"} \X {"lifted_alone", "progressed", "done"})
      \union {<<"lift", "lifted">>, <<"sequence", "sequenced">>}

ASSUME ExecutorAssumption ==
    /\ IsFiniteSet(Task) /\ Task # {}
    /\ Fuel \in Nat
    /\ GlobalCap \in Nat
    /\ Moves \subseteq AllMoves
    /\ DiscardedMoves \subseteq Moves
    /\ <<"nothing", "done">> \in DiscardedMoves
    /\ OutsideCalls \subseteq {"schedule", "lift_alone", "lift", "broadcast"}
    /\ Others \in BOOLEAN
    /\ Priority \in {"Top", "Bottom"}
    /\ Driver \in {"run_once", "run_until", "until_finished", "block_on"}

VARIABLES
    \* the tasks, seen from outside
    fate,        \* what has become of each task
    fuel,        \* the steps it has left
    lifter,      \* {the task that lifted it with a parent}, {itself} if it was
                 \* lifted without one, else {}
    \* ExecutorState
    global,      \* global_tasks, the queue shared with other threads
    local,       \* local_tasks: entry -> stack of the tasks linked under it
    processing,  \* the queue of entries to run
    packed,      \* packed_tasks
    asleep,      \* the entries registered with the sleepers
    ripe,        \* those whose duration has elapsed
    issued,      \* the number of entries issued so far
    current,     \* current_task; 0 for None
    \* one turn
    pc,          \* where the executor is
    remaining,   \* remaining_tasks in do_work
    hand,        \* the stack do_work took out of local_tasks
    at,          \* the layer of it being polled
    yielded,     \* the State the poll returns, once known
    child,       \* the entry in that State's SpawnInfo
    indicator    \* the ProgressIndicator of the turn

tasks == <<fate, fuel, lifter>>
queues == <<processing, packed, asleep, ripe>>
turn == <<remaining, hand, at, yielded, child>>
vars == <<tasks, global, local, queues, issued, current, pc, turn, indicator>>

Fates == {"unborn", "live", "finished", "failed", "dropped"}
Places == {"outside", "turn", "wake", "work", "poll", "dispatch", "settle",
           "spin", "loop", "crashed"}
States == {m[2] : m \in AllMoves} \union {"unset"}
Entry == Nat \ {0}

\* A local task is a stack of layers: a plain task is one "base" layer; lifting
\* a child over it puts a "finish" layer on top (FinishChildBeforeParentTask),
\* sequencing a "dual" one (DualSequeunceChildAndParentLinkedTask).
Layer == [task : Task, link : {"base", "finish", "dual"}]

Plain(t) == <<[task |-> t, link |-> "base"]>>
\* Mutant of Over: parent and child swapped in the call of new.
OverSwapped(link, t, stack) ==
    Front(stack) \o <<[task |-> Last(stack).task, link |-> link]>> \o Plain(t)

Over(link, t, stack) == <<[task |-> t, link |-> link]>> \o stack

Without(H) == [h \in DOMAIN local \ H |-> local[h]]
With(m, h, stack) == [g \in DOMAIN m \union {h} |-> IF g = h THEN stack ELSE m[g]]

Unborn == {t \in Task : fate[t] = "unborn"}
Running == hand[at].task

Init ==
    /\ fate = [t \in Task |-> "unborn"]
    /\ fuel = [t \in Task |-> Fuel]
    /\ lifter = [t \in Task |-> {}]
    /\ global = <<>>
    /\ local = [h \in {} |-> <<>>]
    /\ processing = <<>>
    /\ packed = {}
    /\ asleep = {}
    /\ ripe = {}
    /\ issued = 0
    /\ current = 0
    /\ pc = "outside"
    /\ remaining = 0
    /\ hand = <<>>
    /\ at = 0
    /\ yielded = "unset"
    /\ child = 0
    /\ indicator = "none"

-----------------------------------------------------------------------------
(* The engine: LocalExecutionEngine's calls, made for a new task u.        *)

\* EntryList::insert.
Inserted(u) ==
    /\ local' = With(local, issued + 1, Plain(u))
    /\ issued' = issued + 1

\* Mutant of Push: a full queue takes the task all the same.
PushForced(u) == global' = Append(global, u)

Push(u) ==
    /\ Len(global) < GlobalCap
    /\ global' = Append(global, u)

Engine(call, u) ==
    \/ /\ call = "nothing"
       /\ UNCHANGED <<local, issued, processing, global>>
    \/ /\ call = "schedule"
       /\ Inserted(u)
       /\ processing' = Append(processing, issued + 1)
       /\ UNCHANGED global
    \/ /\ call = "lift_alone"     \* lift(task, None)
       /\ Inserted(u)
       /\ processing' = <<issued + 1>> \o processing
       /\ UNCHANGED global
    \/ /\ call \in {"lift", "sequence"}   \* the caller must link it in
       /\ Inserted(u)
       /\ UNCHANGED <<processing, global>>
    \/ /\ call = "broadcast"
       /\ Push(u)
       /\ UNCHANGED <<local, issued, processing>>

\* The task a call would be made for: any unborn one will do.
Newborn == CHOOSE u \in Task : fate[u] = "unborn"
Spawns(call) == IF call = "nothing" THEN {} ELSE {Newborn}

\* Who waits for a task spawned by t.
LifterOf(call, t, u) ==
    IF call = "lift" THEN {t} ELSE IF call = "lift_alone" THEN {u} ELSE {}

-----------------------------------------------------------------------------
(* Code outside the executor.                                              *)

\* Another thread pushes a task to the global queue.
Submit ==
    /\ Others
    /\ Unborn # {}
    /\ Engine("broadcast", Newborn)
    /\ fate' = [fate EXCEPT ![Newborn] = "live"]
    /\ UNCHANGED <<fuel, lifter, packed, asleep, ripe, current, pc, turn, indicator>>

\* Time passes for a sleeping task (DurationWaker::is_ready becomes true).
Ripen(h) ==
    /\ h \in asleep \ ripe
    /\ ripe' = ripe \union {h}
    /\ UNCHANGED <<tasks, global, local, processing, packed, asleep, issued,
                   current, pc, turn, indicator>>

\* Between turns the owner of the executor schedules or broadcasts a task, or
\* lifts one without a parent.
CallOutside(call) ==
    /\ pc = "outside"
    /\ call \in OutsideCalls \ {"lift"}
    /\ Unborn # {}
    /\ Engine(call, Newborn)
    /\ fate' = [fate EXCEPT ![Newborn] = "live"]
    /\ lifter' = [lifter EXCEPT ![Newborn] = LifterOf(call, Newborn, Newborn)]
    /\ UNCHANGED <<fuel, packed, asleep, ripe, current, pc, turn, indicator>>

\* ... or lifts one with an entry it knows as the parent.  lift compares the
\* entry with current_task, and there must be one.
LiftOutside(key) ==
    /\ pc = "outside"
    /\ "lift" \in OutsideCalls
    /\ Unborn # {}
    /\ \/ /\ current = key
          /\ Engine("lift", Newborn)
          /\ fate' = [fate EXCEPT ![Newborn] = "live"]
          /\ UNCHANGED pc
       \/ /\ current = 0
          /\ pc' = "crashed"
          /\ UNCHANGED <<local, issued, processing, global, fate>>
    /\ UNCHANGED <<fuel, lifter, packed, asleep, ripe, current, turn, indicator>>

\* run_once, run_until, block_until_finished or block_on is called.
Run ==
    /\ pc = "outside"
    /\ pc' = "turn"
    /\ UNCHANGED <<tasks, global, local, queues, issued, current, turn, indicator>>

-----------------------------------------------------------------------------
(* schedule_and_do_work, up to the call of do_work.                        *)

\* Mutant of ActiveTasks: the tasks in process are subtracted as well.
ActiveTasksNotQueued ==
    Cardinality(DOMAIN local) - Cardinality(asleep) - Len(processing)

\* total_active_tasks: a parked entry would count as active, but no entry is
\* parked between turns.
ActiveTasks == Cardinality(DOMAIN local) - Cardinality(asleep)

\* schedule_next found no local task running: take a task off the global queue.
Acquire ==
    /\ global' = Tail(global)
    /\ local' = With(local, issued + 1, Plain(Head(global)))
    /\ issued' = issued + 1
    /\ processing' = <<issued + 1>> \o processing

LocalTaskRunning == DOMAIN local # {} /\ processing # <<>>

\* Mutant of Request: the global queue is looked at before the local tasks.
RequestGlobalFirst ==
    /\ pc = "turn"
    /\ IF global # <<>> THEN Acquire ELSE UNCHANGED <<global, local, issued, processing>>
    /\ pc' = IF DOMAIN local' = {} THEN "loop" ELSE "wake"
    /\ indicator' = IF pc' = "loop" THEN "NoWork" ELSE indicator
    /\ UNCHANGED <<tasks, packed, asleep, ripe, current, turn>>

\* Mutant of Request: sleeping tasks are no reason to go on.
RequestIgnoringSleepers ==
    /\ pc = "turn"
    /\ IF ActiveTasks = 0 /\ global # <<>>
       THEN Acquire ELSE UNCHANGED <<global, local, issued, processing>>
    /\ pc' = IF ActiveTasks = 0 /\ global = <<>> THEN "loop" ELSE "wake"
    /\ indicator' = IF pc' = "loop" THEN "NoWork" ELSE indicator
    /\ UNCHANGED <<tasks, packed, asleep, ripe, current, turn>>

\* request_global_task.
Request ==
    /\ pc = "turn"
    /\ LET unreachable == ActiveTasks = 0 /\ LocalTaskRunning
           idle == ActiveTasks = 0 /\ ~LocalTaskRunning
       IN  /\ IF idle /\ global # <<>>
              THEN Acquire
              ELSE UNCHANGED <<global, local, issued, processing>>
           /\ pc' = IF unreachable THEN "crashed"
                    ELSE IF idle /\ global = <<>> /\ asleep = {} THEN "loop" ELSE "wake"
    /\ indicator' = IF pc' = "loop" THEN "NoWork" ELSE indicator
    /\ UNCHANGED <<tasks, packed, asleep, ripe, current, turn>>

\* Mutant of Wake: ready sleepers stay registered.
WakeAndStay ==
    /\ pc = "wake"
    /\ \E order \in Bijection(1..Cardinality(ripe), ripe) :
         processing' = IF Priority = "Top" THEN order \o processing
                                           ELSE processing \o order
    /\ packed' = packed \ ripe
    /\ pc' = "work"
    /\ UNCHANGED <<tasks, global, local, asleep, ripe, issued, current, turn, indicator>>

\* wakeup_ready_sleepers: the sleepers' slots order the ready ones.
Wake ==
    /\ pc = "wake"
    /\ \E order \in Bijection(1..Cardinality(ripe), ripe) :
         processing' = IF Priority = "Top" THEN order \o processing
                                           ELSE processing \o order
    /\ packed' = packed \ ripe
    /\ asleep' = asleep \ ripe
    /\ ripe' = {}
    /\ pc' = "work"
    /\ UNCHANGED <<tasks, global, local, issued, current, turn, indicator>>

-----------------------------------------------------------------------------
(* do_work.                                                                *)

\* check_processing_queue finds nothing to run.
NothingToRun ==
    /\ pc = "work"
    /\ processing = <<>>
    /\ indicator' = IF asleep # {} THEN "CanProgress" ELSE "NoWork"
    /\ pc' = "settle"
    /\ UNCHANGED <<tasks, global, local, queues, issued, current, turn>>

\* The entry at the front leaves the queue.  Unless it is packed it becomes
\* current and its task is taken in hand; the number of entries left in the
\* queue is read now and used after the poll.
PickTop ==
    /\ pc = "work"
    /\ processing # <<>>
    /\ processing' = Tail(processing)
    /\ LET top == Head(processing) IN
         IF top \in packed
         THEN /\ indicator' = "CanProgress"
              /\ pc' = "settle"
              /\ UNCHANGED <<current, remaining, hand, at, local>>
         ELSE /\ current' = top
              /\ remaining' = Len(processing) - 1
              /\ IF top \in DOMAIN local
                 THEN hand' = local[top] /\ at' = 1 /\ local' = Without({top})
                 ELSE UNCHANGED <<hand, at, local>>
              \* assert: An entry must always have a task attached
              /\ pc' = IF top \in DOMAIN local THEN "poll" ELSE "crashed"
              /\ UNCHANGED indicator
    /\ UNCHANGED <<tasks, global, packed, asleep, ripe, issued, yielded, child>>

-----------------------------------------------------------------------------
(* ExecutionIterator::next of the stack in hand, one layer at a time.      *)

Ends == {"done", "none"}
Final == Ends \union {"panicked", "spawn_failed"}

\* What the running task's step may be.  A task that has ended and is polled
\* again ends again: its iterator has nothing more, or its mutex is poisoned.
MayDo(call, state) ==
    /\ <<call, state>> \in IF yielded = "unset" THEN Moves ELSE DiscardedMoves
    /\ call # "nothing" => Unborn # {}
    /\ \/ fate[Running] = "live" /\ (state \in Final \/ fuel[Running] > 0)
       \/ fate[Running] = "finished" /\ call = "nothing" /\ state \in Ends
       \/ fate[Running] = "failed" /\ state = "panicked"

FateAfter(state) ==
    IF fate[Running] # "live" THEN fate[Running]
    ELSE IF state \in Ends THEN "finished"
    ELSE IF state = "panicked" \/ (state = "spawn_failed" /\ yielded = "unset")
         THEN "failed" ELSE "live"

\* The step of the running task itself.
Step(call, state) ==
    /\ pc = "poll"
    /\ MayDo(call, state)
    /\ Engine(call, Newborn)
    /\ fate' = [t \in Task |->
                  IF t = Running THEN FateAfter(state)
                  ELSE IF t \in Spawns(call) THEN "live" ELSE fate[t]]
    /\ fuel' = IF state \in Final THEN fuel
               ELSE [fuel EXCEPT ![Running] = @ - 1]
    /\ lifter' = [t \in Task |-> IF t \in Spawns(call)
                                 THEN LifterOf(call, Running, t) ELSE lifter[t]]
    /\ child' = IF yielded = "unset" /\ call \in {"lift", "sequence"}
                THEN issued + 1 ELSE child
    /\ UNCHANGED <<packed, asleep, ripe, current, remaining, indicator>>

\* A composite drops its child on None or Done, and its parent on None only.
Dropped(state) ==
    IF hand[at].link = "base" THEN state = "none" ELSE state \in Ends

\* A State returned below a composite that already has one is discarded.
Yield(state) == yielded' = IF yielded = "unset" THEN state ELSE yielded

\* Mutant of PollEnded: the end of the child is the answer of the call.
PollEndedAnswers(call, state) ==
    /\ Step(call, state)
    /\ Dropped(state)
    /\ hand' = RemoveAt(hand, at)
    /\ pc' = "dispatch" /\ Yield("none") /\ UNCHANGED at

\* The child is through: the same call goes on with what it was linked over.
PollEnded(call, state) ==
    /\ Step(call, state)
    /\ Dropped(state)
    /\ hand' = RemoveAt(hand, at)
    /\ IF at < Len(hand)
       THEN pc' = "poll" /\ UNCHANGED <<at, yielded>>
       ELSE pc' = "dispatch" /\ Yield("none") /\ UNCHANGED at

\* A sequenced child has made a step: its parent makes one too, whose State is
\* discarded.
PollSequenced(call, state) ==
    /\ Step(call, state)
    /\ hand[at].link = "dual"
    /\ ~Dropped(state)
    /\ Yield(state)
    /\ IF at < Len(hand)
       THEN pc' = "poll" /\ at' = at + 1
       ELSE pc' = "dispatch" /\ UNCHANGED at
    /\ UNCHANGED hand

\* A lifted child or a plain task has made a step: that is the answer.
PollReturns(call, state) ==
    /\ Step(call, state)
    /\ hand[at].link # "dual"
    /\ ~Dropped(state)
    /\ Yield(state)
    /\ pc' = "dispatch"
    /\ UNCHANGED <<hand, at>>

Poll == \E m \in Moves :
    PollEnded(m[1], m[2]) \/ PollSequenced(m[1], m[2]) \/ PollReturns(m[1], m[2])

-----------------------------------------------------------------------------
(* do_work, after the poll.                                                *)

\* The poll is over: what do_work kept for it is gone.
EndPoll ==
    /\ hand' = <<>> /\ at' = 0 /\ yielded' = "unset" /\ child' = 0
    /\ UNCHANGED <<current, global, fuel, lifter>>

\* None, Done, Panicked, SpawnFailed: the entry is removed with all it holds.
Discard ==
    /\ pc = "dispatch"
    /\ yielded \in Final
    /\ fate' = [t \in Task |->
                  IF fate[t] = "live" /\ \E i \in DOMAIN hand : hand[i].task = t
                  THEN "dropped" ELSE fate[t]]
    /\ indicator' = IF remaining = 0 THEN "NoWork" ELSE "CanProgress"
    /\ pc' = "settle"
    /\ remaining' = 0
    /\ EndPoll
    /\ UNCHANGED <<local, queues, issued>>

\* Mutant of Requeue: the task is inserted anew instead of unparked.
RequeueInserted ==
    /\ pc = "dispatch"
    /\ yielded \in {"progressed", "pending", "spawned", "reschedule"}
    /\ local' = With(local, issued + 1, hand)
    /\ issued' = issued + 1
    /\ processing' = IF yielded = "reschedule" THEN Append(processing, issued + 1)
                                              ELSE <<issued + 1>> \o processing
    /\ indicator' = "CanProgress"
    /\ pc' = "settle"
    /\ remaining' = 0
    /\ EndPoll
    /\ UNCHANGED <<fate, packed, asleep, ripe>>

\* Progressed, ReadyValue, Pending(None), and SpawnFinished without a parent:
\* the entry goes back to the front.  Reschedule: to the back.
Requeue ==
    /\ pc = "dispatch"
    /\ yielded \in {"progressed", "pending", "spawned", "reschedule"}
    /\ local' = With(local, current, hand)
    /\ processing' = IF yielded = "reschedule" THEN Append(processing, current)
                                              ELSE <<current>> \o processing
    /\ indicator' = "CanProgress"
    /\ pc' = "settle"
    /\ remaining' = 0
    /\ EndPoll
    /\ UNCHANGED <<fate, packed, asleep, ripe, issued>>

\* Pending(Some(duration)): the entry leaves the queue for the sleepers.
Sleep ==
    /\ pc = "dispatch"
    /\ yielded = "delay"
    /\ local' = With(local, current, hand)
    /\ packed' = packed \union {current}
    /\ asleep' = asleep \union {current}
    /\ indicator' = IF processing # <<>> THEN "CanProgress" ELSE "SpinWait"
    /\ pc' = "settle"
    /\ remaining' = 0
    /\ EndPoll
    /\ UNCHANGED <<fate, processing, ripe, issued>>

\* Mutant of Compose: the composite is inserted but not queued.
ComposeUnqueued ==
    /\ pc = "dispatch"
    /\ yielded \in {"lifted", "sequenced"}
    /\ child \in DOMAIN local
    /\ LET link == IF yielded = "lifted" THEN "finish" ELSE "dual"
       IN  local' = With(Without({child}), issued + 1,
                         Over(link, local[child][1].task, hand))
    /\ issued' = issued + 1
    /\ indicator' = "CanProgress"
    /\ pc' = "settle"
    /\ remaining' = 0
    /\ EndPoll
    /\ UNCHANGED <<fate, processing, packed, asleep, ripe>>

\* Mutant of Compose: the child is not taken out of local_tasks.
ComposeChildKept ==
    /\ pc = "dispatch"
    /\ yielded \in {"lifted", "sequenced"}
    /\ child \in DOMAIN local
    /\ LET link == IF yielded = "lifted" THEN "finish" ELSE "dual"
       IN  local' = With(local, issued + 1,
                         Over(link, local[child][1].task, hand))
    /\ issued' = issued + 1
    /\ processing' = <<issued + 1>> \o processing
    /\ indicator' = "CanProgress"
    /\ pc' = "settle"
    /\ remaining' = 0
    /\ EndPoll
    /\ UNCHANGED <<fate, packed, asleep, ripe>>

\* SpawnFinished with parent and child: the two become one composite entry.
Compose ==
    /\ pc = "dispatch"
    /\ yielded \in {"lifted", "sequenced"}
    /\ child \in DOMAIN local
    /\ LET link == IF yielded = "lifted" THEN "finish" ELSE "dual"
       IN  local' = With(Without({child}), issued + 1,
                         Over(link, local[child][1].task, hand))
    /\ issued' = issued + 1
    /\ processing' = <<issued + 1>> \o processing
    /\ indicator' = "CanProgress"
    /\ pc' = "settle"
    /\ remaining' = 0
    /\ EndPoll
    /\ UNCHANGED <<fate, packed, asleep, ripe>>

\* SpawnFinished(Lifted) without a parent: do_work unwraps the parent.
ComposeWithoutParent ==
    /\ pc = "dispatch"
    /\ yielded = "lifted_alone"
    /\ pc' = "crashed"
    /\ UNCHANGED <<tasks, global, local, queues, issued, current, turn, indicator>>

Dispatch == Discard \/ Requeue \/ Sleep \/ Compose \/ ComposeWithoutParent

-----------------------------------------------------------------------------
(* schedule_and_do_work, after do_work; and the loop around it.            *)

SettleProgress ==
    /\ pc = "settle"
    /\ indicator = "CanProgress"
    /\ pc' = "loop"
    /\ UNCHANGED <<tasks, global, local, queues, issued, current, turn, indicator>>

\* max_duration is None when every sleeper has become ready meanwhile.
SettleNoWorkAsleep ==
    /\ pc = "settle"
    /\ indicator = "NoWork"
    /\ asleep # {}
    /\ indicator' = IF asleep = ripe THEN "CanProgress" ELSE "SpinWait"
    /\ pc' = "loop"
    /\ UNCHANGED <<tasks, global, local, queues, issued, current, turn>>

\* Mutant of SettleNoWorkIdle: nobody looks at the sleepers.
SettleNoWorkAnyway ==
    /\ pc = "settle"
    /\ indicator = "NoWork"
    /\ current' = 0
    /\ indicator' \in {"NoWork", "SpinWait"}
    /\ pc' = "loop"
    /\ UNCHANGED <<tasks, global, local, queues, issued, turn>>

\* IdleMan answers with a pause, or with none.
SettleNoWorkIdle ==
    /\ pc = "settle"
    /\ indicator = "NoWork"
    /\ asleep = {}
    /\ current' = 0
    /\ indicator' \in {"NoWork", "SpinWait"}
    /\ pc' = "loop"
    /\ UNCHANGED <<tasks, global, local, queues, issued, turn>>

\* The sleeper may wait, unless something else can run.
SettleSpin ==
    /\ pc = "settle"
    /\ indicator = "SpinWait"
    /\ IF processing # <<>> \/ global # <<>>
       THEN /\ pc' = "loop" /\ indicator' = "CanProgress"
            /\ UNCHANGED current
       ELSE pc' = "spin" /\ current' = 0 /\ UNCHANGED indicator
    /\ UNCHANGED <<tasks, global, local, queues, issued, turn>>

\* The last look at the global queue (schedule_next): a task may have come.
SpinSchedule ==
    /\ pc = "spin"
    /\ IF global # <<>> /\ ~LocalTaskRunning
       THEN Acquire /\ indicator' = "CanProgress"
       ELSE UNCHANGED <<global, local, issued, processing, indicator>>
    /\ pc' = IF LocalTaskRunning THEN "crashed" ELSE "loop"    \* unreachable!
    /\ UNCHANGED <<tasks, packed, asleep, ripe, current, turn>>

\* Whether the driving loop gives control back after this turn.  run_until also
\* stops whenever its caller's condition holds, which may be at any turn.
MayStop ==
    \/ Driver \in {"run_once", "run_until"}
    \/ Driver = "until_finished" /\ indicator = "NoWork"
MayGoOn ==
    \/ Driver = "block_on"
    \/ Driver = "until_finished" /\ indicator # "NoWork"
    \/ Driver = "run_until" /\ ~(indicator = "NoWork" /\ DOMAIN local = {})

Loop ==
    /\ pc = "loop"
    /\ \/ MayStop /\ pc' = "outside"
       \/ MayGoOn /\ pc' = "turn"
    /\ indicator' = "none"
    /\ UNCHANGED <<tasks, global, local, queues, issued, current, turn>>

-----------------------------------------------------------------------------
Turn ==
    \/ Run \/ Request \/ Wake
    \/ NothingToRun \/ PickTop
    \/ Poll \/ Dispatch
    \/ SettleProgress \/ SettleNoWorkAsleep \/ SettleNoWorkIdle \/ SettleSpin
    \/ SpinSchedule \/ Loop

\* Every entry is issued for a spawned task or for a composite of one
\* (EntriesBounded).
Entries == 1..2 * Cardinality(Task)

Outside ==
    \/ Submit
    \/ \E h \in Entries : Ripen(h)
    \/ \E call \in OutsideCalls : CallOutside(call)
    \/ \E key \in 1..issued : LiftOutside(key)

Next == Turn \/ Outside

Spec == Init /\ [][Next]_vars

\* The executor's thread runs, its owner keeps calling it, and time passes; who
\* submits or spawns tasks owes nothing.
Fairness == WF_vars(Turn) /\ \A h \in Entries : WF_vars(Ripen(h))
FairSpec == Spec /\ Fairness

-----------------------------------------------------------------------------
TypeOK ==
    /\ fate \in [Task -> Fates]
    /\ fuel \in [Task -> 0..Fuel]
    /\ lifter \in [Task -> SUBSET Task]
    /\ global \in Seq(Task) /\ Len(global) <= GlobalCap
    /\ issued \in Nat
    /\ DOMAIN local \subseteq 1..issued
    /\ \A h \in DOMAIN local : local[h] \in Seq(Layer) /\ local[h] # <<>>
    /\ processing \in Seq(1..issued)
    /\ packed \subseteq 1..issued
    /\ ripe \subseteq asleep /\ asleep \subseteq 1..issued
    /\ current \in 0..issued
    /\ pc \in Places
    /\ remaining \in Nat
    /\ hand \in Seq(Layer)
    /\ at \in 0..Len(hand) + 1
    /\ yielded \in States
    /\ child \in 0..issued
    /\ indicator \in {"none", "NoWork", "CanProgress", "SpinWait"}

\* A task costs the executor at most two entries, its own and one for the
\* composite it is linked in: unpark gives it back its entry after every step,
\* so slots and generations are used up by spawns and never by turns.
EntriesBounded == issued <= 2 * Cardinality(Task)

InHand == pc \in {"poll", "dispatch"}

\* The queue and the sleepers hold entries that have a task, each once, and
\* never the one being polled: whatever a task, a composite or the owner does,
\* no entry is polled twice, polled while asleep, or popped without its task
\* (the assertion of do_work), and the subtraction in total_active_tasks cannot
\* underflow. packed_tasks and the sleepers, two records of the same fact kept by
\* different calls (pack_task_and_dependents and sleepers.insert; wake_up and
\* get_matured), agree: a queued entry is never skipped as packed and a sleeping
\* one is never run.
QueueSound ==
    /\ IsInjective(processing)
    /\ Range(processing) \intersect asleep = {}
    /\ Range(processing) \union asleep \subseteq DOMAIN local
    /\ InHand => current \notin DOMAIN local
    /\ packed = asleep

\* Every entry with a task can be reached: it is queued or asleep, or it is the
\* child a poll in progress has just inserted and do_work will link in.  An
\* entry in none of them would never run, and would count as active for ever,
\* so that request_global_task would never look at the global queue again.
NothingOrphaned ==
    DOMAIN local \subseteq
        Range(processing) \union asleep \union (IF InHand THEN {child} ELSE {})

\* The places where a task is: positions in the global queue and in the stacks
\* of the local tasks and of the one in hand (place 0).
Holds(t) ==
    {<<"global", 0, i>> : i \in {j \in DOMAIN global : global[j] = t}}
      \union {<<"hand", 0, i>> : i \in {j \in DOMAIN hand : hand[j].task = t}}
      \union UNION {{<<"local", h, i>> : i \in {j \in DOMAIN local[h] : local[h][j].task = t}}
                       : h \in DOMAIN local}

\* A task that has been accepted and has not ended is held in exactly one place
\* through every insertion, park, unpark, take and composition: none is lost,
\* none is run from two places.
LiveTasksHeldOnce ==
    \A t \in Task : fate[t] = "live" => Cardinality(Holds(t)) = 1

\* A task that lifted another one makes no step before that one has ended,
\* however deep the lifting goes and whatever the child does meanwhile
\* (FinishChildBeforeParentTask: "child task must first finish before the
\* parent will continue to make any progress").
ChildFinishesFirst ==
    pc = "poll" =>
        \A u \in Task \ {Running} : Running \in lifter[u] => fate[u] # "live"

\* The executor's unreachable!, assert! and unwrap are never reached.
NoCrash == pc # "crashed"

\* A task leaves the global queue only when no local entry is queued ("we will
\* never take any new tasks from the global queue until all the entries in this
\* queue is empty").
GlobalOnlyWhenIdle ==
    [][Len(global') < Len(global) => processing = <<>> /\ ~InHand]_vars

\* block_until_finished gives control back only when nothing is left to run:
\* it "will continue to execute the executor till the task is ideally finished
\* and no more work remains".
StopsOnlyWhenDone ==
    [][(Driver = "until_finished" /\ pc = "loop" /\ pc' = "outside")
         => (DOMAIN local = {} /\ global = <<>>)]_vars

\* do_work removes an entry with all that was linked into it, but a live task is
\* dropped only if another one of its stack has failed: a child that ends, at
\* any depth and in any turn of it, leaves its parent, and a parent that ends or
\* is asked once more leaves its child.
DropsOnlyAfterFailure ==
    [][\A t \in Task : (fate[t] = "live" /\ fate'[t] = "dropped") =>
          \E i \in DOMAIN hand : fate[hand[i].task] = "failed"]_vars

\* Every accepted task that makes finitely many steps ends, whatever the other
\* tasks do: none is starved, forgotten asleep, or left behind in a composite.
EveryTaskEnds ==
    \A t \in Task : (fate[t] = "live") ~> (fate[t] # "live")

=============================================================================
