----------------------------- MODULE ThreadPool -----------------------------
(***************************************************************************)
(* The multi-threaded pool: ThreadRegistry with its task workers,          *)
(* BackgroundJobRegistry with its job workers, and the PoolGuard that ends *)
(* them.  Two WaitGroups count the two kinds of workers.  The pool is used *)
(* in one of two ways: through initialize_pool, which adds the background  *)
(* workers, or as a ThreadRegistry of the caller's own, whose              *)
(* block_until_done another thread (Monitor) may run beside the guard.     *)
(*                                                                         *)
(* A turn of a task worker is one run of its LocalExecutor; here it ends,  *)
(* and may end in a panic.  The LockSignal called latch is not modelled:   *)
(* no thread ever waits on it (idle workers use park_timeout).             *)
(***************************************************************************)
EXTENDS Integers, Sequences, FiniteSets

CONSTANTS Worker,     \* a number for every task worker ever spawned
          Bg,         \* background workers
          Job,        \* closures submitted to the background workers
          Owner,      \* the thread that holds the PoolGuard
          Monitor,    \* the thread inside block_until_done
          TaskThreads,\* ThreadRegistry.max_threads
          MaxPanics,  \* bound on the panics of workers
          None

VARIABLES kind,       \* "pool" (initialize_pool) or "registry" (the caller's own)
          kill,       \* OnSignal shared by both registries
          at,         \* where the owner and the monitor are
          task,       \* where each task worker is
          bg,         \* where each background worker is
          left,       \* workers the owner has still to spawn
          slot,       \* the worker that a thread inside spawn_worker starts
          handles,    \* ThreadRegistry.thread_handles
          taken,      \* the handles a thread inside join_all_threads took
          live,       \* ThreadRegistry.live_threads
          events,     \* the activity channel: what concerns live_threads
          panics,     \* panics so far
          closed,     \* job_queue is closed
          queue,      \* job_queue
          job,        \* what became of each job
          called,     \* history: workers counted when shutdown() was called
          tCount, tLock, tPlace,   \* ThreadRegistry.waitgroup
          bCount, bLock, bPlace    \* BackgroundJobRegistry.waitgroup

ASSUME PoolAssumption ==
  /\ Worker \subseteq Nat /\ IsFiniteSet(Worker) /\ IsFiniteSet(Bg)
  /\ Owner # Monitor /\ Owner \notin Worker \cup Bg /\ Monitor \notin Worker \cup Bg
  /\ Worker \cap Bg = {} /\ None \notin Worker
  /\ TaskThreads \in Nat \ {0} /\ MaxPanics \in Nat
  /\ Job \cap {"none", "spawn", "start", "refused", "register", "panicked", "background",
                "ready", "close", "joinBg", "wait", "join", "done", "load", "recv", "reserved",
                "probe", "turn", "stop", "leave", "gone", "pop"} = {}

Spawner == {Owner, Monitor}

T == INSTANCE WaitGroup WITH Thread <- Spawner \cup Worker, count <- tCount, lock <- tLock, place <- tPlace
G == INSTANCE WaitGroup WITH Thread <- {Owner} \cup Bg, count <- bCount, lock <- bLock, place <- bPlace

tVars    == <<tCount, tLock, tPlace>>
bVars    == <<bCount, bLock, bPlace>>
jobVars  == <<closed, queue, job>>
spawnVars == <<left, slot, handles, live>>
poolVars == <<kind, kill, at, task, bg, spawnVars, taken, events, panics, jobVars, called>>
vars == <<poolVars, tVars, bVars>>

Goto(s, p)     == at' = [at EXCEPT ![s] = p]
TaskGoto(w, p) == task' = [task EXCEPT ![w] = p]
BgGoto(b, p)   == bg' = [bg EXCEPT ![b] = p]
Message == {"Panicked", "Stopped"} \X Worker

Building == at[Owner] \in {"spawn", "start", "refused", "register", "background"}

(* A thread has ended when its closure is done and its guard dropped. *)
WorkerEnded(w) == task[w] = "none" \/ (task[w] = "gone" /\ tPlace[w] = "out")
BgEnded(b)     == bg[b] = "none" \/ (bg[b] = "gone" /\ bPlace[b] = "out")

Init == /\ kind \in {"pool", "registry"}
        /\ kill = "unset"
        /\ at = [s \in Spawner |-> IF s = Owner THEN "spawn"
                                   ELSE IF kind = "registry" THEN "load" ELSE "none"]
        /\ task = [w \in Worker |-> "none"]
        /\ bg = [b \in Bg |-> "none"]
        /\ left = TaskThreads
        /\ slot = [s \in Spawner |-> None]
        /\ handles = {}
        /\ taken = [s \in Spawner |-> {}]
        /\ live = 0
        /\ events = <<>>
        /\ panics = 0
        /\ closed = "open"
        /\ queue = <<>>
        /\ job = [j \in Job |-> "new"]
        /\ called = {}
        /\ T!Init
        /\ G!Init

(***************************************************************************)
(* spawn_worker, by the owner or (after a panic) by the monitor.           *)
(***************************************************************************)

(* The guard is made and counted before the thread is started. *)
Reserve(s, w) == /\ at[s] = "spawn"
                 /\ task[w] = "none"
                 /\ \A v \in Worker : v < w => task[v] # "none"
                 /\ Goto(s, "start")
                 /\ TaskGoto(w, "reserved")
                 /\ slot' = [slot EXCEPT ![s] = w]
                 /\ T!Add
                 /\ UNCHANGED <<kind, kill, bg, left, handles, live, taken, events, panics, jobVars, called, bVars>>

Start(s) == /\ at[s] = "start"
            /\ Goto(s, "register")
            /\ TaskGoto(slot[s], "probe")
            /\ UNCHANGED <<kind, kill, bg, spawnVars, taken, events, panics, jobVars, called, tVars, bVars>>

\* The guard is leaked with the closure that never ran.
StartFailsLeaks(s) == /\ at[s] = "start"
                      /\ Goto(s, "refused")
                      /\ TaskGoto(slot[s], "none")
                      /\ slot' = [slot EXCEPT ![s] = None]
                      /\ UNCHANGED <<kind, kill, bg, left, handles, live, taken, events, panics, jobVars, called,
                                     tVars, bVars>>

(* The operating system refuses: the closure is dropped, its guard with it. *)
StartFails(s) == /\ at[s] = "start"
                 /\ Goto(s, "refused")
                 /\ TaskGoto(slot[s], "none")
                 /\ slot' = [slot EXCEPT ![s] = None]
                 /\ T!Done(s)
                 /\ UNCHANGED <<kind, kill, bg, left, handles, live, taken, events, panics, jobVars, called, bVars>>

(* initialize_pool expects a thread and panics; the monitor lets it go. *)
Refused(s) == /\ at[s] = "refused"
              /\ tPlace[s] = "out"
              /\ Goto(s, IF s = Owner THEN "panicked" ELSE "load")
              /\ UNCHANGED <<kind, kill, task, bg, spawnVars, taken, events, panics, jobVars, called, tVars, bVars>>

\* A step of the loop that counts the workers to start, one too many.
RegisterOneMore(s) == /\ at[s] = "register"
                      /\ handles' = handles \cup {slot[s]}
                      /\ live' = live + 1
                      /\ slot' = [slot EXCEPT ![s] = None]
                      /\ IF s = Monitor
                           THEN Goto(s, "load") /\ UNCHANGED left
                           ELSE /\ left' = left - 1
                                /\ Goto(s, IF left > 0 THEN "spawn"
                                           ELSE IF kind = "pool" THEN "background" ELSE "ready")
                      /\ UNCHANGED <<kind, kill, task, bg, taken, events, panics, jobVars, called, tVars, bVars>>

(* The handle is kept and the worker counted as live after its thread runs:
   it may have sent Stopped by then. *)
Register(s) == /\ at[s] = "register"
               /\ handles' = handles \cup {slot[s]}
               /\ live' = live + 1
               /\ slot' = [slot EXCEPT ![s] = None]
               /\ IF s = Monitor
                    THEN Goto(s, "load") /\ UNCHANGED left
                    ELSE /\ left' = left - 1
                         /\ Goto(s, IF left > 1 THEN "spawn"
                                    ELSE IF kind = "pool" THEN "background" ELSE "ready")
               /\ UNCHANGED <<kind, kill, task, bg, taken, events, panics, jobVars, called, tVars, bVars>>

(* BackgroundJobRegistry::new: count, then spawn, one worker after another. *)
SpawnBg(b) == /\ at[Owner] = "background"
              /\ bg[b] = "none"
              /\ BgGoto(b, "probe")
              /\ Goto(Owner, IF \A c \in Bg \ {b} : bg[c] # "none" THEN "ready" ELSE "background")
              /\ G!Add
              /\ UNCHANGED <<kind, kill, task, spawnVars, taken, events, panics, jobVars, called, tVars>>

SpawnBgFails == /\ at[Owner] = "background"
                /\ G!Add
                /\ Goto(Owner, "panicked")
                /\ UNCHANGED <<kind, kill, task, bg, spawnVars, taken, events, panics, jobVars, called, tVars>>

(***************************************************************************)
(* A task worker: block_on probes the kill signal between turns.  What it  *)
(* sends is read by the monitor only, and is not kept where there is none. *)
(***************************************************************************)
Send(what, w) == events' = IF kind = "registry" THEN Append(events, <<what, w>>) ELSE events

\* block_on that never asks for the signal.
ProbeIgnoresKill(w) == /\ task[w] = "probe"
                       /\ TaskGoto(w, "turn")
                       /\ UNCHANGED <<kind, kill, at, bg, spawnVars, taken, events, panics, jobVars, called, tVars, bVars>>

Probe(w) == /\ task[w] = "probe"
            /\ TaskGoto(w, IF kill = "set" THEN "stop" ELSE "turn")
            /\ UNCHANGED <<kind, kill, at, bg, spawnVars, taken, events, panics, jobVars, called, tVars, bVars>>

Turn(w) == /\ task[w] = "turn"
           /\ TaskGoto(w, "probe")
           /\ UNCHANGED <<kind, kill, at, bg, spawnVars, taken, events, panics, jobVars, called, tVars, bVars>>

TurnPanics(w) == /\ task[w] = "turn"
                 /\ panics < MaxPanics
                 /\ panics' = panics + 1
                 /\ Send("Panicked", w)
                 /\ TaskGoto(w, "stop")
                 /\ UNCHANGED <<kind, kill, at, bg, spawnVars, taken, jobVars, called, tVars, bVars>>

SendStopped(w) == /\ task[w] = "stop"
                  /\ Send("Stopped", w)
                  /\ TaskGoto(w, "leave")
                  /\ UNCHANGED <<kind, kill, at, bg, spawnVars, taken, panics, jobVars, called, tVars, bVars>>

(* The guard is dropped last, on every way out of the thread. *)
DropGuard(w) == /\ task[w] = "leave"
                /\ T!Done(w)
                /\ TaskGoto(w, "gone")
                /\ UNCHANGED <<kind, kill, at, bg, spawnVars, taken, events, panics, jobVars, called, bVars>>

(***************************************************************************)
(* Background jobs: submit, and worker_loop.  A panic of a job is caught   *)
(* and ends the job like any other.                                        *)
(***************************************************************************)
Submit(j) == /\ kind = "pool"
             /\ ~Building /\ at[Owner] # "panicked"
             /\ job[j] = "new"
             /\ IF closed = "closed"
                  THEN job' = [job EXCEPT ![j] = "rejected"] /\ UNCHANGED queue
                  ELSE job' = [job EXCEPT ![j] = "queued"] /\ queue' = Append(queue, j)
             /\ UNCHANGED <<kind, kill, at, task, bg, spawnVars, taken, events, panics, closed, called, tVars, bVars>>

BgProbe(b) == /\ bg[b] = "probe"
              /\ BgGoto(b, IF kill = "set" THEN "leave" ELSE "pop")
              /\ UNCHANGED <<kind, kill, at, task, spawnVars, taken, events, panics, jobVars, called, tVars, bVars>>

BgPop(b) == /\ bg[b] = "pop"
            /\ IF queue = <<>>
                 THEN BgGoto(b, "probe") /\ UNCHANGED <<queue, job>>
                 ELSE /\ queue' = Tail(queue)
                      /\ job' = [job EXCEPT ![Head(queue)] = "running"]
                      /\ BgGoto(b, Head(queue))
            /\ UNCHANGED <<kind, kill, at, task, spawnVars, taken, events, panics, closed, called, tVars, bVars>>

\* A job whose panic is not caught ends its worker.
BgRunUncaught(b) == /\ bg[b] \in Job
                    /\ job' = [job EXCEPT ![bg[b]] = "ran"]
                    /\ BgGoto(b, "leave")
                    /\ UNCHANGED <<kind, kill, at, task, spawnVars, taken, events, panics, closed, queue, called,
                                   tVars, bVars>>

BgRun(b) == /\ bg[b] \in Job
            /\ job' = [job EXCEPT ![bg[b]] = "ran"]
            /\ BgGoto(b, "probe")
            /\ UNCHANGED <<kind, kill, at, task, spawnVars, taken, events, panics, closed, queue, called, tVars, bVars>>

BgDropGuard(b) == /\ bg[b] = "leave"
                  /\ G!Done(b)
                  /\ BgGoto(b, "gone")
                  /\ UNCHANGED <<kind, kill, at, task, spawnVars, taken, events, panics, jobVars, called, tVars>>

(***************************************************************************)
(* LocalPoolHandle::kill, by any thread that got its handle from get_pool. *)
(***************************************************************************)
Kill == /\ kill = "unset"
        /\ kind = "pool" /\ ~Building
        /\ kill' = "set"
        /\ UNCHANGED <<kind, at, task, bg, spawnVars, taken, events, panics, jobVars, called, tVars, bVars>>

(***************************************************************************)
(* The owner: block_on waits for the workers first; shutdown, or the drop  *)
(* of the guard, signals, ends the background workers, waits and joins.    *)
(***************************************************************************)
Working == {w \in Worker : task[w] \in {"reserved", "probe", "turn", "stop", "leave"}}

BgWorking == {b \in Bg : bg[b] \in {"probe", "pop", "leave"} \cup Job}

BlockOn == /\ kind = "pool"
           /\ at[Owner] = "ready"
           /\ T!Enter(Owner)
           /\ UNCHANGED <<kind, kill, at, task, bg, spawnVars, taken, events, panics, jobVars, called, bVars>>

Shutdown == /\ at[Owner] = "ready"
            /\ tPlace[Owner] = "out"
            /\ kill' = "set"
            /\ called' = Working
            /\ Goto(Owner, IF kind = "pool" THEN "close" ELSE "wait")
            /\ IF kind = "pool" THEN UNCHANGED tVars ELSE T!Enter(Owner)
            /\ UNCHANGED <<kind, task, bg, spawnVars, taken, events, panics, jobVars, bVars>>

CloseJobs == /\ at[Owner] = "close"
             /\ closed' = "closed"
             /\ G!Enter(Owner)
             /\ Goto(Owner, "joinBg")
             /\ UNCHANGED <<kind, kill, task, bg, spawnVars, taken, events, panics, queue, job, called, tVars>>

JoinBg == /\ at[Owner] = "joinBg"
          /\ bPlace[Owner] = "out"
          /\ \A b \in Bg : BgEnded(b)
          /\ Goto(Owner, "wait")
          /\ T!Enter(Owner)
          /\ UNCHANGED <<kind, kill, task, bg, spawnVars, taken, events, panics, jobVars, called, bVars>>

(* join_all_threads, after the wait of shutdown or of block_until_done. *)
TakeHandles(s) == /\ at[s] = "wait"
                  /\ tPlace[s] = "out"
                  /\ taken' = [taken EXCEPT ![s] = handles]
                  /\ handles' = {}
                  /\ Goto(s, "join")
                  /\ UNCHANGED <<kind, kill, task, bg, left, slot, live, events, panics, jobVars, called, tVars, bVars>>

\* The handles are dropped, which detaches the threads.
JoinedAtOnce(s) == /\ at[s] = "join"
                   /\ Goto(s, "done")
                   /\ UNCHANGED <<kind, kill, task, bg, spawnVars, taken, events, panics, jobVars, called, tVars, bVars>>

Joined(s) == /\ at[s] = "join"
             /\ \A w \in taken[s] : WorkerEnded(w)
             /\ Goto(s, "done")
             /\ UNCHANGED <<kind, kill, task, bg, spawnVars, taken, events, panics, jobVars, called, tVars, bVars>>

(***************************************************************************)
(* block_until_done: listen_for_activity until it gives up, wait, join.    *)
(***************************************************************************)
Listen == /\ at[Monitor] = "load"
          /\ IF live = 0 THEN Goto(Monitor, "wait") /\ T!Enter(Monitor)
                         ELSE Goto(Monitor, "recv") /\ UNCHANGED tVars
          /\ UNCHANGED <<kind, kill, task, bg, spawnVars, taken, events, panics, jobVars, called, bVars>>

Timeout == /\ at[Monitor] = "recv"
           /\ events = <<>>
           /\ Goto(Monitor, "load")
           /\ UNCHANGED <<kind, kill, task, bg, spawnVars, taken, events, panics, jobVars, called, tVars, bVars>>

(* Stopped and Panicked both take the worker off; a panic may respawn one. *)
Respawns(e) == e[1] = "Panicked" /\ live - 1 < TaskThreads /\ kill = "unset"

\* listen_for_activity takes one more message before it looks at live again.
ReceiveAgain == /\ at[Monitor] = "recv"
                /\ events # <<>>
                /\ events' = Tail(events)
                /\ live' = live - 1
                /\ handles' = handles \ {Head(events)[2]}
                /\ Goto(Monitor, IF Respawns(Head(events)) THEN "spawn" ELSE "recv")
                /\ UNCHANGED <<kind, kill, task, bg, left, slot, taken, panics, jobVars, called, tVars, bVars>>

Receive == /\ at[Monitor] = "recv"
           /\ events # <<>>
           /\ events' = Tail(events)
           /\ live' = live - 1
           /\ handles' = handles \ {Head(events)[2]}
           /\ Goto(Monitor, IF Respawns(Head(events)) THEN "spawn" ELSE "load")
           /\ UNCHANGED <<kind, kill, task, bg, left, slot, taken, panics, jobVars, called, tVars, bVars>>

(***************************************************************************)

SpawnStep(s) == Start(s) \/ StartFails(s) \/ Refused(s) \/ Register(s)
                  \/ \E w \in Worker : Reserve(s, w)

WorkerStep(w) == Probe(w) \/ Turn(w) \/ TurnPanics(w) \/ SendStopped(w) \/ DropGuard(w)

BgStep(b) == BgProbe(b) \/ BgPop(b) \/ BgRun(b) \/ BgDropGuard(b)

OwnerStep == SpawnBgFails \/ (\E b \in Bg : SpawnBg(b)) \/ BlockOn \/ Shutdown
               \/ CloseJobs \/ JoinBg

MonitorStep == Listen \/ Timeout \/ Receive

Next == \/ \E s \in Spawner : SpawnStep(s) \/ TakeHandles(s) \/ Joined(s)
        \/ \E w \in Worker : WorkerStep(w)
        \/ \E b \in Bg : BgStep(b)
        \/ \E j \in Job : Submit(j)
        \/ Kill \/ OwnerStep \/ MonitorStep
        \/ /\ \E t \in Spawner \cup Worker : T!Step(t) \/ T!SpuriousWake(t)
           /\ UNCHANGED <<poolVars, bVars>>
        \/ /\ \E t \in {Owner} \cup Bg : G!Step(t) \/ G!SpuriousWake(t)
           /\ UNCHANGED <<poolVars, tVars>>

Spec == Init /\ [][Next]_vars

(* The operating system runs every thread; jobs and turns end.  No worker is
   owed a panic, no thread a spurious wake-up, and nobody is owed a kill. *)
Fairness == /\ \A s \in Spawner : WF_vars(SpawnStep(s) \/ TakeHandles(s) \/ Joined(s))
            /\ \A w \in Worker : WF_vars(WorkerStep(w))
            /\ \A b \in Bg : WF_vars(BgStep(b))
            /\ \A t \in Spawner \cup Worker : WF_vars(T!Step(t) /\ UNCHANGED <<poolVars, bVars>>)
            /\ \A t \in {Owner} \cup Bg : WF_vars(G!Step(t) /\ UNCHANGED <<poolVars, tVars>>)
            /\ WF_vars(OwnerStep)
            /\ WF_vars(MonitorStep)

FairSpec == Spec /\ Fairness

----------------------------------------------------------------------------

(* The places the threads can be in. *)
OwnerPlace   == {"spawn", "start", "refused", "register", "panicked", "background", "ready",
                 "close", "joinBg", "wait", "join", "done"}
MonitorPlace == {"none", "load", "recv", "spawn", "start", "refused", "register", "wait", "join", "done"}
WorkerPlace  == {"none", "reserved", "probe", "turn", "stop", "leave", "gone"}
BgPlace      == {"none", "probe", "pop", "leave", "gone"} \cup Job

ControlOK == /\ kind \in {"pool", "registry"} /\ kill \in {"unset", "set"}
             /\ at \in [Spawner -> OwnerPlace \cup MonitorPlace]
             /\ at[Owner] \in OwnerPlace /\ at[Monitor] \in MonitorPlace
             /\ task \in [Worker -> WorkerPlace]
             /\ bg \in [Bg -> BgPlace]

RegistryOK == /\ left \in 0..TaskThreads
              /\ slot \in [Spawner -> Worker \cup {None}]
              /\ handles \subseteq Worker
              /\ taken \in [Spawner -> SUBSET Worker]
              /\ live \in Int
              /\ panics \in 0..MaxPanics
              /\ called \subseteq Worker

QueuesOK == /\ events \in Seq(Message)
            /\ closed \in {"open", "closed"}
            /\ queue \in Seq(Job)
            /\ job \in [Job -> {"new", "queued", "running", "ran", "rejected"}]

TypeOK == ControlOK /\ RegistryOK /\ QueuesOK /\ T!TypeOK /\ G!TypeOK

(* waitgroup.rs: the count is the number of guards alive, whichever way a
   worker leaves (return, panic, or a thread that could not be started). *)
GuardsCounted == /\ tCount = Cardinality(Working)
                 /\ bCount = Cardinality(BgWorking)
                              + IF at[Owner] = "panicked" /\ left = 0 THEN 1 ELSE 0

(* PoolGuard::shutdown: once it joins, no worker that was counted when it was
   called still holds its guard (a worker respawned later may). *)
ShutdownWaited == at[Owner] \in {"join", "done"} => called \cap Working = {}

(* initialize_pool's guard: when shutdown returns, every thread of the pool
   has ended and no job is running. *)
PoolEnded == kind = "pool" /\ at[Owner] = "done" =>
               /\ \A w \in Worker : WorkerEnded(w)
               /\ \A b \in Bg : BgEnded(b)
               /\ \A j \in Job : job[j] # "running"

(* LockSignal: no waiter sleeps on a flag that says Released, except in the
   moment between the flag and the notification. *)
ReleasedWakes == T!ReleasedWakes /\ G!ReleasedWakes

(* listen_for_activity takes one off for Panicked and one for the Stopped
   that follows: the unsigned counter still never goes below zero. *)
LiveNeverWraps == live >= 0

(* A kill, from a handle or from the guard, ends every worker for good, also
   those that the monitor was about to respawn. *)
KilledWorkersEnd == kill = "set" ~> []((\A w \in Worker : WorkerEnded(w)) /\ (\A b \in Bg : BgEnded(b)))

(* BackgroundJobRegistry: a job that submit accepted runs, unless the pool is
   killed first. *)
AcceptedJobRuns == \A j \in Job : job[j] = "queued" ~> job[j] = "ran" \/ kill = "set"

(* panic_unwinding.md:61: the guard is dropped on every way out, "ensuring
   shutdown never hangs". *)
ShutdownReturns == at[Owner] \in {"close", "wait"} ~> at[Owner] = "done"

=============================================================================
