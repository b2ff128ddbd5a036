# A verification development of the valtron core

TLA+ modules that model the executor at the heart of this repository
(`backends/foundation_core`, *valtron*), the data structures and the thread pool
it stands on, a task that runs on it (the reconnecting client of server-sent
events), and the synchronisation primitives of `foundation_nostd`; the TLC
configurations that check them, and TLAPS proofs about them. Paths below are
relative to `backends/foundation_core/src/` unless they start with `src/`.

## 1. Inventory

The repository is a Rust workspace. `backends/` holds the maintained crates;
`crates/` an older generation; the rest is generated provider clients,
descriptions of cloud APIs, assets, examples and documents. What carries
protocol, shared state or scheduling is in `foundation_core`, and almost all of
it runs on valtron. Of the 2.7 million lines of Rust nearly all are generated
clients of cloud providers (`foundation_deployment/src/providers`), which hold no
state and take no step of their own: measured against all lines the modules
cover little, measured against the code with shared state they cover its core.

| Part | State it keeps | Operations | Interacts with | What makes it correct |
|---|---|---|---|---|
| Slot list `synca/entrylist.rs` | slots with generation and value, free stack, lent entries | insert, take, vacate, park, unpark, update, replace, select_take | owned by the executor (tasks) and by the sleepers | a handle is issued once, misses for ever once retired; no slot leaks or has two owners |
| Local executor `valtron/executors/local.rs` | task list, processing queue, packed map, sleepers, current task, share of the global queue | one turn (request, wake, work, settle), engine calls, driving loops | tasks call back into it in the middle of a turn; other threads fill the global queue | no task lost, duplicated, orphaned or starved; composites keep their order; nothing panics |
| Composites `valtron/executors/dependent_lift.rs` | a parent and a child task | next | polled by the executor, poll the two tasks | the lifted child ends first; a sequenced pair steps together |
| Adapters `do_next`, `on_next`, `collect_next`, `task_iters`, `wrappers` | a task under a mutex, result channel | next | turn task statuses into executor states, catch panics | every result is delivered and the channel closed |
| Spawn actions and builders `actions.rs`, `builders.rs` | none | one engine call each | called by tasks and owners | the right queue, once |
| Single-threaded pool `single/mod.rs` | a thread-local executor | run_once, run_until, run_until_complete, spawn | the owner of the thread | returns only when done |
| Thread pool `threads.rs`, `multi/`, `background.rs` | workers, kill signal, latch, waitgroup, activity channel | spawn, park, respawn, shutdown | many executors on one global queue | every worker ends on shutdown, shutdown returns |
| Thread signals `synca/event.rs`, `signals.rs`, `waitgroup.rs` | lock state, counters | lock, wait, signal, add, done | the pool | no lost wake-up |
| Sleepers, idle manager `synca/sleepers.rs`, `idleman.rs`, `retries/` | instants, counters | register, ripen, collect, increment | the executor | nothing sleeps too long or for ever |
| Channels `synca/mpp.rs` | a concurrent queue | send, receive, close | tasks and threads | nothing lost, close is seen |
| Streams and drivers `streams.rs`, `drivers.rs`, `unified.rs`, `future_task.rs`, `state_machine.rs` | iterator state | next | drive an executor while waiting for results | every item once, in order; ends |
| HTTP, WebSocket, SSE clients `wire/` | connections, fragments, reconnect state | request, assemble, reconnect | tasks on the executor | connections bounded and fresh; messages whole; retries bounded |
| `foundation_nostd` | spin locks, barrier, Once, condition variable | lock, unlock, wait | everything without std | exclusion, progress |
| `foundation_db`, `foundation_auth` | stores, sessions, tokens | get, set, refresh | back ends | isolation of namespaces, expiry |
| `foundation_ai`, `_wasm`, `_macros`, `_codegen`, `_openapi`, `_jsonschema`, `_deployment`, `crates/`, `bin/` | mostly none | pure functions, generated clients, foreign code | | see `PROJECT.json` for each |

Hard behaviours: other threads push and pop between two steps of a turn; a task
calls the engine while its own entry is parked; the answer of a step that
spawned is what links the child in, and a composite may discard that answer; a
sleeper ripens at any moment; three records (queue, packed map, sleepers) say
where an entry is and are written by different calls; values are read before a
poll and used after it (`remaining_tasks`, `current_task`). In the pool a worker
starts, panics, is respawned or is killed while another thread counts, waits or
joins; below it, each primitive is a handful of atomic operations between which
any other thread may run. A client's connection is lost between any two lines it
reads, and three records of the last event id decide what it asks for next. The
hazards in `PROJECT.json` name each at its line.

## 2. Modules

| Module | Models | Notes |
|---|---|---|
| `HandleMap` | what the slot list promises | abstract: a map with issue-once handles and lending |
| `EntryList` | `synca/entrylist.rs` | one action per method; implements `HandleMap` |
| `EntryListProofs` | | theorems about `EntryList` |
| `LocalExecutor` | `local.rs`, `dependent_lift.rs`, and what `do_next.rs`, `on_next.rs`, `actions.rs`, `builders.rs`, `single/mod.rs`, `sleepers.rs` and `threads.rs` do to an executor | one action per step of a turn at which something can interfere |
| `MCLocalExecutor` | | the sets of task steps the runs choose from |
| `MCExecutorOwners` | | two programs that own an executor, each an instance of `LocalExecutor`, for one run |
| `LocalExecutorProofs` | | theorems about `LocalExecutor` |
| `WaitGroup` | `synca/waitgroup.rs` over `synca/event.rs` | one action per atomic operation or critical section |
| `ThreadPool` | `threads.rs`, `multi/mod.rs`, `background.rs`, the kill side of `synca/signals.rs` and `local.rs` | composes two `WaitGroup`s with the workers, the owner and the monitor |
| `MCThreadPool`, `ThreadPoolProofs` | | constants of the runs; theorems about the pool and its wait groups |
| `Threads`, `ThreadsProofs` | | the threads that share a primitive, and lemmas that count them |
| `ReadWriteLock` | what a read-write lock promises | abstract: who has a guard |
| `SpinRwLock` | `spin_rwlock.rs`, `raw_spin_rwlock.rs`, `reader_spin_rwlock.rs` | one action per load, compare_exchange, fetch and store; implements `ReadWriteLock` |
| `SpinBarrier` | `barrier.rs` | |
| `SpinCondVar` | `condvar/nostd_impl.rs` | the condition variable, its mutex, a consumer and a producer |
| `OnceLock` | `once.rs`, `once_lock.rs` | |
| `MCPrimitives` | | the primitives in one run |
| `SpinRwLockProofs`, `BlockingProofs`, `PrimitivesProofs` | | theorems about the locks; about the barrier, the condition variable and `Once`; about `MCPrimitives` |
| `EventFormat` | `wire/event_source/core.rs`, `writer.rs`, the builder in `parser.rs` | the lines of an event, and what is collected from them |
| `EventSource` | `reconnecting_task.rs`, `task.rs`, `parser.rs` of `wire/event_source/`, the limit in `retries/exponential.rs` | composes the client's three layers with a server and a link |
| `MCEventSource`, `EventSourceProofs` | | the server's events; theorems about the client |

**EntryList.** The queries `get`, `get_mut` and `has` are `Resolves`; `Current` is the
comparison of generations that every call makes first. `not_valid` changes nothing
and is not modelled (it answers false for a slot that was never allocated). `items`, `free` and `packed` are the three vectors of the struct
(`free_entries` is popped at its end). `asked` and `result` are the handle of the
last call and the values it handed back, so that the refinement says what a
caller sees. Every call may come with every handle that can be named: current,
retired, lent, free, or of a slot never allocated; a call that finds nothing is
a `Miss`. `update_packed` is public but only `unpark` calls it: it is the part
`FillsEmpty` of `Unpark`.

**LocalExecutor.** `local` is the task list, `processing`, `packed` and `asleep`
the queue, the packed map and the registered sleepers, `global` the queue shared
with other threads. A composite is a stack of layers: lifting a child puts a
`finish` layer on top, sequencing a `dual` one, so that nested composites are
longer stacks and one call of `next` walks down the stack. A turn is cut where
something can interfere or where the code calls out:

    outside -> turn -> wake -> work -> poll... -> dispatch -> settle -> (spin) -> loop
               Request Wake    PickTop Poll*      Discard     Settle*   SpinSchedule
                               Nothing-           Requeue
                               ToRun              Sleep Compose

`Request` is `request_global_task` with `schedule_next`, `Wake` is
`wakeup_ready_sleepers`, `PickTop` and the five dispatch actions are `do_work`,
the settle actions the rest of `schedule_and_do_work`, `Loop` the driver.
Between any two of them another thread may `Submit` and a sleeper may `Ripen`.
A task is known by what one call of its `next` does: an engine call, if any, and
the State it returns. `AllMoves` lists what the adapters can produce.
Three things are kept only for the properties: `fate` (what became of a task),
`fuel` (how many steps it has left) and `lifter` (who waits for it).

Entries are numbered in the order they are issued. That an entry is never issued
twice is the promise of `HandleMap`, which `EntryList` is shown to implement.

**WaitGroup.** `count` is the atomic counter, `lock` the three-valued flag of
`LockSignal`, `place` where a thread is inside `wait` or `done`. `wait` is
`Enter`, `Load` (the read of the count), `Lock` (which sets the flag to Locked
whatever it was), `Check` and sleep, and from the top again; `done` is `Done`,
and for whoever brings the count to zero `Release` and `Notify`. A condition
variable may also wake a thread for no reason (`SpuriousWake`).

**ThreadPool.** `T` is the wait group of the task threads, `G` that of the
background workers. A task thread goes through `Reserve` (a slot and a guard),
`Start` (the thread exists) and `Register` (its handle is in the registry), and
then works: `Probe` of the kill signal, `Turn` or `TurnPanics`, `SendStopped`,
`DropGuard`. A background worker is `SpawnBg`, `BgProbe`, `BgPop`, `BgRun`,
`BgDropGuard`. The owner builds the pool, submits, kills, blocks or shuts down
(`Shutdown`, `CloseJobs`, `JoinBg`, the wait of `T`, `TakeHandles`, `Joined`);
the monitor is `block_until_done`, which listens (`Receive`, `Timeout`) and
respawns panicked workers. `StartFails`, `SpawnBgFails` and `Refused` are the
error paths of `std::thread`'s `spawn`.

**The primitives.** In all four a place says between which two atomic operations
a thread is, and `...Seen` what it loaded. In `SpinRwLock` the word is a record of
its bit fields, compared and replaced as a whole; `rwKind` says which of the three
locks it is, because they differ in two steps only: whether readers heed the
waiting flag, and how a writer sets it. In `SpinBarrier` exactly `num_threads`
threads come again and again, which is what the constructor asks for; with more
of them a count can pass it, and then the barrier opens early. In `SpinCondVar`
`wait`, `wait_while` and the timed ones share their steps; a timeout may come at
any spin. In `OnceLock` the use is "plain" (`get_or_init`, which is `call_once`) or
"forced" (`set` and `get_or_try_init` too, which are `call_once_force`). The poison
flags of locks and mutex are left out: no guard ever sets one, although the
module documentation says that a panic does. `MCPrimitives` puts the four next
to each other; each execution uses one.

**EventSource.** A `ReconnectingEventSourceTask` (`state`) owns an
`EventSourceTask` (`inner`), which owns an `SseParser` (`builder`, `parserId`). A
call of `next_status` of the outer task is `Create`, `Sleep`, or a call of the inner
one; `parse_next`, which reads until it has something to hand on, is cut into one
step per line (`ReadField`, `ReadBlank`, `ReadComment`, `ReadCut`, `ReadEnd`,
`ReadFails`), so that the connection may be lost after any of them. What the
inner task hands on is tracked in the same step (`Dispatch`, `Received`), and its
failure is decided on in the same step (`InnerFails`: `BackOff` or `GiveUp`). The
server is external: it sends the events of `Log` in order, starting after the
`Last-Event-ID` of the request. An event is known by its number, which is also its
id. A retry together with data never comes from this crate's `SseEvent` builder, and
a comment within an event never from its `EventWriter`, but the client reads both
from any server.

A comment may come after any line. `parse_next` returns it at once and its builder is
a local variable, so `ReadComment` empties `builder`: the id, the retry and the data
collected of the event are lost, and what follows of it is a message of its own, or
none if no data follows. The parser's id changes only when a message is dispatched,
so a lost id is asked for again by no request. The properties state what is left
of the promise: the loss stays within the event that the comment stood in.

`delivered` (each message as the builder had it), `failed`, `resumed`, `interrupted`
(the events within which a comment came), `comments` and `waited` are kept only for
the properties; of them only `comments` restricts a step, by the bound
`MaxComments` on comments within events (those between events are not bounded).
`MaxComments = 0` is a server that uses `EventWriter`.

## 3. What the runs check

| Run | Configuration | Question |
|---|---|---|
| `entries` | 3 slots, 3 generations, 2 values; every call with every handle | `SlotPartition`, `RetiredStaysRetired`, and the refinement `HandleMapSpec` |
| `steps` | 3 tasks of up to 2 steps, global queue of 2, fair executor and time, and one of two owners: a worker (`block_on`, other threads), or `block_until_finished` on local spawns | no task lost or duplicated, none orphaned whose spawn was answered (`NothingOrphaned`; a lost answer is what `bad_orphan` shows); children first; nothing panics; the global queue waits; a task costs at most two entries (`EntriesBounded`); every task ends (`EveryTaskEnds`); `block_until_finished` returns only when nothing is left (`StopsOnlyWhenDone`) |
| `any` | 3 tasks of up to 2 steps, every engine call with every State, `run_until`, woken tasks at the bottom, calls of the owner between turns | the queue, the sleepers, the packed map and the task list agree whatever tasks do; a live task is removed only with one that failed (`DropsOnlyAfterFailure`) |
| `pool` | two task threads and a third that replaces a panicked one, one background worker, two jobs, one panic; kill, shutdown and `block_until_done` at any moment | guards are counted on every way out; shutdown waits for and joins what it must (`ShutdownWaited`, `PoolEnded`); nobody sleeps on a released signal (`ReleasedWakes`); `live_threads` does not wrap; a kill ends every worker (`KilledWorkersEnd`); accepted jobs run (`AcceptedJobRuns`) |
| `nostd` | 3 threads, 2 readers at most, 3 rounds of the barrier, 2 items | the locks exclude and implement `ReadWriteLock`, and no flag shuts readers out for good; the barrier keeps its threads together and lets them go; no wake-up is lost; `get_or_init` initialises once and for good |
| `sse` | six events of every shape, comments anywhere (two within events), 1 retry, 3 refused or lost connections, a deadline, the stream ending anywhere | events that no comment stands in arrive in order and whole, those received with their id once, and a comment or an end of the stream damages its own event only (`ExactlyOnce`); the client gives up after its retries and, but for the deadline and the end of the stream, not before, and waits for a retry it has just been given (`RetriesKept`); every event arrives unless a comment stands in it, the stream ends, or the client gives up (`EveryEventArrives`) |

Six further runs each show one statement of the documentation that the code
does not keep; `PROJECT.json` quotes the lines.

| Run | What happens |
|---|---|
| `bad_orphan` | a sequenced parent lifts; the composite discards the answer that would have linked the child in; the child never runs, counts as active, and the executor never looks at the global queue again |
| `bad_wait` | a worker drops the last guard between the waiter's read of the count and its lock of the signal; Locked overwrites Released, the notification has found nobody, and `shutdown` sleeps for ever |
| `bad_once` | an initialiser fails and poisons the lock; the next `get_or_try_init` skips its own initialiser and completes the lock all the same, and `get` hands out memory nobody has written |
| `bad_comment` | a comment stands between two lines of an event; `parse_next` returns it and drops what it has collected, and a part of the event is delivered on a healthy connection, where the feature description says that comments are ignored |
| `bad_retry` | an event with a retry is followed by a loss, a reconnection that brings events without one, and another loss: the old retry still replaces the backoff, where the feature description says "NEXT reconnection only" |
| `bad_eof` | the server ends the stream; the client stops, where the module documentation of `reconnecting_task.rs` says that it comes back after "EOF or error" |

Also met, without a run. Two tasks are broadcast on the single-threaded pool:
`run_until_complete` returns after the first, because `do_work` (`local.rs:953`)
answers NoWork for the last *local* task and `block_until_finished` takes one NoWork
for the end; its documentation (`local.rs:1950`) says that it "will continue to execute
the executor till the task is ideally finished and no more work remains". The property
is `StopsOnlyWhenDone`, and it fails with `OutsideCalls = {"broadcast"}`,
`Others = FALSE` and `Driver = "until_finished"`. An action that lifts without a parent
makes `do_work` unwrap a parent that is None (`local.rs:780`, `local.rs:1160`), where the
documentation of `lift` makes the parent optional: `NoCrash` fails as soon as `Moves`
has `<<"lift_alone", "lifted_alone">>`. A sequenced parent that answered Done is polled again
while its child goes on; a lifted child that panics is removed together with the
parent that waited for it; a writer of the writer-preferring locks loses its
waiting flag when another writer gets in or out, and readers pass it;
`call_once_force` takes RUNNING for a state it may leave, so that two
initialisers run at once; `RawOnce` stays RUNNING for ever after a panic, and
`wait_timeout_while` starts its timeout anew after each wake-up; a waiter on
`LockSignal` that has been woken may find that a third thread has locked the flag
again, and goes back to sleep (`ReleasedWakes` is about the notification only). In the
client of server-sent events: what `SseEvent::retry` makes is an event without data,
which the parser drops together with its retry, and a stream that ends within an
event delivers the part that has come, with its id.

The passing properties are silent where a violation run shows that code and
documentation disagree: `GivesUpInTime` takes the end of the stream for a reason to
stop (`bad_eof`), `WaitsAsTold` speaks of the wait after a retry only and not of later
ones (`bad_retry`), and `ExactlyOnce` excepts the event that a comment stands in
(`bad_comment`). `NothingOrphaned` is checked with the steps whose State reaches
`do_work` (`bad_orphan` shows the others), and `UnfailedIsInitialised` as long as no
initialiser fails; it does not speak of two forced initialisers that run at once.

### Bounds, and why they are enough

- Three tasks: a running task, one it lifts and one lifted over both make the
  deepest composite whose control differs (a stack inside a stack); at the same
  time the third can be in the global queue or asleep. Run by hand with four
  tasks of two steps (15 million states), the safety properties of `steps` hold too.
- `Fuel`: two steps let a task sleep or spawn and come back for what follows. Run
  by hand with three steps (880 thousand states), they hold too.
- A global queue of 1 or 2 is full, empty and contended within reach; the
  unbounded queue of the single-threaded pool is one whose bound is not reached
  (`GlobalCap` not below the number of tasks).
- 3 slots with 3 generations: two slots can be free, lent or live in every
  combination while the third is reused twice, which is what the order of the
  free stack and the generations need.
- `steps` leaves out what the code mishandles
  (a lift or sequence in a State a composite discards, a spawn action that lifts
  without a parent, a spawn by a task's last step under
  `block_until_finished`): `bad_orphan` and the paragraph above show what it does,
  and `any` keeps it all. The sets are in `MCLocalExecutor`. Its two owners are
  two instances of `LocalExecutor` in `MCExecutorOwners`; with `block_on`, which
  never gives control back, `StopsOnlyWhenDone` says nothing, and with
  `block_until_finished` there are no other threads.
- `any` turns the deadlock check off: there the executor may panic, and then
  stops.
- `pool`: two task threads are what `ThreadRegistry` insists on, and both are in
  every pair of states; the third worker slot is the respawn. One background
  worker with two jobs has a job behind a job. One panic is enough for the double
  count of Panicked and Stopped. `bad_wait` has two task threads as well, although the
  race is one of the last worker with the waiter.
- `nostd`: three threads are a holder and two that race for what it gives back,
  or a writer that waits while two readers come and go; with at most two readers
  the limit is reached. Three rounds let a fast thread be a round ahead twice.
  Two items wake a waiter for an item that another one takes.
- `sse`: the six events have every combination the client tells apart (with and
  without id and retry, one line, several, none), an event without an id between
  two with one, and a retry that an older one precedes. One retry is used up by two
  losses in a row, so three losses allow a recovery before it; two comments can
  stand in one event or in two, before and after its id. `MaxBreaks` bounds losses
  only; the deadline may pass at any moment. The `bad_` runs have the same events and
  losses, one comment or none, and no deadline.
- `pool`, `nostd` and `sse` turn the deadlock check off: a pool that has been shut
  down, a barrier whose rounds are over, a lock that is initialised, and a client
  that has stopped do nothing more.

### Fairness

`steps` and `bad_orphan`: weak fairness of `Turn`: the executor is a
thread in a loop, or an owner that keeps driving it. Weak fairness of `Ripen`:
time passes. Nothing is assumed of those who submit and spawn. The choice of what
a task does is not fair: it ends because its steps are bounded by `Fuel`. A task
that answers Pending for ever keeps the front of the queue and starves all
others; that is the policy of the code (it is pushed to the front), not checked.

`pool` and `bad_wait`: weak fairness of what each thread of the pool does next,
since the operating system runs every thread: the workers (jobs and turns end), the
steps inside `wait` and `done`, the thread that listens to the registry, and the
owner, which keeps calling `block_until_done` or shuts down (a guard that is held
is dropped in the end). Nobody is forced to submit a job, to set the kill signal
or to panic, and no condition variable wakes by itself.

`nostd`: weak fairness of the steps inside the barrier (and of coming to it, which
a barrier presupposes), of notifying and waking, and of the calls of `Once`. Timeouts
are not fair. Nothing is claimed about progress of the read-write locks: a thread
whose compare_exchange always loses may spin for ever.

`sse`: weak fairness of the client's steps: the executor calls the task again
while it has not ended, its pauses end, and a server with events to send sends
them on an open connection. No loss, comment, end of the stream or passing of the
deadline is ever forced.

## 4. What is proved

For every number of slots, generations, values and tasks, every bound, every set
of task steps and every driver:

- `EntryListProofs`: `TypeCorrect`, `PartitionCorrect`, `RetiredCorrect`,
  `HandleMapCorrect`.
  `TypeOK /\ SlotPartition` is inductive: the free stack and the lent list hold
  current handles of empty slots, each slot once. Without it `insert` could
  derive a used generation from a stale entry on the stack. That a retired handle
  stays retired is then a fact about single steps: a slot is filled only with a
  later generation, or under the handle that was lent. The refinement of
  `HandleMap` rests on the same invariant. Under the mapping of `HM` every call is
  the abstract call of the same name (`InsertMap`, `CallMap`, `SelectMap`): filling or
  emptying the slot of a current handle changes the map at that handle alone
  (`StoredMap`), the next generation of a slot is a handle never issued and
  replaces the slot's last one (`IssuedMap`), and the pass of `select_take` over
  the slots is an order of the handles it removes.
- `LocalExecutorProofs`, the state: `QueueCorrect` and `TypeCorrect`.
  `QueueSound` is not inductive alone. The invariant `IInv` says where the
  entries in the queue and the sleepers may come from: queued and sleeping
  entries are disjoint, distinct and in the task list, none is beyond `issued`,
  and neither the entry in hand nor the child of a pending spawn is among them.
  Every engine call preserves it although it runs in the middle of the poll.
  That the packed entries are the sleeping ones is inductive: only `Wake` and
  `Sleep` touch either record.
  `TypeOK` needs both, and what `PollTyped` adds about the poll: the layer polled
  is one of the stack in hand, a poll that has its State already is past a layer
  that stays (so the stack `Requeue` and `Sleep` store has a layer left, and a
  child that ends last leaves its parent), and no State is left over from an
  earlier poll. The three together are `TypeInv`, on which what follows rests.
- `LocalExecutorProofs`, for any steps of the tasks:
  - `GlobalOnlyWhenIdleCorrect` is a fact about single steps that needs `IInv`: only
    `Acquire` shortens the global queue, when no entry is active, and an entry in
    the queue is active, as it has a task and does not sleep.
  - `EntriesBoundedCorrect`, by counting (`EntriesInv`): two entries are kept back
    for each unborn task, one for each task still in the global queue, and one for
    the composite of a child that is yet to be linked in. An unpark issues none.
  - `HeldOnceCorrect`. `HeldInv` states without cardinalities what "one place"
    means: `Placed` relates the tasks of the global queue, of the stack in hand and
    of each local stack, the unborn and the live, and one small lemma each shows
    that spawning, taking, putting back, joining and ending keep it. It covers
    tasks that have ended but are kept by a composite, and it needs that no stack
    has a task twice and that a child is one plain layer until it is linked in.
  - `DropsCorrect`: `do_work` removes an entry with everything that was linked into
    it, also a parent whose child panicked. `DropInv`: only the last layer of a
    stack is "base", so an end that is not a failure is answered only by a stack of
    one task (elsewhere the composite discards it and goes on), and the failed task
    whose State a composite passes on stays first in the stack until it is removed.
- `LocalExecutorProofs`, under a hypothesis about the constants:
  - `NoCrashCorrect`, if `ParentsNamed`: the owner makes no lift with a parent between
    turns, and no task answers Lifted without one. Both really end in a panic
    (a lift without a parent, and `LiftOutside`). `CrashInv` adds that the executor waits for
    its sleepers only with an empty queue.
  - `OrphanCorrect`, if `ChildrenNamed`: a child is inserted only by a step whose
    State names it. `OrphanInv` says that there is a child exactly as long as the
    State to be dispatched will link it in. Without the hypothesis the entry is
    lost, as `bad_orphan` shows.
  - `ChildFinishesFirstCorrect`, if `LiftsAnswered`: no child is lifted by a step whose
    State a composite discards. `LiftInv`: the lifter of a live child is `Behind` it,
    in a stack where a "finish" layer of the child comes first, or in hand while the
    child is yet to be linked over it; and every layer that a poll has passed is a
    "dual" one. A running task behind its child would be in two places, which
    `HeldInv` excludes, or the poll would have passed the child.
  - `StopsOnlyWhenDoneCorrect`, if `SpawnsLocally` and `ChildrenNamed`: nothing reaches
    the global queue (with a task there the loop stops too early, see section 3), and
    neither a last step nor a discarded one spawns. `do_work` judges by the length
    the queue had before the poll; `StopInv` says that this is still its length
    where that matters.

  The constants of `steps` satisfy the first three hypotheses, those of the
  owner that calls `block_until_finished` all of them.

- `ThreadPoolProofs`: `TypeCorrect`, `GuardsCorrect`, `ShutdownWaits`, `LiveCorrect`,
  `WakeCorrect`, `PoolEnds`, for every number of workers, jobs and panics. Types
  need to know who owns a slot (`SlotsOwned`: a thread inside `spawn_worker` has a
  slot nobody else has). The counts of both wait groups are the cardinalities of
  the sets of workers with a guard; that shutdown waits follows because a wait
  returns only on a count of zero and workers that were counted when it began
  can only leave. `live_threads` stays positive where it is decremented because
  `listen_for_activity` reads it before each receive and ends at zero.
- `SpinRwLockProofs`: `RwTypeCorrect`, `RwExclusive`, `RwImplements`, `RwNotShutOut`.
  The inductive invariant says that the word counts the read guards
  (`WordCounts`), that a writer's word shows it and no readers (`WriterAlone`), and
  that what a thread is about to compare the word with had room for it
  (`SeenFits`), so that equality at the compare_exchange carries over. Every step
  is then a step of `ReadWriteLock` or changes no guard.
- `BlockingProofs`: `BarrierTypeCorrect`, `BarrierKeepsTogether`. While nobody leads,
  the count is the number of threads waiting for the current generation
  (`Counted`); whoever brings it to the number of threads has therefore found all
  the others waiting (`Leading`), and they are level with it or one round behind
  on their way out (`Level`).
  `CvTypeCorrect`, `CvCounts`, `CvWakes`: on its way into `wait` a
  thread holds the mutex and there is no item (`NothingThere`), and nobody has
  read a generation yet to come (`SeenPast`): an item comes later, its notifier
  finds the waiter counted, and the generation moves past what the waiter read.
  `PlainCorrect`, `UnfailedCorrect`, `PlainStays`: without
  `call_once_force` whoever initialises owns RUNNING; with it, as long as nobody
  has failed nobody meets POISONED, and whoever is about to store COMPLETE has
  written.
- `PrimitivesProofs`: `PrimitivesTypeCorrect`, `PrimitivesCorrect`. A step of
  `MCPrimitives` is a step of one primitive that leaves the others alone, so every
  execution of it is one of each primitive's own specification (`EachRuns`), and
  what is proved of each holds of what the run checks.
- `EventSourceProofs`: `SseTypeCorrect`, `SseExactlyOnce`, `SseRetriesKept`, for every
  log, number of retries, losses and comments, wherever the comments stand. The
  inductive invariant `IInv` says that the builder holds some of the lines read of the
  event being sent, and exactly all of them if no comment has come within it
  (`BuilderFollows`, with `Fragment` and `Collected`); that everything with data before
  that event has been delivered or interrupted, and every message is a part of
  its event (`DeliveredSoFar`); that the ids kept are those of delivered events and lie
  below the event being sent as long as more can come (`Position`); that the attempts
  are the connections lost in a row, and the retry in force is the last one
  delivered (`LastRetry`). A connection that breaks throws the builder away with its
  parser, and the next one starts after `lastId`: nothing received with its id comes
  again, and nothing is left out. A comment throws the builder away too, but goes
  on within the event (`CommentStep`): what has been delivered stays as it was, and
  what is still to come of the event is a part of it.

The assumptions are the named ASSUMEs of the modules (constants are of the
kind the comments say; the threads of a primitive are finitely many). The
arguments use the definition of `Spec` only: they hold for the steps that lead to
the panics as well, up to the panic.

Only model-checked is what is liveness under fairness and so out of the prover's
reach: `EveryTaskEnds`, `KilledWorkersEnd`, `AcceptedJobRuns`, `BarrierReturns`,
`WaiterWakes`, `PlainReturns`, `EveryEventArrives`. Every invariant, action
property and refinement of a passing run is stated by a theorem.

## 5. What is not modelled, and the plan

Abstracted in the modules above: durations (only the order in which sleepers
ripen), the counters of `IdleMan` (its answer is a pause or none), the result
channels of consuming iterators, argument checks of the builders. `ThreadPool`
stands for an executor's turn by one step, and leaves out the registry of
`ThreadRef`s, `idle_threads` and the latch, which nothing reads, and the pause of
an idle worker. Not in `EventSource`: bytes (a line comes whole or cut), the idle
timeout, which the reconnecting task never sets, a start from a given id, and the
headers and body of the request. Not in the primitives: weak memory (the orderings pair an Acquire
with a Release around every critical section), the spin mutexes, `RawOnce`, the
atomic cell, option and flag, and the no-op variants for one thread.

Plan, in order of weight:

1. `Sleepers`: instants with their width, minimum and maximum, the priority of
   wakers; `IdleMan` and the retry deciders as operators against a reference.
2. `Channel` (mpp) and the consuming iterators on it; the drivers that wait for
   results; an abstract scheduler that `LocalExecutor` implements.
3. `ConnectionPool`, `MessageAssembler` and the reconnecting task of `wire/websocket`.
4. `NamespacedStore` and the session life cycle.
5. Proofs: that a task that has ended keeps its fate; that the abstract scheduler
   of item 2 is implemented.

Not planned: generated provider clients, schema and code tooling (pure
functions), foreign bindings, assets, byte-level parsers and cryptography.
