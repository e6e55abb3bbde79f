# TLA+ models of the TraceForge execution engine and `sync::Notify`

This directory holds TLA+ models of the execution core of TraceForge (a
deterministic model checker for message-passing Rust programs) and of its
`Notify` primitive, with the TLC configurations that check them. The
sources modelled are:

- `src/traceforge/src/runtime/execution.rs`: `Execution::run`/`step` and
  `ExecutionState`.
- `src/traceforge/src/sync/notify.rs`: `Notify` and `Notified`.
- `src/traceforge/tests/sync/notify.rs`: the four `Notify` tests.

## 1. Inventory

### Components and their state

| Component | Source | State | Operations |
|---|---|---|---|
| Execution driver | execution.rs 27-164 | the driver thread's position in `run`/`step`; the cloned continuation handle; the failure it raises | `run` (spawn main, loop `step`, `cleanup`); `step`: Phase A (schedule, advance, match), Phase B (`resume` under `catch_unwind`), Phase C (finish / yield / re-raise panic) |
| ExecutionState | execution.rs 166-445 | `tasks` (registry; TaskId = index), `current_task`, `next_task` (`ScheduledTask` = None / Some(t) / Stopped / Finished), `has_cleaned_up` | `schedule`, `advance_to_next_task`, `maybe_yield`, `spawn_thread`, `cleanup`, `next_pos`/`prev_pos`/`curr_pos`, `failure_info`, `current`/`get`/`try_get` |
| Scoped state access | execution.rs 14-18, 217-246 | the `EXECUTION_STATE` scoped TLS slot and its `RefCell` borrow | `with`, `try_with` |
| Task / Continuation | runtime/task.rs (not in the sources) | runnable/blocked, finished, instruction counter, a stackful continuation | `from_closure`, `runnable`, `finish`, `resume` |
| Strategy (`Must`) | external | the exploration state | `next_task(runnable, last)`, `to_thread_id` |
| Failure capture | execution.rs 120-159, 327-342; runtime/failure.rs (not in the sources) | the panic hook | `failure_info`, `persist_task_failure` |
| Notify | notify.rs | `state` (latch 0/1), `waiters` (Vec of oneshot senders) | `new`, `notify_one`, `notified`; `notify_last`, `notify_waiters`, `const_new` are `unimplemented!()` |
| Notified | notify.rs 16-20, 75-115 | optional oneshot `receiver` | `poll_notified` / `Future::poll` |

### How they interact

The driver asks `ExecutionState::schedule`, which consults the Strategy, for
a runnable task, and advances `next_task` into `current_task`. It then
resumes that task's continuation outside the state borrow. User code reaches
the state through `with`. There it spawns tasks, marks tasks blocked or
runnable through sync primitives, and calls `maybe_yield` at scheduling
points. `maybe_yield` runs the scheduler early and leaves its choice in
`next_task`, and the next `step` uses that choice without scheduling again.
When resume returns, the driver does one of three things:

- On `Ok(true)` it finishes `current_task`.
- On `Ok(false)` it loops.
- On a panic it asks `failure_info` for the current task and re-raises.

When no task is runnable, the driver reports a deadlock if any task is
unfinished. Otherwise it stops, and `cleanup` drains the registry.

`Notify` is shared between tasks. `notify_one` pops a waiter's oneshot
sender and sends `true`, or latches `state = 1` when no one waits.
`poll_notified` first tries to take the latch (CAS 1→0). On its first poll it
registers a oneshot, and it then polls its receiver.

### What is hard here

- Scheduling interleavings chosen by an arbitrary Strategy, including
  choices made early in `maybe_yield` and consumed later by `step`.
- State that acts on `current_task` rather than on the task resumed
  (`finish`, `failure_info`).
- The end of an execution: classifying "completed", "deadlock" and "stopped",
  cleanup's assertions, and the absorbing `Stopped`/`Finished` states.
- In `Notify`, the interplay of the single-slot latch with the waiter queue
  and with re-polls of an already registered `Notified`. This covers lost
  wake-ups, wake-up order and deadlocks of test programs.

### What makes each component correct

- **Engine:**
  - While a continuation runs, `current_task` is that task and no choice is
    pending.
  - Only runnable tasks are dispatched.
  - Only the resumed task is finished.
  - A deadlock is reported exactly when no task is runnable and some task is
    unfinished.
  - Cleanup's assertions never fire, and the Drop of `ExecutionState` finds
    cleanup done.
  - `Stopped` and `Finished` are absorbing.
  - Every execution ends.

  Together these are stated as a refinement of `ExecutionAbstract`.
- **Notify:**
  - Notifications are conserved. Every `notify_one` that a set latch does
    not absorb has woken a `Notified`, is still latched, or waits in the
    oneshot of a live `Notified`. None is lost and none is made up.
  - The latch is never set while a waiter is queued, on any clone.
  - The latch holds at most one notification.
  - Every queued sender belongs to a live `Notified` not yet sent to.
  - Each `Notify` object refines `NotifyAbstract` (one permit, waiters,
    grants).
  - Waiters are woken in FIFO order, as the spec states.
  - The repository's tests pass in every interleaving.

The hazards these properties target are listed, each at its source line, in
`PROJECT.json` under "hazards".

## 2. Modules

| Module | Models | Composes |
|---|---|---|
| `Execution` | `ExecutionState` and the driver. Variables `tasks`, `current_task`, `next_task` are the struct's fields. `phase` is the driver thread's position (init / choose / running / cleanup / done / failed). `resumed` is the continuation `step` cloned. `failure` is the panic raised. `blame` is what `failure_info` names. Actions `Run`, `Step`, `Cleanup`. Operators `Schedule`, `MaybeYield`, `SpawnThread`, `Yielded`, `Returned`, `Panicked`, `NextPos`, `PrevPos` are for user code. Also holds the refinement mapping onto `ExecutionAbstract`. | — |
| `ExecutionAbstract` | What one execution promises: one running task, dispatch only of runnable tasks, only the running task finishes, and the outcome completed / deadlock / stopped / panicked. | — |
| `ExecutionGeneric` | The engine driving arbitrary user code. A resumed task may `spawn_thread`, `maybe_yield`, `next_pos`, `prev_pos`, block itself and yield, wake a blocked task, return, or panic. Each task makes at most `MaxOps` such calls. | `Execution`, `ExecutionAbstract` |
| `Notify` | `Notify::new`, `notify_one`, `Notified::poll_notified`, the derived `Clone`. `state[h]` is the latch of handle `h` (the constant `Handles`: each a `Notify::new`, or a clone of one). `arc[h]` names the waiters `Arc` handle `h` uses, and `waiters[o]` is the `Vec` behind `Arc` `o`, shared by a handle and its clones. A `Notified` is named `<<task, pc>>`. Its oneshot is `waiters` (sender), `registered` (receiver alive) and `delivered` (value sent but not yet received). `Send` drops the value when the receiver is gone, as `oneshot::Sender::send` does. | — |
| `NotifyAbstract` | What each `Notify` object promises its users: one permit, the set of waiting `Notified`s and the set granted a wake-up. `Signal` grants a waiter or stores the permit, or is absorbed when the permit is already stored. `TakePermit`, `Enqueue`, `Resume` and `Abandon` are the rest. `signals` counts the signals that were not absorbed. | — |
| `NotifyTest` | Per-task programs of `spawn`, `notify`, `wait`, `join`, `poll_once` (a `Notified` polled once and dropped if Pending, as a `select!` would) and `clone`, interpreted under the engine. It also holds the refinement mapping onto `NotifyAbstract`: per `Arc`, the permit is the sum of the latches of the handles sharing it, `waiting` is the live receivers not yet sent to, `granted` is the live receivers holding a value, and `signals` is `issued`, counted per `Arc`. Every operation but `clone` is followed by a `maybe_yield` scheduling point. A Pending await blocks the task and yields. A oneshot send to a live receiver, or the joined task finishing, unblocks it, and it re-polls when next resumed. The history variables `issued` and `wakeups` count effective `notify_one` calls and resolved `Notified`s. | `Execution`, `Notify`, `NotifyAbstract`, `Functions` |
| `MCExecutionGeneric`, `MCNotifyTest` | Constants for TLC. The four test programs transcribed from `tests/sync/notify.rs`. | |

### The correspondence with the code

`ScheduledTask` is a record `[tag, id]`. Its `id` field is
`ScheduledTask::id()`, which is -1 when not `Some`. A task is the record
`[blocked, finished, instructions]`. `runnable()` is "neither finished nor
blocked", as the spec says, because `task.rs` is not among the sources.
`Cleanup` is `cleanup` in three steps: `CleanupTake` asserts and takes the
tasks under `with`, `CleanupDrop` drops one task outside `with`, and
`CleanupDone` sets `has_cleaned_up` and ends `run`, whose drop of
`ExecutionState` asserts it (`StateDropOk`).
`Step` is Phase A of `step`, and `AfterStop`/`StopFailure` are its `match`
arms. The three outcomes of `resume` are `Yielded`, `Returned` and
`Panicked`. `Returned` finishes `current_task`, as line 143 does, not the
task that was resumed. `MaybeYield(ts, yield)` returns its boolean result
through `yield`. `NotifyOne` pops the last sender (`Vec::pop`).
`PollNotified` does the CAS first, then registers, then polls the receiver.
A `Notified` that resolves is dropped by its await. Dropping one removes its
receiver but leaves its sender queued. `CloneNotify` copies the source
handle's latch value into the clone's own slot. `failure_info` is
`FailureInfo`: `try_current` and `curr_pos` give the task and its
instruction counter, and `NoBlame` stands for `None`. `step` calls it outside
any `with`, so its `try_with` always succeeds.

## 3. Runs

| Run | Config | Expect | What it shows |
|---|---|---|---|
| engine_generic | `MCExecutionGeneric.cfg` | pass | 3 tasks, 4 engine calls per task, instructions ≤ 1: `TypeOK`, `RunningIsCurrent`, `FailuresAreGenuine` (including that a panic report names the panicking task at its position, `failure_info` is never `None` at the `unwrap`, and the `ExecutionState` Drop assertion holds), `CurrentTaskAbsorbing`, `ImplementsAbstract` (refinement), `Termination` (about 91k states) |
| notify_tests | `MCNotifyTest.cfg` | pass | `notify_test`, `notify_before_wait_test`, `two_notifies_one_received`, plus a clone used for both the notify and the wait, a `poll_once` after a latched notify, and a ping-pong between two tasks over two independent `Notify` objects (a second `Notified` of a `Notify` queues after the first was sent to), in every interleaving: `NTypeOK` (includes the latch staying 0/1), `LatchExcludesWaiters`, `NotificationsConserved`, `WaitersAreLive` (every queued Sender belongs to a live `Notified` not yet sent to, so a re-poll after the send pushes no second Sender), `VerifyFindsNoFailure`, `NotifyImplementsAbstract` (each `Notify` refines `NotifyAbstract`). The refinement of `ExecutionAbstract` and termination are not rechecked here: `engine_generic` checks them for arbitrary user code, of which these programs are a special case. The programs avoid the known bugs, so the bug cases are reached only by the violation runs below. |
| multiple_waiters_deadlock | `MCNotifyMultipleWaiters.cfg` | violation | `multiple_waiters_test` deadlocks (see finding) |
| multiple_waiters_lost_wakeup | `MCNotifyLostWakeup.cfg` | violation | `NotificationsConserved`: a woken waiter also takes the latch, and one notification is lost |
| multiple_waiters_fifo | `MCNotifyFifo.cfg` | violation | `notify_one` wakes the newest waiter (LIFO) |
| dropped_notified_loses_notification | `MCNotifyDroppedNotified.cfg` | violation | `NotificationsConserved`: `notify_one` sends to the receiver of a dropped `Notified`, and the notification vanishes |
| cloned_notify_splits_latch | `MCNotifyClone.cfg` | violation | `LatchExcludesWaiters`: a latch set on one handle is invisible to a waiter on a clone, which queues and blocks |

### Findings

1. **Lost wake-up** (notify.rs:78). `poll_notified` tries the latch before it
   looks at its own receiver. This trace loses one of two notifications:
   1. Waiter W1 registers.
   2. The first `notify_one` sends to W1.
   3. The second `notify_one` finds no waiter and latches.
   4. W1 re-polls and takes the latch, with its own `true` still unread.

   W2 then registers and blocks forever.
2. **LIFO wake-up** (notify.rs:45). `Vec::pop` takes the most recent sender.
   The spec says the front is taken and that order is FIFO.
3. **`multiple_waiters_test` can fail** (tests/sync/notify.rs:56). If both
   `notify_one`s run before either waiter polls, the single-slot latch keeps
   one of them and one waiter never wakes. The engine then panics with
   `deadlock!`. Finding 1 leads to the same end.
4. **A dropped `Notified` swallows a notification** (notify.rs:46).
   1. A waiter polls a `Notified` once and drops it while Pending, as
      `select!` does when another branch wins. Its sender stays in
      `waiters`.
   2. `notify_one` pops that sender, and `send(true)` fails. The result is
      ignored, and nothing is latched.
   3. The waiter's next `notified().await` blocks forever.

   The spec says `notify_one` delivers the wake-up or latches it.
5. **Clones split the latch** (notify.rs:10). `#[derive(Clone)]` copies the
   `AtomicUsize` but shares the `waiters` `Arc`. This trace blocks the
   waiter forever:
   1. `notify_one` on the original finds no waiter, so it latches its own
      copy.
   2. A waiter on the clone fails its CAS and queues on the shared `Vec`.

   A clone made while the latch is set duplicates the notification instead.

### Bounds and why they suffice

- **Engine run, `MaxTasks = 3`.** Three tasks are enough for a task to spawn
  a second, for a third to be blocked while another runs, and for the
  Strategy to pick among two other runnable tasks from `maybe_yield`.
- **Engine run, `MaxOps = 4`.** Four calls per task allow
  spawn-then-yield-then-block sequences, deadlocks among the tasks, and a
  panic after a yield. Four tasks with four calls each also pass (about
  2.9M states, 75 seconds). The run keeps three, so that the mutants finish
  quickly.
- **Engine run, `MaxInstr = 1`.** This reaches `prev_pos` both at 0 and
  above 0.
- **Notify runs.** These run the tests' own programs, and six more
  programs for dropped and cloned handles and for two `Notify` objects. They have at most three tasks,
  seven operations (`MaxPc = 8`) and two handles. `MaxInstr = 0` because the
  tests never call `next_pos`.

### Fairness

The driver is one OS thread that runs `while self.step() {}`, and user code
between two engine calls always runs to its next call. Nothing else competes
for the thread, so weak fairness of the whole next-state relation holds. It
does not constrain the Strategy, which stays a free choice in every step,
including `None`. `CHECK_DEADLOCK FALSE` is set because an execution really
does stop, in `done` or `failed`.

## 4. Not modelled, and why

- **Scoped TLS and the `RefCell` borrow.** Each engine operation is one
  atomic step under `with`, so the borrow is never seen held between steps.
  `step` calls `failure_info` after the borrow is released, so its
  `try_with` always reaches the state. `try_with` returns `None` only to the
  panic hook and to task `Drop` impls, which are outside the sources. `with`
  called outside a run is a Rust-level panic with no state of its own.
- **The `Rc` counts checked by cleanup (`try_unwrap`).** `step`'s clone of
  the continuation handle is dropped before `step` returns, so the count is
  always one at cleanup.
- **What a task's `Drop` does.** `task.rs` is not in the sources. Cleanup's
  order is kept (the tasks are taken under `with` and dropped outside it),
  but no property is stated about what a `Drop` could read there.
- **The Strategy's internals, `Event`/`to_thread_id`, `persist_task_failure`
  and the panic hook.** These are outside the sources.
- **The release-build wrap of `prev_pos` at 0.** The debug-build panic is
  modelled.
- **`notify_last`, `notify_waiters` and `const_new`.** They are unimplemented.
- **A scheduling point inside `poll_notified` or `notify_one`.** Neither
  function awaits or calls `maybe_yield` in its own body. Under the spec's
  suspension-point rule (§5), each call is therefore one atomic step. This
  is an assumption: whether `crate::sync::Mutex::blocking_lock`, the atomic
  operations or `oneshot::Sender::send` reach a scheduling point is decided
  by code outside the sources. If the lock were one, a `notify_one` could
  run between the failed CAS and the push, which adds lost wake-ups beyond
  those reported here.
- **A panic while `with` is borrowed.** `step` calls `failure_info` only
  after `catch_unwind` returns, when the borrow has been released by
  unwinding. Only the panic hook (runtime/failure.rs, outside the sources)
  runs inside the borrow.

## 5. Plan for later sittings

In order of importance:

1. **The spec's FIFO scenario with `k = 3`** waiters and three notifies. It
   needs a fourth task and `MaxPc` raised.
2. **The release build of `prev_pos` at 0.** It wraps to `usize::MAX`, and
   `curr_pos` truncates that to `u32`. Both are beyond TLC's 32-bit
   integers, so they need a symbolic top value and a `Build` constant.
