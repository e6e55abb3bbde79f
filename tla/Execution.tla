----------------------------- MODULE Execution -----------------------------
(***************************************************************************)
(* The execution engine of src/traceforge/src/runtime/execution.rs: the    *)
(* per-execution ExecutionState (task registry, current_task, next_task),  *)
(* the scheduler `schedule`, `maybe_yield`, and the driver loop            *)
(* `Execution::run` / `Execution::step` with cleanup.                      *)
(*                                                                         *)
(* The driver is one thread.  `phase` is where that thread is:             *)
(*   "init"     ExecutionState::new done, main task not yet spawned        *)
(*   "choose"   at the top of `step` (Phase A: schedule, advance, match)   *)
(*   "running"  inside `continuation.resume()`: user code of `resumed`     *)
(*   "cleanup"  `step` returned false; `ExecutionState::cleanup` pending   *)
(*   "dropping" cleanup took the tasks and drops them one by one           *)
(*   "done"     cleanup finished, EXECUTION_STATE scope left               *)
(*   "failed"   a panic left the execution (`failure` says which)          *)
(* What user code does while "running" is defined by the modules that      *)
(* extend this one; they use the operators at the end of this module.      *)
(***************************************************************************)
EXTENDS Integers, Sequences, FiniteSets

CONSTANTS
    MaxTasks,   \* bound on the number of spawn_thread calls of one execution
    MaxInstr    \* bound on a task's `instructions` counter (next_pos)

ASSUME MaxTasks \in Nat \ {0} /\ MaxInstr \in Nat

VARIABLES
    tasks,         \* ExecutionState.tasks; TaskId t is tasks[t + 1]
    current_task,  \* ExecutionState.current_task : ScheduledTask
    next_task,     \* ExecutionState.next_task    : ScheduledTask
    phase,         \* where the driver thread is (see above)
    resumed,       \* the TaskId whose continuation `step` cloned and resumed
    failure,       \* why the execution panicked, "none" while it did not
    blame,         \* what failure_info() returned for the failure report
    has_cleaned_up,\* ExecutionState.has_cleaned_up (debug builds)
    dropping       \* the tasks cleanup drained and has not dropped yet

cleanupVars == <<dropping>>

engineVars == <<tasks, current_task, next_task, phase, resumed, failure,
                blame, has_cleaned_up, cleanupVars>>

NoTaskId == -1

(* enum ScheduledTask, with ScheduledTask::id() as the `id` field. *)
SchedNone     == [tag |-> "None",     id |-> NoTaskId]
SchedStopped  == [tag |-> "Stopped",  id |-> NoTaskId]
SchedFinished == [tag |-> "Finished", id |-> NoTaskId]
SchedSome(t)  == [tag |-> "Some",     id |-> t]

TaskIdRange == 0 .. MaxTasks - 1
ScheduledTasks ==
    {SchedNone, SchedStopped, SchedFinished} \cup {SchedSome(t) : t \in TaskIdRange}

(* Task::from_closure: a fresh task is runnable, unfinished, at instruction 0. *)
NewTask == [blocked |-> FALSE, finished |-> FALSE, instructions |-> 0]

TaskRecords == [blocked : BOOLEAN, finished : BOOLEAN, instructions : 0 .. MaxInstr]

(* Task::runnable(): neither finished nor blocked on a sync primitive. *)
IsRunnable(task) == ~task.finished /\ ~task.blocked

TaskIds(ts) == 0 .. Len(ts) - 1
RunnableIds(ts) == {t \in TaskIds(ts) : IsRunnable(ts[t + 1])}
UnfinishedIds(ts) == {t \in TaskIds(ts) : ~ts[t + 1].finished}

(* failure_info() -> Option<(String, Event)>: the task and its position, *)
(* with the task's name abstracted to its TaskId; NoBlame is None.       *)
NoBlame == <<NoTaskId, -1>>

(* ExecutionState::try_current: current_task is Some and names a task.   *)
TryCurrent(ct, ts) == ct.tag = "Some" /\ ct.id \in TaskIds(ts)

(* ExecutionState::curr_pos: the current task's instruction counter.     *)
CurrPos(ct, ts) == ts[ct.id + 1].instructions

(* ExecutionState::failure_info, called from `step` outside any `with`,  *)
(* so its try_with always reaches the state.                             *)
FailureInfo(ct, ts) == IF TryCurrent(ct, ts) THEN <<ct.id, CurrPos(ct, ts)>> ELSE NoBlame

(***************************************************************************)
(* Drop for ExecutionState (debug builds): cleanup ran, or the thread is *)
(* already panicking.                                                    *)
StateDropOk(cleanedUp, panicking) == cleanedUp \/ panicking

(***************************************************************************)
(* ExecutionState::schedule on registry `ts` with next_task `nt`: the set  *)
(* of values next_task can hold afterwards.  A choice already made (by     *)
(* maybe_yield) is kept; with nothing runnable the run is Finished;        *)
(* otherwise the Strategy (Must::next_task) picks one runnable task, or    *)
(* returns None and the execution is Stopped.                              *)
(***************************************************************************)
ScheduleOffersUnfinished(ts, nt) ==
    IF nt # SchedNone THEN {nt}
    ELSE IF UnfinishedIds(ts) = {} THEN {SchedFinished}
    ELSE {SchedSome(t) : t \in UnfinishedIds(ts)} \cup {SchedStopped}

Schedule(ts, nt) ==
    IF nt # SchedNone THEN {nt}
    ELSE IF RunnableIds(ts) = {} THEN {SchedFinished}
    ELSE {SchedSome(t) : t \in RunnableIds(ts)} \cup {SchedStopped}

StopFailureAnyBlocked(st) ==
    CASE st = SchedFinished /\ RunnableIds(tasks) # TaskIds(tasks) -> "deadlock"
      [] st = SchedNone                                           -> "no_task"
      [] OTHER                                                    -> "none"

(* The failure Phase A of `step` reports for the ScheduledTask it advanced *)
(* to, "none" when the loop simply stops.                                  *)
StopFailure(st) ==
    CASE st = SchedFinished /\ UnfinishedIds(tasks) # {} -> "deadlock"
      [] st = SchedNone                                 -> "no_task"
      [] OTHER                                          -> "none"

AfterStopContinuesStopped(st) ==
    IF st = SchedStopped THEN "choose"
    ELSE IF StopFailure(st) = "none" THEN "cleanup" ELSE "failed"

AfterStopContinuesFinished(st) ==
    IF st = SchedFinished /\ StopFailure(st) = "none" THEN "choose"
    ELSE IF StopFailure(st) = "none" THEN "cleanup" ELSE "failed"

(* Where the driver goes when Phase A advanced to a ScheduledTask that is  *)
(* not Some: `step` returns false and cleanup follows, or the failure is   *)
(* persisted and raised as a panic.                                        *)
AfterStop(st) == IF StopFailure(st) = "none" THEN "cleanup" ELSE "failed"

(* ExecutionState::advance_to_next_task: next_task (here st) is taken     *)
(* into current_task, leaving None behind.                                 *)
AdvanceToNextTask(st) ==
    /\ current_task' = st
    /\ next_task' = SchedNone

-----------------------------------------------------------------------------
Init ==
    /\ tasks = <<>>
    /\ current_task = SchedNone
    /\ next_task = SchedNone
    /\ phase = "init"
    /\ resumed = NoTaskId
    /\ failure = "none"
    /\ blame = NoBlame
    /\ has_cleaned_up = FALSE
    /\ dropping = <<>>

(* Execution::run: spawn the test closure as task 0 inside the scope. *)
Run ==
    /\ phase = "init"
    /\ tasks' = <<NewTask>>
    /\ phase' = "choose"
    /\ UNCHANGED <<current_task, next_task, resumed, failure, blame, has_cleaned_up,
                   cleanupVars>>

(***************************************************************************)
(* Execution::step, Phase A under ExecutionState::with: schedule, then     *)
(* advance_to_next_task, then match on current_task.  Some(tid) resumes    *)
(* that task's continuation; Finished with an unfinished task is a         *)
(* deadlock failure, Finished or Stopped otherwise stop the loop; None is  *)
(* the "no task was scheduled" failure.  Failures are persisted and        *)
(* raised as a panic.                                                      *)
(***************************************************************************)
Step ==
    /\ phase = "choose"
    /\ \E st \in Schedule(tasks, next_task) :
          /\ AdvanceToNextTask(st)
          /\ \/ /\ st.tag = "Some"
                /\ phase' = "running"
                /\ resumed' = st.id
                /\ UNCHANGED failure
                /\ UNCHANGED blame
             \/ /\ st.tag # "Some"
                /\ failure' = StopFailure(st)
                /\ phase' = AfterStop(st)
                /\ blame' = IF failure' = "none" THEN blame ELSE FailureInfo(st, tasks)
                /\ UNCHANGED resumed
    /\ UNCHANGED <<tasks, has_cleaned_up, cleanupVars>>

(***************************************************************************)
(* ExecutionState::cleanup, in its three steps.  Under `with`: assert that *)
(* current_task is Stopped or Finished and take the tasks, leaving the     *)
(* registry empty.  Outside `with`, one task per step: assert it finished  *)
(* unless the run was Stopped, then drop it (what its Drop does is not in  *)
(* the sources).  Last, under `with`, has_cleaned_up.                      *)
(* A failed assertion panics.                                              *)
(***************************************************************************)
CleanupTake ==
    /\ phase = "cleanup"
    /\ phase' = IF current_task \in {SchedStopped, SchedFinished} THEN "dropping" ELSE "failed"
    /\ failure' = IF phase' = "dropping" THEN failure ELSE "cleanup"
    /\ tasks' = IF phase' = "dropping" THEN <<>> ELSE tasks
    /\ dropping' = IF phase' = "dropping" THEN tasks ELSE dropping
    /\ UNCHANGED <<current_task, next_task, resumed, blame, has_cleaned_up>>

CleanupDrop ==
    /\ phase = "dropping"
    /\ dropping # <<>>
    /\ phase' = IF current_task = SchedStopped \/ Head(dropping).finished
                THEN "dropping" ELSE "failed"
    /\ failure' = IF phase' = "dropping" THEN failure ELSE "cleanup"
    /\ dropping' = IF phase' = "dropping" THEN Tail(dropping) ELSE dropping
    /\ UNCHANGED <<tasks, current_task, next_task, resumed, blame, has_cleaned_up>>

(* The end of cleanup and of Execution::run: has_cleaned_up is set, the   *)
(* scope is left and ExecutionState dropped, whose Drop asserts that      *)
(* cleanup ran (or that the thread is panicking, which it is not here).   *)
CleanupDone ==
    /\ phase = "dropping"
    /\ dropping = <<>>
    /\ has_cleaned_up' = TRUE
    /\ phase' = IF StateDropOk(has_cleaned_up', FALSE) THEN "done" ELSE "failed"
    /\ failure' = IF phase' = "done" THEN failure ELSE "state_drop"
    /\ UNCHANGED <<tasks, current_task, next_task, resumed, blame, cleanupVars>>

Cleanup == CleanupTake \/ CleanupDrop \/ CleanupDone

-----------------------------------------------------------------------------
(***************************************************************************)
(* Operators for the user code that runs while phase = "running".  Each    *)
(* takes the registry `ts` as the user step left it.                       *)
(***************************************************************************)

(* ExecutionState::spawn_thread: the new TaskId is tasks.len(). *)
SpawnThread(ts) == Append(ts, NewTask)

(* step, `Ok(false)`: resume returned because the task yielded.  The     *)
(* ScheduledTask variables are left to the caller: maybe_yield sets them. *)
Yielded(ts) ==
    /\ tasks' = ts
    /\ phase' = "choose"
    /\ UNCHANGED <<resumed, failure, blame, has_cleaned_up, cleanupVars>>

(* step, `Ok(true)`: the closure returned; current_mut().finish(). *)
Returned(ts) ==
    /\ tasks' = [ts EXCEPT ![current_task.id + 1].finished = TRUE]
    /\ phase' = "choose"
    /\ UNCHANGED <<current_task, next_task, resumed, failure, blame, has_cleaned_up,
                   cleanupVars>>

(* step, `Err(e)`: the task panicked; failure_info().unwrap() names the    *)
(* current task and its position (a None panics inside the driver), the    *)
(* failure is persisted and the panic re-raised.                           *)
Panicked ==
    /\ phase' = "failed"
    /\ blame' = FailureInfo(current_task, tasks)
    /\ failure' = IF blame' = NoBlame THEN "failure_info_none" ELSE "panic"
    /\ UNCHANGED <<tasks, current_task, next_task, resumed, has_cleaned_up, cleanupVars>>

MaybeYieldNeverSwitches(ts, yield) ==
    \E st \in Schedule(ts, next_task) :
        /\ yield = FALSE
        /\ AdvanceToNextTask(st)

(***************************************************************************)
(* ExecutionState::maybe_yield on registry `ts`: run the scheduler; if it  *)
(* chose the current task, advance to it and keep running (FALSE);         *)
(* otherwise leave the choice in next_task and ask the caller to yield     *)
(* (TRUE).  `yield` is the returned value.                                 *)
(***************************************************************************)
MaybeYield(ts, yield) ==
    \E st \in Schedule(ts, next_task) :
        IF st = current_task
        THEN /\ yield = FALSE
             /\ AdvanceToNextTask(st)
        ELSE /\ yield = TRUE
             /\ current_task' = current_task
             /\ next_task' = st

(* ExecutionState::next_pos / prev_pos on the current task's counter.      *)
(* prev_pos at 0 underflows the usize: a panic in the debug build.         *)
NextPosByTwo(ts) == [ts EXCEPT ![current_task.id + 1].instructions = @ + 2]
NextPos(ts) == [ts EXCEPT ![current_task.id + 1].instructions = @ + 1]
PrevPos(ts) == [ts EXCEPT ![current_task.id + 1].instructions = @ - 1]

Terminated == phase \in {"done", "failed"}

-----------------------------------------------------------------------------
(***************************************************************************)
(* Refinement mapping onto ExecutionAbstract: the task holding the         *)
(* processor is the one whose continuation the driver resumed, the run's   *)
(* outcome is read off the driver's phase and current_task, and a task's   *)
(* status off its flags.  A failure other than a panic or a deadlock has   *)
(* no abstract counterpart.                                                *)
(***************************************************************************)
StatusOf(task) ==
    IF task.finished THEN "finished" ELSE IF task.blocked THEN "blocked" ELSE "runnable"

OutcomeOf ==
    CASE phase \in {"init", "choose", "running"}                      -> "running"
      [] phase \in {"cleanup", "dropping", "done"} /\ current_task = SchedStopped -> "stopped"
      [] phase \in {"cleanup", "dropping", "done"}                                -> "completed"
      [] failure = "deadlock"                                         -> "deadlock"
      [] failure = "panic"                                            -> "panicked"
      [] OTHER                                                        -> "engine_error"

Abs == INSTANCE ExecutionAbstract
           WITH status  <- [i \in 1 .. Len(tasks) |-> StatusOf(tasks[i])],
                running <- IF phase = "running" THEN resumed ELSE NoTaskId,
                outcome <- OutcomeOf

=============================================================================
