-------------------------- MODULE ExecutionGeneric --------------------------
(***************************************************************************)
(* The engine of Execution.tla driving arbitrary user code.  While a task  *)
(* is resumed it may call any operation of the engine surface (spawn_thread,*)
(* maybe_yield, next_pos, prev_pos), block itself in a sync primitive and  *)
(* yield, wake a blocked task, return, or panic.  Each task performs at    *)
(* most MaxOps such operations, so every execution is finite.              *)
(***************************************************************************)
EXTENDS Execution

CONSTANT MaxOps   \* bound on the engine calls one task makes

VARIABLE ops      \* ops[t]: engine calls task t has made so far

vars == <<engineVars, ops>>

GInit ==
    /\ Init
    /\ ops = [t \in TaskIdRange |-> 0]

(* The running task: the one whose continuation the driver resumed. *)
Me == resumed
Cur == tasks[current_task.id + 1]

(* A user-code step: task Me is resumed and still has calls left. *)
UserStep(A) ==
    /\ phase = "running"
    /\ ops[Me] < MaxOps
    /\ A
    /\ ops' = [ops EXCEPT ![Me] = @ + 1]

KeepRunning ==
    UNCHANGED <<current_task, next_task, phase, resumed, failure, blame, has_cleaned_up,
               cleanupVars>>

(* spawn_thread from inside a task. *)
UserSpawn ==
    UserStep(/\ Len(tasks) < MaxTasks
             /\ tasks' = SpawnThread(tasks)
             /\ KeepRunning)

(* maybe_yield: keep running when the Strategy picked this task again,    *)
(* otherwise the continuation yields back to the driver.                  *)
UserMaybeYield ==
    UserStep(\/ /\ MaybeYield(tasks, FALSE)
                /\ UNCHANGED <<tasks, phase, resumed, failure, blame, has_cleaned_up,
                               cleanupVars>>
             \/ /\ MaybeYield(tasks, TRUE)
                /\ Yielded(tasks))

(* next_pos / prev_pos; prev_pos at instruction 0 panics (debug build). *)
UserNextPos ==
    UserStep(/\ Cur.instructions < MaxInstr
             /\ tasks' = NextPos(tasks)
             /\ KeepRunning)

UserPrevPos ==
    UserStep(\/ /\ Cur.instructions > 0
                /\ tasks' = PrevPos(tasks)
                /\ KeepRunning
             \/ /\ Cur.instructions = 0
                /\ Panicked)

(* A sync primitive marks the current task blocked; the task yields. *)
UserBlock ==
    UserStep(/\ Yielded([tasks EXCEPT ![current_task.id + 1].blocked = TRUE])
             /\ UNCHANGED <<current_task, next_task>>)

(* A sync primitive wakes a blocked task u. *)
UserUnblock ==
    UserStep(\E u \in TaskIds(tasks) :
                /\ tasks[u + 1].blocked
                /\ ~tasks[u + 1].finished
                /\ tasks' = [tasks EXCEPT ![u + 1].blocked = FALSE]
                /\ KeepRunning)

(* The task's closure returns, or panics. *)
UserReturn ==
    /\ phase = "running"
    /\ Returned(tasks)
    /\ UNCHANGED ops

UserPanic ==
    /\ phase = "running"
    /\ Panicked
    /\ UNCHANGED ops

GNext ==
    \/ (Run \/ Step \/ Cleanup) /\ UNCHANGED ops
    \/ UserSpawn
    \/ UserMaybeYield
    \/ UserNextPos
    \/ UserPrevPos
    \/ UserBlock
    \/ UserUnblock
    \/ UserReturn
    \/ UserPanic

(* The driver is a single thread that loops until the run ends, and user  *)
(* code between two engine calls always completes: weak fairness.         *)
GSpec == GInit /\ [][GNext]_vars /\ WF_vars(GNext)

-----------------------------------------------------------------------------
TypeOK ==
    /\ tasks \in Seq(TaskRecords) /\ Len(tasks) <= MaxTasks
    /\ current_task \in ScheduledTasks
    /\ next_task \in ScheduledTasks
    /\ phase \in {"init", "choose", "running", "cleanup", "dropping", "done", "failed"}
    /\ resumed \in TaskIdRange \cup {NoTaskId}
    /\ failure \in {"none", "deadlock", "no_task", "panic", "cleanup", "failure_info_none",
                    "state_drop"}
    /\ blame \in (TaskIdRange \X (0 .. MaxInstr)) \cup {NoBlame}
    /\ has_cleaned_up \in BOOLEAN
    /\ ops \in [TaskIdRange -> 0 .. MaxOps]
    /\ dropping \in Seq(TaskRecords)

(* While a continuation runs, current_task names that very task and no    *)
(* choice is pending (the debug_assert of maybe_yield).  `finish` after   *)
(* Ok(true) and failure_info after a panic both act on current_task, so   *)
(* a mismatch would finish or blame a task other than the one that ran.   *)
RunningIsCurrent ==
    phase = "running" =>
        /\ current_task = SchedSome(resumed)
        /\ next_task = SchedNone

(* Every failure the engine raises is real: only user panics and genuine *)
(* deadlocks (some task unfinished, none runnable) are reported; never   *)
(* "no task was scheduled", a failed cleanup assertion, or the unwrap of *)
(* a None failure_info; and a panic report names the task that panicked, *)
(* at the position it had reached.                                       *)
FailuresAreGenuine ==
    /\ failure \in {"none", "panic", "deadlock"}
    /\ failure = "deadlock" =>
          UnfinishedIds(tasks) # {} /\ RunnableIds(tasks) = {}
    /\ failure = "panic" =>
          blame = <<resumed, tasks[resumed + 1].instructions>>

(* current_task is absorbing once Stopped or Finished (the invariant     *)
(* stated on ExecutionState.current_task).                              *)
CurrentTaskAbsorbing ==
    [][(current_task \in {SchedStopped, SchedFinished}) => (current_task' = current_task)]_vars

(* The engine implements ExecutionAbstract: one task at a time, only a   *)
(* runnable task dispatched (even when the choice was made earlier, in   *)
(* maybe_yield), only the resumed task finishes, and the run ends as     *)
(* completed, deadlock, stopped or panicked exactly when it should.      *)
ImplementsAbstract == Abs!ASpec

(* Every execution ends: the loop of Execution::run stops and cleanup   *)
(* runs, or a panic leaves it.                                          *)
Termination == <>Terminated

=============================================================================
