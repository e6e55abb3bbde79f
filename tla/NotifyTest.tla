------------------------------ MODULE NotifyTest ------------------------------
(***************************************************************************)
(* The Notify primitive under the execution engine, running the test       *)
(* programs of src/traceforge/tests/sync/notify.rs.  Each test closure is  *)
(* a program per task of these instructions:                               *)
(*   spawn      future::spawn of the next task (its TaskId is tasks.len()) *)
(*   notify     notify_one() on the Notify handle `arg`                    *)
(*   wait       notified().await on the handle `arg`                       *)
(*   join       handle.await of the task `arg`                             *)
(* and two that no test of the repository uses but user code may:         *)
(*   poll_once  a Notified of handle `arg` polled once and dropped if it   *)
(*              is still Pending (a select! or timeout abandoning it)      *)
(*   clone      notify.clone() of handle 1 into the handle `arg`           *)
(* Every instruction but clone (which does not reach the engine) is        *)
(* followed by a maybe_yield scheduling point.  An await that polls Pending blocks the task and      *)
(* yields; sending on its oneshot (or the joined task finishing) unblocks  *)
(* it, and it polls again when next resumed.                               *)
(***************************************************************************)
EXTENDS Execution, Notify, Functions

CONSTANT Programs  \* the test programs to explore, as [TaskIdRange -> Seq(Instr)]

VARIABLES
    prog,   \* the program of this run: prog[t] is task t's instruction list
    pc,     \* pc[t]: index in prog[t] of task t's next instruction
    issued, \* history: issued[o], notify_one calls on waiters Arc o not absorbed
            \* by an already set latch
    wakeups \* history: Notified futures that resolved Ready

vars == <<engineVars, notifyVars, prog, pc, issued, wakeups>>
histVars == <<issued, wakeups>>

Spawn(k) == [op |-> "spawn", arg |-> k]
NotifyOn(h) == [op |-> "notify", arg |-> h]
WaitOn(h)   == [op |-> "wait", arg |-> h]
Join(k)     == [op |-> "join", arg |-> k]
PollOnce(h) == [op |-> "poll_once", arg |-> h]
CloneTo(h)  == [op |-> "clone", arg |-> h]
Notify1 == NotifyOn(1)
Wait    == WaitOn(1)

MaxPc == 8
Notifieds == TaskIdRange \X (1 .. MaxPc)

NInit ==
    /\ Init
    /\ NotifyInit
    /\ prog \in Programs
    /\ pc = [t \in TaskIdRange |-> 1]
    /\ issued = [o \in Handles |-> 0]
    /\ wakeups = 0

Me == resumed
AtEnd(t) == pc[t] > Len(prog[t])
Instr == prog[Me][pc[Me]]
Executing(op) == phase = "running" /\ ~AtEnd(Me) /\ Instr.op = op
Advance == pc' = [pc EXCEPT ![Me] = @ + 1]
Here == <<Me, pc[Me]>>  \* the Notified the current instruction awaits

(* The scheduling point after an instruction, with registry ts. *)
Continue(ts) ==
    \/ /\ MaybeYield(ts, FALSE)
       /\ tasks' = ts
       /\ UNCHANGED <<phase, resumed, failure, blame, has_cleaned_up, cleanupVars>>
    \/ /\ MaybeYield(ts, TRUE)
       /\ Yielded(ts)

(* block_on of a Pending future: the task blocks and yields. *)
Suspend ==
    /\ Yielded([tasks EXCEPT ![current_task.id + 1].blocked = TRUE])
    /\ UNCHANGED <<current_task, next_task>>

(* oneshot send: a live Receiver's task, blocked awaiting it, is woken. *)
Unblock(ts, w) ==
    IF w \in registered THEN [ts EXCEPT ![w[1] + 1].blocked = FALSE] ELSE ts

DoSpawn ==
    /\ Executing("spawn")
    /\ Len(tasks) < MaxTasks
    /\ Continue(SpawnThread(tasks))
    /\ Advance
    /\ UNCHANGED <<notifyVars, prog, histVars>>

DoNotify ==
    /\ Executing("notify")
    /\ \E w \in Notifieds \cup {NoNotified} :
          /\ NotifyOne(Instr.arg, w)
          /\ Continue(Unblock(tasks, w))
    /\ Advance
    /\ issued' = [issued EXCEPT ![arc[Instr.arg]] =
                     @ + (IF waiters[arc[Instr.arg]] # <<>> \/ state[Instr.arg] = 0 THEN 1 ELSE 0)]
    /\ UNCHANGED <<prog, wakeups>>

WaitReady ==
    /\ Executing("wait")
    /\ PollNotified(Instr.arg, Here, TRUE, TRUE)
    /\ Continue(tasks)
    /\ Advance
    /\ wakeups' = wakeups + 1
    /\ UNCHANGED <<prog, issued>>

WaitPending ==
    /\ Executing("wait")
    /\ PollNotified(Instr.arg, Here, FALSE, TRUE)
    /\ Suspend
    /\ UNCHANGED <<prog, pc, histVars>>

(* One poll of a fresh Notified, which is dropped unless it resolved. *)
DoPollOnce ==
    /\ Executing("poll_once")
    /\ \E ready \in BOOLEAN :
          /\ PollNotified(Instr.arg, Here, ready, FALSE)
          /\ wakeups' = wakeups + (IF ready THEN 1 ELSE 0)
    /\ Continue(tasks)
    /\ Advance
    /\ UNCHANGED <<prog, issued>>

DoClone ==
    /\ Executing("clone")
    /\ CloneNotify(1, Instr.arg)
    /\ Advance
    /\ UNCHANGED <<engineVars, prog, histVars>>

JoinReady ==
    /\ Executing("join")
    /\ tasks[Instr.arg + 1].finished
    /\ Continue(tasks)
    /\ Advance
    /\ UNCHANGED <<notifyVars, prog, histVars>>

JoinPending ==
    /\ Executing("join")
    /\ ~tasks[Instr.arg + 1].finished
    /\ Suspend
    /\ UNCHANGED <<notifyVars, prog, pc, histVars>>

(* The closure returns; tasks joining it are woken. *)
Joiners(t) == {u \in TaskIds(tasks) : ~AtEnd(u) /\ prog[u][pc[u]] = Join(t)}

DoReturn ==
    /\ phase = "running"
    /\ AtEnd(Me)
    /\ Returned([u \in DOMAIN tasks |->
                   IF u - 1 \in Joiners(Me) THEN [tasks[u] EXCEPT !.blocked = FALSE]
                   ELSE tasks[u]])
    /\ UNCHANGED <<notifyVars, prog, pc, histVars>>

NNext ==
    \/ (Run \/ Step \/ Cleanup) /\ UNCHANGED <<notifyVars, prog, pc, histVars>>
    \/ DoSpawn
    \/ DoNotify
    \/ WaitReady
    \/ WaitPending
    \/ DoPollOnce
    \/ DoClone
    \/ JoinReady
    \/ JoinPending
    \/ DoReturn

(* The driver thread loops until the run ends: weak fairness. *)
NSpec == NInit /\ [][NNext]_vars /\ WF_vars(NNext)

-----------------------------------------------------------------------------
NTypeOK ==
    /\ tasks \in Seq(TaskRecords) /\ Len(tasks) <= MaxTasks
    /\ current_task \in ScheduledTasks /\ next_task \in ScheduledTasks
    /\ state \in [Handles -> {0, 1}]
    /\ arc \in [Handles -> Handles]
    /\ waiters \in [Handles -> Seq(Notifieds)]
    /\ registered \subseteq Notifieds /\ delivered \subseteq Notifieds
    /\ pc \in [TaskIdRange -> 1 .. MaxPc]
    /\ issued \in [Handles -> 0 .. MaxTasks * MaxPc] /\ wakeups \in 0 .. MaxTasks * MaxPc

(* A latched notification and a queued waiter never coexist: notify_one  *)
(* hands the notification to a waiter when there is one, and a poll      *)
(* takes the latch before it would queue.  With clones, a latch set on   *)
(* one handle is invisible to a waiter polling another, yet all of them  *)
(* queue on the one shared waiters Vec.                                  *)
LatchExcludesWaiters == \A h \in Handles : state[h] = 1 => waiters[arc[h]] = <<>>

(* Every Sender queued in waiters belongs to a Notified that is still     *)
(* alive and has not been sent to: a re-poll of a registered Notified     *)
(* must not push a second Sender, and a Notified must not be dropped      *)
(* while its Sender stays queued, or a later notify_one is spent on it.   *)
WaitersAreLive ==
    \A o \in Handles : \A i \in 1 .. Len(waiters[o]) : waiters[o][i] \in registered \ delivered

(* Notifications are neither lost nor made up: every notify_one that was *)
(* not absorbed by an already set latch has woken a Notified, is still   *)
(* latched, or sits in the oneshot of a Notified that is still alive.  A *)
(* send to a dropped Receiver, a CAS that completes a Notified already   *)
(* sent `true`, or a clone copying a set latch breaks the balance.       *)
NotificationsConserved ==
    SumFunction(issued) = wakeups + SumFunction(state) + Cardinality(delivered \cap registered)

(* The tests call verify with keep_going_after_error(false) and expect  *)
(* it to return: no execution panics (deadlock or otherwise).            *)
VerifyFindsNoFailure == failure = "none"

(* notify_one wakes the waiters of a Notify in the order they first      *)
(* polled (FIFO, as the spec's Notify ordering states).                   *)
WakeupFifo ==
    [][\A n \in Notifieds :
          (n \notin delivered /\ n \in delivered') =>
              \E o \in Handles : waiters[o] # <<>> /\ n = Head(waiters[o])]_vars

(* The waiters Arc o that the Notified n queues on: that of the handle   *)
(* its instruction awaits.                                                *)
ArcOf(n) == arc[prog[n[1]][n[2]].arg]
On(o, S) == {n \in S : ArcOf(n) = o}

(* Each Notify implements NotifyAbstract: a Notified is waiting while its  *)
(* Receiver is alive and unsent, granted once `true` was sent to it, and    *)
(* the permit is the latch of the handles sharing its Arc.  So notify_one grants a live waiter or stores   *)
(* the permit, a poll queues only while no permit is stored, and a Notified *)
(* completes only by taking the permit on its first poll or after a grant.  *)
NA == INSTANCE NotifyAbstract
          WITH Objects <- Handles,
               Futures <- Notifieds,
               permit  <- [o \in Handles |->
                             SumFunction(Restrict(state, {h \in Handles : arc[h] = o}))],
               waiting <- [o \in Handles |-> On(o, registered \ delivered)],
               granted <- [o \in Handles |-> On(o, registered \cap delivered)],
               signals <- issued

NotifyImplementsAbstract == NA!NASpec

=============================================================================
