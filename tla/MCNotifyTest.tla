---------------------------- MODULE MCNotifyTest ----------------------------
(* The test closures of src/traceforge/tests/sync/notify.rs as programs.  *)
(* Task 0 is the root closure; tasks a test never spawns have no program. *)
EXTENDS NotifyTest

MCMaxTasks == 3
MCMaxInstr == 0
MCHandles == {1, 2}   \* two Notify::new, or one Notify and a clone of it

Empty == <<>>

\* notify_test: a waiter spawned before the single notify_one.
NotifyTestProg ==
    [t \in 0 .. 2 |-> CASE t = 0 -> <<Spawn(1), Notify1, Join(1)>>
                        [] t = 1 -> <<Wait>>
                        [] OTHER -> Empty]

\* multiple_waiters_test: two waiters spawned, then two notify_one.
MultipleWaitersProg ==
    [t \in 0 .. 2 |-> CASE t = 0 -> <<Spawn(1), Spawn(2), Notify1, Notify1, Join(1), Join(2)>>
                        [] OTHER -> <<Wait>>]

\* notify_before_wait_test: notify_one before the waiter exists.
NotifyBeforeWaitProg ==
    [t \in 0 .. 2 |-> CASE t = 0 -> <<Notify1, Spawn(1), Join(1)>>
                        [] t = 1 -> <<Wait>>
                        [] OTHER -> Empty]

\* two_notifies_one_received: two latched notifies serve one waiter; a
\* second waiter needs a third notify.
TwoNotifiesProg ==
    [t \in 0 .. 2 |-> CASE t = 0 -> <<Notify1, Notify1, Spawn(1), Join(1),
                                      Spawn(2), Notify1, Join(2)>>
                        [] OTHER -> <<Wait>>]

PassingTests == {NotifyTestProg, NotifyBeforeWaitProg, TwoNotifiesProg}
MultipleWaitersTest == {MultipleWaitersProg}

\* A waiter abandons a first Notified after one poll (as a select! whose
\* other branch wins would), then awaits a fresh one; the root notifies once.
DroppedNotifiedProg ==
    [t \in 0 .. 2 |-> CASE t = 0 -> <<Spawn(1), Notify1, Join(1)>>
                        [] t = 1 -> <<PollOnce(1), Wait>>
                        [] OTHER -> Empty]

\* notify_test with the waiter handed a clone of the Notify.
ClonedNotifyProg ==
    [t \in 0 .. 2 |-> CASE t = 0 -> <<CloneTo(2), Spawn(1), Notify1, Join(1)>>
                        [] t = 1 -> <<WaitOn(2)>>
                        [] OTHER -> Empty]

\* Uses of clone and of an abandoned poll that keep every notification:
\* the latch and the waiter on the same clone, and a single poll that the
\* latch set before the spawn always completes.
SameCloneProg ==
    [t \in 0 .. 2 |-> CASE t = 0 -> <<CloneTo(2), Spawn(1), NotifyOn(2), Join(1)>>
                        [] t = 1 -> <<WaitOn(2)>>
                        [] OTHER -> Empty]

PollLatchedProg ==
    [t \in 0 .. 2 |-> CASE t = 0 -> <<Notify1, Spawn(1), Join(1)>>
                        [] t = 1 -> <<PollOnce(1)>>
                        [] OTHER -> Empty]

\* Ping-pong over two independent Notify objects: the waiter is woken on
\* Notify 1, answers on Notify 2, and waits on Notify 1 again, so a second
\* Notified of the same Notify queues after the first was sent to.
PingPongProg ==
    [t \in 0 .. 2 |-> CASE t = 0 -> <<Spawn(1), NotifyOn(1), WaitOn(2), NotifyOn(1), Join(1)>>
                        [] t = 1 -> <<WaitOn(1), NotifyOn(2), WaitOn(1)>>
                        [] OTHER -> Empty]

CheckedPrograms == PassingTests \cup {SameCloneProg, PollLatchedProg, PingPongProg}

DroppedNotifiedTest == {DroppedNotifiedProg}
ClonedNotifyTest == {ClonedNotifyProg}
=============================================================================
