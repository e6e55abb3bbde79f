------------------------- MODULE ExecutionAbstract -------------------------
(***************************************************************************)
(* What one execution of the engine promises, with no scheduler state:    *)
(* tasks run one at a time; only a runnable task is dispatched; a running  *)
(* task may spawn tasks and wake blocked ones, and when it gives up the   *)
(* processor it may block or finish itself (and nobody else finishes);    *)
(* the run ends "completed" when no task is runnable and all finished,    *)
(* "deadlock" when none is runnable and some is not finished, "stopped"   *)
(* when the Strategy abandons it while a task is runnable, or "panicked"  *)
(* when the running task panics.  A completed or stopped run then drops   *)
(* its registry.                                                          *)
(***************************************************************************)
EXTENDS Integers, Sequences

CONSTANT MaxTasks

VARIABLES
    status,   \* status[t + 1] \in {"runnable", "blocked", "finished"}
    running,  \* the task holding the processor, or NoRunning
    outcome   \* "running" until the run ends

avars == <<status, running, outcome>>

NoRunning == -1
Ids == 0 .. Len(status) - 1
RunnableSet == {t \in Ids : status[t + 1] = "runnable"}

(* From s to s2 other tasks only change by being woken, and at most one   *)
(* runnable task is appended; task `self` may take any status in `own`.   *)
Evolves(s, s2, self, own) ==
    /\ Len(s2) \in {Len(s), Len(s) + 1}
    /\ Len(s2) <= MaxTasks
    /\ Len(s2) > Len(s) => s2[Len(s2)] = "runnable"
    /\ s2[self + 1] \in own
    /\ \A i \in 1 .. Len(s) \ {self + 1} :
          s2[i] = s[i] \/ (s[i] = "blocked" /\ s2[i] = "runnable")

AInit ==
    /\ status = <<>>
    /\ running = NoRunning
    /\ outcome = "running"

Start ==
    /\ outcome = "running" /\ status = <<>>
    /\ status' = <<"runnable">>
    /\ UNCHANGED <<running, outcome>>

Dispatch ==
    /\ outcome = "running" /\ running = NoRunning
    /\ \E t \in RunnableSet : running' = t
    /\ UNCHANGED <<status, outcome>>

Act ==
    /\ outcome = "running" /\ running # NoRunning
    /\ Evolves(status, status', running, {"runnable"})
    /\ UNCHANGED <<running, outcome>>

Release ==
    /\ outcome = "running" /\ running # NoRunning
    /\ Evolves(status, status', running, {"runnable", "blocked", "finished"})
    /\ running' = NoRunning
    /\ UNCHANGED outcome

Panic ==
    /\ outcome = "running" /\ running # NoRunning
    /\ outcome' = "panicked"
    /\ running' = NoRunning
    /\ UNCHANGED status

Stop ==
    /\ outcome = "running" /\ running = NoRunning /\ RunnableSet # {}
    /\ outcome' = "stopped"
    /\ UNCHANGED <<status, running>>

End ==
    /\ outcome = "running" /\ running = NoRunning
    /\ status # <<>> /\ RunnableSet = {}
    /\ outcome' = IF \A t \in Ids : status[t + 1] = "finished"
                  THEN "completed" ELSE "deadlock"
    /\ UNCHANGED <<status, running>>

Drop ==
    /\ outcome \in {"completed", "stopped"}
    /\ status' = <<>>
    /\ UNCHANGED <<running, outcome>>

ANext == Start \/ Dispatch \/ Act \/ Release \/ Panic \/ Stop \/ End \/ Drop

ASpec == AInit /\ [][ANext]_avars

=============================================================================
