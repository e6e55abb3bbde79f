--------------------------- MODULE NotifyAbstract ---------------------------
(***************************************************************************)
(* What Notify objects promise their users (spec section 4.7, without the  *)
(* wake-up order).  Each object o has one permit, a set of waiting         *)
(* Notified futures, and the ones granted a wake-up that have not yet      *)
(* resumed.  A signal grants a waiter when there is one and stores the     *)
(* permit otherwise; a signal that finds the permit already stored is      *)
(* absorbed.  A Notified completes by taking the stored permit on its      *)
(* first poll, or after it was granted; a waiter not yet granted may be    *)
(* abandoned.  `signals[o]` counts the signals that were not absorbed.     *)
(***************************************************************************)
EXTENDS Naturals

CONSTANTS
    Objects,   \* the Notify objects
    Futures    \* the names of the Notified futures

VARIABLES
    permit,   \* permit[o]: 1 when a notification is stored for o's next Notified
    waiting,  \* waiting[o]: Notified futures queued on o and not yet granted
    granted,  \* granted[o]: Notified futures granted a wake-up, not yet resumed
    signals   \* signals[o]: signals that granted a waiter or stored the permit

nvars == <<permit, waiting, granted, signals>>

Idle(n) == \A o \in Objects : n \notin waiting[o] \cup granted[o]

NAInit ==
    /\ permit = [o \in Objects |-> 0]
    /\ waiting = [o \in Objects |-> {}]
    /\ granted = [o \in Objects |-> {}]
    /\ signals = [o \in Objects |-> 0]

Signal(o) ==
    /\ signals' = [signals EXCEPT ![o] = @ + 1]
    /\ \/ \E n \in waiting[o] :
             /\ waiting' = [waiting EXCEPT ![o] = @ \ {n}]
             /\ granted' = [granted EXCEPT ![o] = @ \cup {n}]
             /\ UNCHANGED permit
       \/ /\ waiting[o] = {} /\ permit[o] = 0
          /\ permit' = [permit EXCEPT ![o] = 1]
          /\ UNCHANGED <<waiting, granted>>

TakePermit(o) ==
    /\ permit[o] = 1
    /\ permit' = [permit EXCEPT ![o] = 0]
    /\ UNCHANGED <<waiting, granted, signals>>

Enqueue(o) ==
    /\ permit[o] = 0
    /\ \E n \in Futures : Idle(n) /\ waiting' = [waiting EXCEPT ![o] = @ \cup {n}]
    /\ UNCHANGED <<permit, granted, signals>>

Resume(o) ==
    /\ \E n \in granted[o] : granted' = [granted EXCEPT ![o] = @ \ {n}]
    /\ UNCHANGED <<permit, waiting, signals>>

Abandon(o) ==
    /\ \E n \in waiting[o] : waiting' = [waiting EXCEPT ![o] = @ \ {n}]
    /\ UNCHANGED <<permit, granted, signals>>

NANext ==
    \E o \in Objects :
        Signal(o) \/ TakePermit(o) \/ Enqueue(o) \/ Resume(o) \/ Abandon(o)

NASpec == NAInit /\ [][NANext]_nvars

=============================================================================
