------------------------------- MODULE Notify -------------------------------
(***************************************************************************)
(* The notification primitive of src/traceforge/src/sync/notify.rs.        *)
(*                                                                         *)
(* A Notified future is named by the task that awaits it and the program   *)
(* position of that await: a pair <<task, pc>>.  Its oneshot channel is    *)
(* named after it: the Sender sits in `waiters`, the Receiver exists once  *)
(* the Notified is in `registered`, and the value `true` sent on it is in  *)
(* `delivered` until the Receiver takes it.                                *)
(***************************************************************************)
EXTENDS Integers, Sequences

CONSTANT Handles  \* the Notify values of a program: each is a Notify::new, or a clone of one

VARIABLES
    state,       \* state[h]: Notify.state of handle h, the latched notification, 0 or 1
    arc,         \* arc[h]: the handle whose Notify::new made the waiters Arc h uses
    waiters,     \* waiters[o]: the Vec of oneshot Senders behind Arc o, in push order
    registered,  \* Notified futures alive with `receiver` Some
    delivered    \* Notified futures whose oneshot holds an unreceived `true`

notifyVars == <<state, arc, waiters, registered, delivered>>

NoNotified == <<-1, -1>>

(* Notify::new for every handle; a clone's fields are set when it is made. *)
NotifyInit ==
    /\ state = [h \in Handles |-> 0]
    /\ arc = [h \in Handles |-> h]
    /\ waiters = [o \in Handles |-> <<>>]
    /\ registered = {}
    /\ delivered = {}

(* The Notified the last Sender of Vec o belongs to, and Vec::pop of it. *)
LastWaiter(o) == waiters[o][Len(waiters[o])]
PopWaiters(o) == [waiters EXCEPT ![o] = SubSeq(@, 1, Len(@) - 1)]
PushWaiter(o, n) == [waiters EXCEPT ![o] = Append(@, n)]

(* oneshot::Sender::send: the value reaches the Receiver if it is still alive *)
(* and is lost otherwise; notify_one ignores which.                          *)
Send(n) == IF n \in registered THEN delivered \cup {n} ELSE delivered

NotifyOneCounting(h, woken) ==
    IF Len(waiters[arc[h]]) > 0
    THEN /\ woken = LastWaiter(arc[h]) /\ waiters' = PopWaiters(arc[h])
         /\ delivered' = Send(woken)
         /\ UNCHANGED <<state, arc, registered>>
    ELSE /\ woken = NoNotified /\ state' = [state EXCEPT ![h] = @ + 1]
         /\ UNCHANGED <<arc, waiters, registered, delivered>>

NotifyOneNeedsTwoWaiters(h, woken) ==
    IF Len(waiters[arc[h]]) > 1
    THEN /\ woken = LastWaiter(arc[h]) /\ waiters' = PopWaiters(arc[h])
         /\ delivered' = Send(woken)
         /\ UNCHANGED <<state, arc, registered>>
    ELSE /\ woken = NoNotified /\ state' = [state EXCEPT ![h] = 1]
         /\ UNCHANGED <<arc, waiters, registered, delivered>>

NotifyOneDropsSend(h, woken) ==
    IF Len(waiters[arc[h]]) > 0
    THEN /\ woken = LastWaiter(arc[h]) /\ waiters' = PopWaiters(arc[h])
         /\ UNCHANGED <<state, arc, registered, delivered>>
    ELSE /\ woken = NoNotified /\ state' = [state EXCEPT ![h] = 1]
         /\ UNCHANGED <<arc, waiters, registered, delivered>>

(***************************************************************************)
(* Notify::notify_one on handle h.  Under the lock of its waiters Vec:     *)
(* with a waiter, Vec::pop takes the LAST Sender and sends `true` on it,   *)
(* ignoring the result; `woken` is the Notified it belongs to.  With no    *)
(* waiter, the notification is latched by storing 1 in this handle's own  *)
(* state, and `woken` is NoNotified.                                       *)
(***************************************************************************)
NotifyOne(h, woken) ==
    IF Len(waiters[arc[h]]) > 0
    THEN /\ woken = LastWaiter(arc[h]) /\ waiters' = PopWaiters(arc[h])
         /\ delivered' = Send(woken)
         /\ UNCHANGED <<state, arc, registered>>
    ELSE /\ woken = NoNotified /\ state' = [state EXCEPT ![h] = 1]
         /\ UNCHANGED <<arc, waiters, registered, delivered>>

PollNotifiedKeepsLatch(h, n, ready, kept) ==
    IF state[h] = 1
    THEN /\ ready = TRUE
         /\ registered' = registered \ {n}
         /\ UNCHANGED <<state, arc, waiters, delivered>>
    ELSE /\ ready = (n \in delivered)
         /\ waiters' = IF n \in registered THEN waiters ELSE PushWaiter(arc[h], n)
         /\ delivered' = delivered \ {n}
         /\ registered' = IF ~ready /\ kept THEN registered \cup {n} ELSE registered \ {n}
         /\ UNCHANGED <<state, arc>>

PollNotifiedRegistersAgain(h, n, ready, kept) ==
    IF state[h] = 1
    THEN /\ ready = TRUE
         /\ state' = [state EXCEPT ![h] = 0]
         /\ registered' = registered \ {n}
         /\ UNCHANGED <<arc, waiters, delivered>>
    ELSE /\ ready = (n \in delivered)
         /\ waiters' = PushWaiter(arc[h], n)
         /\ delivered' = delivered \ {n}
         /\ registered' = IF ~ready /\ kept THEN registered \cup {n} ELSE registered \ {n}
         /\ UNCHANGED <<state, arc>>

PollNotifiedRegistersFirst(h, n, ready, kept) ==
    /\ waiters' = IF n \in registered THEN waiters ELSE PushWaiter(arc[h], n)
    /\ UNCHANGED arc
    /\ IF state[h] = 1
       THEN /\ ready = TRUE
            /\ state' = [state EXCEPT ![h] = 0]
            /\ registered' = registered \cup {n}
            /\ UNCHANGED delivered
       ELSE /\ ready = (n \in delivered)
            /\ delivered' = delivered \ {n}
            /\ registered' = IF ~ready /\ kept THEN registered \cup {n} ELSE registered \ {n}
            /\ UNCHANGED state

(***************************************************************************)
(* Notified::poll_notified of the Notified `n` made from handle h; `ready` *)
(* is TRUE for Poll::Ready.  First the compare_exchange(1, 0) on the       *)
(* handle's latch: success is Ready at once, whatever the Notified's own   *)
(* channel holds.  Otherwise the first poll creates the oneshot, pushes    *)
(* its Sender on the handle's waiters Vec and keeps the Receiver; then the *)
(* Receiver is polled: Ready iff a value was sent on it.  A Notified that  *)
(* resolved is dropped by its await, and so is a Pending one its owner     *)
(* does not keep (`kept` FALSE): that drops the Receiver but not its Sender. *)
(***************************************************************************)
PollNotified(h, n, ready, kept) ==
    IF state[h] = 1
    THEN /\ ready = TRUE
         /\ state' = [state EXCEPT ![h] = 0]
         /\ registered' = registered \ {n}
         /\ UNCHANGED <<arc, waiters, delivered>>
    ELSE /\ ready = (n \in delivered)
         /\ waiters' = IF n \in registered THEN waiters ELSE PushWaiter(arc[h], n)
         /\ delivered' = delivered \ {n}
         /\ registered' = IF ~ready /\ kept THEN registered \cup {n} ELSE registered \ {n}
         /\ UNCHANGED <<state, arc>>

(* Clone for Notify (derive): the copy gets its own AtomicUsize holding    *)
(* the source's current value, and a clone of the source's waiters Arc.    *)
CloneNotify(src, dst) ==
    /\ state' = [state EXCEPT ![dst] = state[src]]
    /\ arc' = [arc EXCEPT ![dst] = arc[src]]
    /\ UNCHANGED <<waiters, registered, delivered>>

=============================================================================
