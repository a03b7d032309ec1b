---------------------------- MODULE TimerThread ----------------------------
(***************************************************************************)
(* Timer and TimerManager of Time: one thread waits for the earliest timer *)
(* of a heap of pointers and runs its callback itself.  Timer::start and   *)
(* restart change is_stopped and expire_time without the manager's mutex   *)
(* and push the same pointer once more, so a timer may be in the heap more *)
(* than once and the heap may be out of order.  Time passes in ticks.  The *)
(* calls of one timer's start, restart and stop do not overlap.            *)
(***************************************************************************)
EXTENDS Integers

CONSTANTS
  Timer,
  Delays,     \* the timeouts timers are started or restarted with
  MaxEntries, \* bound on the entries of one timer in the heap
  MaxLate,    \* bound: how far back the order of expired timers is kept
  None

ASSUME DelaysAssumption ==
  /\ Delays \subseteq Nat \ {0} /\ None \notin Timer
  /\ MaxEntries \in Nat /\ MaxLate \in Nat

VARIABLES
  owner,      \* where the thread is that owns the manager
  flag,       \* stopped_flag
  clearing,   \* timers whose start() has yet to write expire_time
  starting,   \* timers whose start() has yet to call add_timer
  stopped,    \* timers with is_stopped
  remaining,  \* per timer, ticks until expire_time; once it has passed, 0
              \* or minus the number of later times another one expired at
  entries,    \* per timer, how often it is in the heap
  disorder,   \* the expire_time of a timer in the heap has been changed
  worker,     \* where the manager's thread is
  current,    \* the timer it looks at
  sleep,      \* ticks until its wait_until ends
  owed,       \* history: per timer, starts its callback has not run for,
              \* counted up to MaxEntries
  window      \* history: timers stopped while on their way to the callback

user == <<clearing, starting, stopped, remaining>>
heap == <<entries, disorder>>
thread == <<worker, current, sleep>>
timerVars == <<owner, flag, user, heap, thread, owed, window>>

TimerInit == /\ owner = "using" /\ flag = FALSE
             /\ clearing = {} /\ starting = {} /\ stopped = Timer
             /\ remaining = [t \in Timer |-> 0]
             /\ entries = [t \in Timer |-> 0] /\ disorder = FALSE
             /\ worker = "lock" /\ current = None /\ sleep = 0
             /\ owed = [t \in Timer |-> 0] /\ window = {}

Queued == {t \in Timer : entries[t] > 0}

\* The thread holds mtx between two of its steps.
MutexHeld == worker \in {"empty?", "stopped?", "expired?", "pop"}

\* notify_one: the thread, if it waits, goes on.
Notified == worker' = IF worker \in {"wait", "waitUntil"} THEN "lock" ELSE worker

-----------------------------------------------------------------------------
\* Timer::start, which restart calls: the flag,
Start(t) == /\ owner = "using" /\ t \notin clearing \cup starting
            /\ entries[t] < MaxEntries
            /\ clearing' = clearing \cup {t}
            /\ stopped' = stopped \ {t}
            /\ owed' = [owed EXCEPT ![t] = IF @ < MaxEntries THEN @ + 1 ELSE @]
            /\ UNCHANGED <<owner, flag, starting, remaining, heap, thread, window>>

\* then the time, after a restart counted from a new timeout,
SetExpiry(t, d) == /\ owner = "using" /\ t \in clearing
                   /\ clearing' = clearing \ {t}
                   /\ starting' = starting \cup {t}
                   /\ remaining' = [remaining EXCEPT ![t] = d]
                   /\ disorder' = (disorder \/ t \in Queued)
                   /\ UNCHANGED <<owner, flag, stopped, entries, thread, owed,
                                  window>>

\* then TimerManager::add_timer.
AddTimer(t) == /\ owner = "using" /\ t \in starting /\ ~MutexHeld
               /\ starting' = starting \ {t}
               /\ entries' = [entries EXCEPT ![t] = @ + 1]
               /\ Notified
               /\ UNCHANGED <<owner, flag, clearing, stopped, remaining, disorder,
                              current, sleep, owed, window>>

\* Timer::stop; the entry stays in the heap.
StopTimer(t) == /\ owner = "using"
                /\ t \notin stopped \cup clearing \cup starting
                /\ stopped' = stopped \cup {t}
                /\ window' = IF current = t /\ worker \in {"expired?", "pop"}
                             THEN window \cup {t} ELSE window
                /\ UNCHANGED <<owner, flag, clearing, starting, remaining, heap,
                               thread, owed>>

\* Mutant: the flag is set without the mutex.
StopUnlocked == /\ owner = "using" /\ clearing \cup starting = {}
                /\ flag' = TRUE
                /\ owner' = "join"
                /\ Notified
                /\ UNCHANGED <<user, heap, current, sleep, owed, window>>

\* ~TimerManager: stop(), then the thread is joined.
StopManager == /\ owner = "using" /\ clearing \cup starting = {} /\ ~MutexHeld
               /\ flag' = TRUE
               /\ owner' = "join"
               /\ Notified
               /\ UNCHANGED <<user, heap, current, sleep, owed, window>>

Join == /\ owner = "join" /\ worker = "exited"
        /\ owner' = "done"
        /\ UNCHANGED <<flag, user, heap, thread, owed, window>>

-----------------------------------------------------------------------------
\* TimerManager::run.
Step(from, to) == worker = from /\ worker' = to

Lock == /\ Step("lock", IF flag THEN "exited" ELSE "empty?")
        /\ UNCHANGED <<owner, flag, user, heap, current, sleep, owed, window>>

\* timer_queue.top(): the earliest one, or any when the heap is out of order.
Top == IF disorder THEN Queued
       ELSE {t \in Queued : \A u \in Queued : remaining[t] <= remaining[u]}

LookAtTop == /\ \/ Step("empty?", "wait") /\ Queued = {} /\ UNCHANGED current
                \/ /\ worker = "empty?" /\ worker' = "stopped?"
                   /\ current' \in Top
             /\ UNCHANGED <<owner, flag, user, heap, sleep, owed, window>>

Removed(t) == /\ entries' = [entries EXCEPT ![t] = @ - 1]
              /\ disorder' = (disorder /\ \E u \in Timer : entries'[u] > 0)

\* Mutant: is_stopped is not looked at.
NeverStopped == /\ Step("stopped?", "expired?")
                /\ UNCHANGED <<owner, flag, user, heap, current, sleep, owed,
                               window>>

\* Mutant: a stopped timer is passed over.
LeaveStopped ==
  /\ Step("stopped?", IF current \in stopped THEN "lock" ELSE "expired?")
  /\ UNCHANGED <<owner, flag, user, heap, current, sleep, owed, window>>

CheckStopped ==
  /\ \/ /\ Step("stopped?", "lock") /\ current \in stopped
        /\ Removed(current)
     \/ /\ Step("stopped?", "expired?") /\ current \notin stopped
        /\ UNCHANGED heap
  /\ UNCHANGED <<owner, flag, user, current, sleep, owed, window>>

CheckExpired ==
  /\ \/ /\ Step("expired?", "waitUntil") /\ remaining[current] > 0
        /\ sleep' = remaining[current]
        /\ window' = window \ {current}
     \/ /\ Step("expired?", "pop") /\ remaining[current] <= 0
        /\ UNCHANGED <<sleep, window>>
  /\ UNCHANGED <<owner, flag, user, heap, current, owed>>

\* Mutant: the timer stays in the heap.
RunWithoutPop == /\ Step("pop", "lock")
                 /\ owed' = [owed EXCEPT ![current] = @ - 1]
                 /\ window' = window \ {current}
                 /\ UNCHANGED <<owner, flag, user, heap, current, sleep>>

\* Popped; the mutex is released and the callback runs.
RunCallback == /\ Step("pop", "lock")
               /\ Removed(current)
               /\ owed' = [owed EXCEPT ![current] = @ - 1]
               /\ window' = window \ {current}
               /\ UNCHANGED <<owner, flag, user, current, sleep>>

\* wait_until ends in time; both waits may end spuriously.
Wake == /\ \/ Step("waitUntil", "lock")
           \/ Step("wait", "lock")
        /\ UNCHANGED <<owner, flag, user, heap, current, sleep, owed, window>>

Timeout == /\ Step("waitUntil", "lock") /\ sleep = 0
           /\ UNCHANGED <<owner, flag, user, heap, current, sleep, owed, window>>

\* A tick later.  The expired ones keep their order: one that expired before
\* another does is that much further back.
Passed(n) == LET others == \E t \in Timer : remaining[t] = 1
             IN  IF n > 0 \/ (others /\ n > -MaxLate) THEN n - 1 ELSE n

Tick == /\ remaining' = [t \in Timer |-> Passed(remaining[t])]
        /\ sleep' = IF sleep > 0 THEN sleep - 1 ELSE 0
        /\ UNCHANGED <<owner, flag, clearing, starting, stopped, heap, worker,
                       current, owed, window>>

-----------------------------------------------------------------------------
Run == Lock \/ LookAtTop \/ CheckStopped \/ CheckExpired \/ RunCallback
         \/ Timeout

TimerNext == \/ \E t \in Timer : \/ Start(t) \/ AddTimer(t) \/ StopTimer(t)
                                 \/ \E d \in Delays : SetExpiry(t, d)
             \/ StopManager \/ Join
             \/ Run \/ Wake \/ Tick

TimerSpec == TimerInit /\ [][TimerNext]_timerVars

\* The manager's thread goes on when it can, time passes and a join returns.
\* A spurious wakeup need not come, and callers need not call.
FairTimerSpec ==
  TimerSpec /\ WF_timerVars(Run) /\ WF_timerVars(Tick) /\ WF_timerVars(Join)

-----------------------------------------------------------------------------
\* Types of the variables.
TimerTypeOK == /\ clearing \subseteq Timer /\ starting \subseteq Timer
               /\ clearing \cap starting = {} /\ stopped \subseteq Timer
               /\ remaining \in [Timer -> Int] /\ sleep \in Nat
               /\ entries \in [Timer -> 0 .. MaxEntries]
               /\ worker \in {"stopped?", "expired?", "pop"} => current \in Queued
               /\ owed \in [Timer -> 0 .. MaxEntries] /\ window \subseteq Timer

\* The entry a start() that has not returned is about to push.
OnItsWay(t) == IF t \in clearing \cup starting THEN 1 ELSE 0

\* A start makes a callback run at most once, although a timer is in the
\* heap once for every start and a stop leaves its entry there
\* (time.cpp:11-16, TimerManager.cpp:49-64): what is in the heap is still
\* owed.  The types come with it.
RunsPaidByStarts ==
  TimerTypeOK /\ \A t \in Timer : entries[t] + OnItsWay(t) <= owed[t]

\* A timer that is stopped and not started again runs only if the thread had
\* looked at is_stopped before (TimerManager.cpp:49-64).
QuietOnceStopped ==
  [][\A t \in stopped : owed'[t] < owed[t] => t \in window]_timerVars

\* The destructor returns: the notification of stop() is never lost between
\* the thread's look at stopped_flag and its wait (TimerManager.cpp:22-44).
DestructorReturns == owner = "join" ~> owner = "done"

\* A timer is started while the heap is out of order, or puts it so.
Disturbs == disorder' /\ starting' \ starting # {}

\* A timer in the heap leaves it, or the manager is stopped, unless timers are
\* started again and again while the heap is out of order: a restart makes
\* those below it late (time.cpp:14, TimerManager.cpp:46-59), and they are lost
\* only if the restarts never end.  They may be then: a timer at the top that
\* is restarted each time before it expires is all the thread ever looks at.
EntriesLeave ==
  \/ []<><<Disturbs>>_timerVars
  \/ \A t \in Timer : t \in Queued ~> t \notin Queued \/ flag
=============================================================================
