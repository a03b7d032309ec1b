----------------------------- MODULE TimerPool -----------------------------
(***************************************************************************)
(* TimerManager and ThreadPool of TimeManage_consume_model: the manager    *)
(* thread pops expired timers from a heap and submits their callbacks to a *)
(* pool of workers; the owner adds and removes timers, then destroys first *)
(* the manager and then the pool, as main() does.  The manager holds mtx   *)
(* from one wait to the next, but Timer::stop, running and the pool are    *)
(* not protected by it.  Time passes in ticks, and left counts them down.  *)
(***************************************************************************)
EXTENDS Naturals, Sequences, SequencesExt

CONSTANTS
  Timer,
  Timeout,      \* per timer, timeOut_ms in ticks
  Repeats,      \* the timers that were added with repeat
  Worker,       \* the pool's threads
  MaxBacklog    \* bound: no time passes while the pool has that many tasks

ASSUME TimerAssumption ==
  /\ Timeout \in [Timer -> Nat \ {0}]
  /\ Repeats \subseteq Timer
  /\ MaxBacklog \in Nat \ {0}
  /\ {"idle", "exited"} \cap Timer = {}

VARIABLES
  owner,       \* where the thread is that owns manager and pool
  running,     \* TimerManager::running
  poolRunning, \* ThreadPool::running
  added, removed,   \* timers the owner has added, and removed again
  heap,        \* timer_queue, in the order of expiry
  left,        \* per timer, ticks until it expires; 0 for an expired one
  manager,     \* where the manager thread is
  current,     \* the timer it has popped
  sleep,       \* ticks until its wait_for times out
  tasks,       \* ThreadPool::tasks
  worker,      \* per worker, the timer whose callback it runs, or a state
  shots,       \* history: submissions of a timer, counted up to 2
  late,        \* history: submissions of a timer after its removal, up to 2
  caught       \* history: timers removed right before their submission

NoTimer == "none"

calls == <<added, removed>>
thread == <<manager, current, sleep>>
threadPool == <<tasks, worker>>
history == <<shots, late, caught>>
timerVars == <<owner, running, poolRunning, calls, heap, left, thread, threadPool, history>>

TimerInit == /\ owner = "using" /\ running = TRUE /\ poolRunning = TRUE
             /\ added = {} /\ removed = {}
             /\ heap = <<>> /\ left = [t \in Timer |-> 0]
             /\ manager = "test" /\ current = NoTimer /\ sleep = 0
             /\ tasks = <<>> /\ worker = [w \in Worker |-> "idle"]
             /\ shots = [t \in Timer |-> 0] /\ late = [t \in Timer |-> 0]
             /\ caught = {}

\* The manager thread holds mtx between two of its steps.
MutexHeld == manager \in {"stopped?", "submit", "again"}

-----------------------------------------------------------------------------
\* Mutant: the comparison of the heap is the other way round.
InsertedBackwards(t) ==
  {InsertAt(heap, i, t) : i \in
     {k \in 1 .. Len(heap) + 1 :
        /\ \A j \in 1 .. k - 1 : left[heap[j]] >= Timeout[t]
        /\ \A j \in k .. Len(heap) : left[heap[j]] <= Timeout[t]}}

\* The heap after t has been pushed with its full timeout; timers that
\* expire at the same time may be in any order.
Inserted(t) ==
  {InsertAt(heap, i, t) : i \in
     {k \in 1 .. Len(heap) + 1 :
        /\ \A j \in 1 .. k - 1 : left[heap[j]] <= Timeout[t]
        /\ \A j \in k .. Len(heap) : left[heap[j]] >= Timeout[t]}}

PushTimer(t) == /\ heap' \in Inserted(t)
                /\ left' = [left EXCEPT ![t] = Timeout[t]]

\* The owner.  Its countdown starts at the push; the code reads the clock a
\* little earlier, when it makes the timer, before it takes mtx.
AddTimer(t) == /\ owner = "using" /\ ~MutexHeld
               /\ t \notin added
               /\ added' = added \cup {t}
               /\ PushTimer(t)
               /\ UNCHANGED <<owner, running, poolRunning, removed, thread,
                              threadPool, history>>

\* The timer stays in the heap.
RemoveTimer(t) == /\ owner = "using" /\ t \in added \ removed
                  /\ removed' = removed \cup {t}
                  /\ caught' = IF manager = "submit" /\ current = t
                               THEN caught \cup {t} ELSE caught
                  /\ UNCHANGED <<owner, running, poolRunning, added, heap,
                                 left, thread, threadPool, shots, late>>

\* ~TimerManager: running is cleared under mtx, then the thread is joined.
StopManager == /\ owner = "using" /\ ~MutexHeld
               /\ running' = FALSE
               /\ owner' = "joinManager"
               /\ UNCHANGED <<poolRunning, calls, heap, left, thread, threadPool,
                              history>>

\* The join returns; ~ThreadPool clears its flag.
StopPool == /\ owner = "joinManager" /\ manager = "exited"
            /\ poolRunning' = FALSE
            /\ owner' = "joinPool"
            /\ UNCHANGED <<running, calls, heap, left, thread, threadPool, history>>

JoinPool == /\ owner = "joinPool" /\ \A w \in Worker : worker[w] = "exited"
            /\ owner' = "done"
            /\ UNCHANGED <<running, poolRunning, calls, heap, left, thread,
                           threadPool, history>>

-----------------------------------------------------------------------------
\* The manager thread, TimerManager::run.
Test == /\ manager = "test"
        /\ manager' = IF running THEN "lock" ELSE "exited"
        /\ UNCHANGED <<owner, running, poolRunning, calls, heap, left, current,
                       sleep, threadPool, history>>

\* A look at the top: it has expired, or the manager sleeps until it has.
LookAtTop ==
  \/ /\ left[Head(heap)] = 0
     /\ heap' = Tail(heap)
     /\ current' = Head(heap)
     /\ manager' = "stopped?"
     /\ UNCHANGED sleep
  \/ /\ left[Head(heap)] > 0
     /\ sleep' = left[Head(heap)]
     /\ manager' = "sleep"
     /\ UNCHANGED <<heap, current>>

Lock == /\ manager = "lock"
        /\ \/ heap # <<>> /\ LookAtTop
           \/ /\ heap = <<>> /\ manager' = "wait"
              /\ UNCHANGED <<heap, current, sleep>>
        /\ UNCHANGED <<owner, running, poolRunning, calls, left, threadPool, history>>

\* Mutant: the wait for a timer does not end when the manager is stopped.
WaitForTimer == /\ manager = "wait" /\ heap # <<>>
                /\ LookAtTop
                /\ UNCHANGED <<owner, running, poolRunning, calls, left, threadPool,
                               history>>

\* cv.wait returns when there is a timer or the manager is stopped.
Wait == /\ manager = "wait"
        /\ \/ running /\ heap # <<>> /\ LookAtTop
           \/ ~running /\ manager' = "exited" /\ UNCHANGED <<heap, current, sleep>>
        /\ UNCHANGED <<owner, running, poolRunning, calls, left, threadPool, history>>

\* cv.wait_for ends after its time, or when the manager is stopped; a timer
\* added in the meantime does not end it.
Sleep == /\ manager = "sleep" /\ (sleep = 0 \/ ~running)
         /\ sleep' = 0
         /\ manager' = "test"
         /\ UNCHANGED <<owner, running, poolRunning, calls, heap, left, current,
                        threadPool, history>>

\* Mutant: what was removed is only found out after the submission.
AlwaysSubmit == /\ manager = "stopped?"
                /\ manager' = "submit"
                /\ UNCHANGED <<owner, running, poolRunning, calls, heap, left,
                               current, sleep, threadPool, history>>

\* The first look at is_stopped.
CheckStopped == /\ manager = "stopped?"
                /\ manager' = IF current \in removed THEN "test" ELSE "submit"
                /\ UNCHANGED <<owner, running, poolRunning, calls, heap, left,
                               current, sleep, threadPool, history>>

UpTo2(n) == IF n < 2 THEN n + 1 ELSE 2

\* thread_pool.submit
Submit == /\ manager = "submit"
          /\ tasks' = Append(tasks, current)
          /\ shots' = [shots EXCEPT ![current] = UpTo2(@)]
          /\ late' = IF current \in removed
                     THEN [late EXCEPT ![current] = UpTo2(@)] ELSE late
          /\ UNCHANGED caught
          /\ manager' = "again"
          /\ UNCHANGED <<owner, running, poolRunning, calls, heap, left,
                         current, sleep, worker>>

\* Mutant: every timer is put back.
PutBack == /\ manager = "again"
           /\ PushTimer(current)
           /\ manager' = "test"
           /\ UNCHANGED <<owner, running, poolRunning, calls, current, sleep,
                          threadPool, history>>

\* The second look at is_stopped, for a timer that repeats.
Again == /\ manager = "again"
         /\ IF current \in Repeats \ removed
            THEN PushTimer(current)
            ELSE UNCHANGED <<heap, left>>
         /\ manager' = "test"
         /\ UNCHANGED <<owner, running, poolRunning, calls, current, sleep,
                        threadPool, history>>

-----------------------------------------------------------------------------
\* Mutant: a worker returns as soon as the pool is stopped.
TakeUnlessStopped(w) ==
  /\ worker[w] = "idle"
  /\ \/ /\ poolRunning /\ tasks # <<>>
        /\ worker' = [worker EXCEPT ![w] = Head(tasks)]
        /\ tasks' = Tail(tasks)
     \/ /\ ~poolRunning
        /\ worker' = [worker EXCEPT ![w] = "exited"]
        /\ UNCHANGED tasks
  /\ UNCHANGED <<owner, running, poolRunning, calls, heap, left, thread, history>>

\* ThreadPool::worker takes a task; it returns when the pool is stopped and
\* no task is left.
TakeTask(w) ==
  /\ worker[w] = "idle"
  /\ \/ /\ tasks # <<>>
        /\ worker' = [worker EXCEPT ![w] = Head(tasks)]
        /\ tasks' = Tail(tasks)
     \/ /\ tasks = <<>> /\ ~poolRunning
        /\ worker' = [worker EXCEPT ![w] = "exited"]
        /\ UNCHANGED tasks
  /\ UNCHANGED <<owner, running, poolRunning, calls, heap, left, thread, history>>

\* The callback has run.
RunTask(w) == /\ worker[w] \in Timer
              /\ worker' = [worker EXCEPT ![w] = "idle"]
              /\ UNCHANGED <<owner, running, poolRunning, calls, heap, left,
                             thread, tasks, history>>

Tick == /\ Len(tasks) < MaxBacklog
        /\ left' = [t \in Timer |-> IF left[t] > 0 THEN left[t] - 1 ELSE 0]
        /\ sleep' = IF sleep > 0 THEN sleep - 1 ELSE 0
        /\ UNCHANGED <<owner, running, poolRunning, calls, heap, manager,
                       current, threadPool, history>>

-----------------------------------------------------------------------------
Manager == Test \/ Lock \/ Wait \/ Sleep \/ CheckStopped \/ Submit \/ Again

Work(w) == TakeTask(w) \/ RunTask(w)

Destroy == StopPool \/ JoinPool

TimerNext == \/ \E t \in Timer : AddTimer(t) \/ RemoveTimer(t)
             \/ StopManager \/ Destroy
             \/ Manager
             \/ \E w \in Worker : Work(w)
             \/ Tick

TimerSpec == TimerInit /\ [][TimerNext]_timerVars

\* Threads that can run do, time passes; the owner need not call anything.
FairTimerSpec == /\ TimerSpec
                 /\ WF_timerVars(Destroy) /\ WF_timerVars(Manager) /\ WF_timerVars(Tick)
                 /\ \A w \in Worker : WF_timerVars(Work(w))

-----------------------------------------------------------------------------
\* Types of the variables; a timer is in the heap once, and not while the
\* manager deals with it.
TimerTypeOK ==
  /\ removed \subseteq added /\ added \subseteq Timer
  /\ heap \in Seq(added) /\ IsInjective(heap)
  /\ left \in [Timer -> Nat] /\ sleep \in Nat
  /\ MutexHeld => current \in added \ ToSet(heap)
  /\ tasks \in Seq(added)
  /\ worker \in [Worker -> added \cup {"idle", "exited"}]
  /\ shots \in [Timer -> 0 .. 2] /\ late \in [Timer -> 0 .. 2]
  /\ caught \subseteq removed

\* A one-shot timer is submitted at most once, although it and its heap
\* entry live on in the task (TimerManager.cpp:68-79).  The types come with
\* it: a timer is in the heap at most once, whatever it does there.
OneShot == TimerTypeOK /\ \A t \in Timer \ Repeats : shots[t] <= 1

\* remove_timer only sets a flag.  No submission follows it, but for one that
\* the manager was about to make (TimerManager.cpp:70-75).
QuietOnceRemoved == \A t \in Timer : late[t] <= IF t \in caught THEN 1 ELSE 0

\* Nothing is submitted to a pool that is being destroyed, and the pool is
\* not gone before all it was given has run (main.cpp:10-11,
\* ThreadPool.cpp:39-42).
NothingIsDropped ==
  /\ ~poolRunning => manager = "exited"
  /\ (\E w \in Worker : worker[w] = "exited") => tasks = <<>>

\* The destructors return.
StopReturns == owner = "joinManager" ~> owner = "done"

\* A timer that is in the heap is submitted after that, whatever other
\* timers repeat, unless it is removed or the manager is stopped
\* (TimerManager.cpp:43-83).
TimersFire ==
  \A t \in Timer :
    t \in ToSet(heap) ~>
      \/ manager = "again" /\ current = t
      \/ t \in removed \/ ~running
=============================================================================
