---------------------------- MODULE TokenBucket ----------------------------
(***************************************************************************)
(* The token bucket of produce_consume: producer threads add one token a   *)
(* second up to a maximum, each consumer thread takes its number of tokens *)
(* at a time and waits on a condition variable for as many.  mtx makes     *)
(* each method one step, up to a wait.                                     *)
(*                                                                         *)
(* notify_one may wake any of the waiting threads; one whose demand is not *)
(* met waits again and the notification is gone.                           *)
(***************************************************************************)
EXTENDS Naturals

CONSTANTS
  Producer, Consumer,   \* threads
  TakenMax,             \* taken_maxNum
  Demand,               \* per consumer, consume_num_everytime
  Rounds,               \* per consumer, consume_num
  Tries,                \* what tryConsumeToken is called with
  MayStop               \* threads whose stop() may be called

ASSUME BucketAssumption ==
  /\ Producer \cap Consumer = {}
  /\ TakenMax \in Nat \ {0}
  /\ Demand \in [Consumer -> 1 .. TakenMax]
  /\ Rounds \in [Consumer -> Nat]
  /\ Tries \subseteq Nat
  /\ MayStop \subseteq Producer \cup Consumer

VARIABLES
  tokens,    \* current_takenNum
  pc,        \* per thread, where it is
  left,      \* per consumer, consume_num
  running,   \* runState and consume_run
  tried      \* calls of tryConsumeToken made, at most one for each of Tries

vars == <<tokens, pc, left, running, tried>>

Waiting == {c \in Consumer : pc[c] = "waiting"}

Init == /\ tokens = 0
        /\ pc = [t \in Producer \cup Consumer |-> "loop"]
        /\ left = Rounds
        /\ running = [t \in Producer \cup Consumer |-> TRUE]
        /\ tried = {}

\* cond_.notify_one() when there may be nobody to notify.
NotifyOne ==
  \/ Waiting = {} /\ UNCHANGED pc
  \/ \E c \in Waiting : pc' = [pc EXCEPT ![c] = "woken"]

-----------------------------------------------------------------------------
\* Mutant: consumers are told of the first token only.
AddAndNotifyFirst(p) == /\ pc[p] = "loop"
                        /\ tokens < TakenMax /\ tokens' = tokens + 1
                        /\ IF tokens = 0 THEN NotifyOne ELSE UNCHANGED pc
                        /\ UNCHANGED <<left, running, tried>>

\* addTaken; at the maximum it changes nothing and notifies nobody.  The
\* flag runState is no atomic, so the thread may go on after stop().
AddTaken(p) == /\ pc[p] = "loop"
               /\ tokens < TakenMax
               /\ tokens' = tokens + 1
               /\ NotifyOne
               /\ UNCHANGED <<left, running, tried>>

\* The loop of produce::start ends.
ProducerEnds(p) == /\ pc[p] = "loop" /\ ~running[p]
                   /\ pc' = [pc EXCEPT ![p] = "done"]
                   /\ UNCHANGED <<tokens, left, running, tried>>

\* tryConsumeToken(n)
TryConsume(n) == /\ n \notin tried
                 /\ tried' = tried \cup {n}
                 /\ tokens' = IF tokens >= n THEN tokens - n ELSE tokens
                 /\ UNCHANGED <<pc, left, running>>

-----------------------------------------------------------------------------
\* The loop of consume::start: another round, or the end.
ConsumerLoop(c) ==
  /\ pc[c] = "loop"
  /\ pc' = [pc EXCEPT ![c] = IF running[c] /\ left[c] > 0 THEN "enter"
                             ELSE "done"]
  /\ UNCHANGED <<tokens, left, running, tried>>

\* consumetoken, its predicate true: take the tokens, call back, sleep.
Take(c) == /\ pc[c] \in {"enter", "woken"}
           /\ tokens >= Demand[c]
           /\ tokens' = tokens - Demand[c]
           /\ left' = [left EXCEPT ![c] = @ - 1]
           /\ pc' = [pc EXCEPT ![c] = "loop"]
           /\ UNCHANGED <<running, tried>>

\* Its predicate false: wait, also after a wake-up.
Wait(c) == /\ pc[c] \in {"enter", "woken"}
           /\ tokens < Demand[c]
           /\ pc' = [pc EXCEPT ![c] = "waiting"]
           /\ UNCHANGED <<tokens, left, running, tried>>

\* A condition variable may wake a thread for no reason.
SpuriousWakeup(c) == /\ pc[c] = "waiting"
                     /\ pc' = [pc EXCEPT ![c] = "woken"]
                     /\ UNCHANGED <<tokens, left, running, tried>>

\* consume::stop and produce::stop before their join: no notification.
Stop(t) == /\ t \in MayStop /\ running[t]
           /\ running' = [running EXCEPT ![t] = FALSE]
           /\ UNCHANGED <<tokens, pc, left, tried>>

-----------------------------------------------------------------------------
Consume(c) == ConsumerLoop(c) \/ Take(c) \/ Wait(c)

Next == \/ \E p \in Producer : AddTaken(p) \/ ProducerEnds(p)
        \/ \E c \in Consumer : Consume(c) \/ SpuriousWakeup(c)
        \/ \E n \in Tries : TryConsume(n)
        \/ \E t \in Producer \cup Consumer : Stop(t)

Spec == Init /\ [][Next]_vars

\* Threads that can run do; a spurious wake-up need never come and
\* notify_one is free to prefer anybody.
FairSpec == /\ Spec
            /\ \A p \in Producer : WF_vars(AddTaken(p))
            /\ \A c \in Consumer : WF_vars(Consume(c))

-----------------------------------------------------------------------------
\* Types of the variables; the bucket never overflows and is never overdrawn.
TypeOK == /\ tokens \in 0 .. TakenMax
          /\ pc \in [Producer \cup Consumer ->
                       {"loop", "enter", "waiting", "woken", "done"}]
          /\ left \in [Consumer -> Nat]
          /\ running \in [Producer \cup Consumer -> BOOLEAN]
          /\ tried \subseteq Tries

\* A full bucket is never ignored by everybody.  At the maximum addTaken
\* notifies nobody (tokenManage.cpp:11-15), so if all consumers that need
\* tokens wait, none would ever be told that there are some: the one the
\* last addTaken woke must still be about to look.
FullIsNoticed ==
  tokens = TakenMax /\ Waiting # {} => \E c \in Consumer : pc[c] = "woken"

\* Every consumer that is not stopped gets its tokens as often as it asks,
\* although a notification can be spent on a thread that needs more than
\* there is, or on one that is stopped.
AllServed == \A c \in Consumer : <>(left[c] = 0 \/ ~running[c])

\* consume::stop joins a thread that may be waiting for tokens; it returns
\* as long as producers run (consume.cpp:19-23).
StopReturns == \A c \in Consumer : ~running[c] ~> pc[c] = "done"
=============================================================================
