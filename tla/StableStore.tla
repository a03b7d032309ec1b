---------------------------- MODULE StableStore ----------------------------
(***************************************************************************)
(* What RaftNode relies on when it calls LogStore: the state is changed in *)
(* memory, then made durable in ONE step; a crash loses what was not yet   *)
(* durable and a restart starts from exactly what was.  A store that may   *)
(* lose (MayLose) may in addition lose everything, but never a part of it, *)
(* and never falls back to something older.                                *)
(***************************************************************************)
CONSTANTS Store,      \* the values a store can hold
          Fresh,      \* the value of a store that was never written
          MayLose     \* TRUE: all that is durable may be lost

VARIABLES volatile,   \* the state the process works on
          durable,    \* the state a restart would find
          alive       \* the process is running

svars == <<volatile, durable, alive>>

SInit == volatile = Fresh /\ durable = Fresh /\ alive = TRUE

\* The process changes its state; nothing is durable yet.
Modify == /\ alive
          /\ volatile' \in Store
          /\ UNCHANGED <<durable, alive>>

\* The whole state becomes durable at once: there is no mixture of an old
\* and a new state, and no moment at which neither is there.
Persist == /\ alive
           /\ durable' = volatile
           /\ UNCHANGED <<volatile, alive>>

Die == /\ alive
       /\ alive' = FALSE
       /\ volatile' = Fresh
       /\ UNCHANGED durable

\* Everything is lost, by a process that goes on or by one that dies.
Lose == /\ MayLose /\ alive
        /\ durable' = Fresh
        /\ \/ UNCHANGED <<volatile, alive>>
           \/ alive' = FALSE /\ volatile' = Fresh

Recover == /\ ~alive
           /\ alive' = TRUE
           /\ volatile' = durable
           /\ UNCHANGED durable

SNext == Modify \/ Persist \/ Die \/ Lose \/ Recover

SSpec == SInit /\ [][SNext]_svars
=============================================================================
