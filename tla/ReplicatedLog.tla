--------------------------- MODULE ReplicatedLog ---------------------------
(***************************************************************************)
(* What the cluster promises its clients: all state machines are given the *)
(* same growing sequence of entries, each as much of it as it has heard.   *)
(***************************************************************************)
EXTENDS Naturals, Sequences, SequencesExt

CONSTANT Node

VARIABLE learned    \* what each state machine has been given

LInit == learned = [n \in Node |-> <<>>]

\* Nodes are given more at the end, in an order no two of them disagree on.
Learn == /\ \A n \in Node : IsPrefix(learned[n], learned'[n])
         /\ \A m, n \in Node : \/ IsPrefix(learned'[m], learned'[n])
                               \/ IsPrefix(learned'[n], learned'[m])

Quiet == UNCHANGED learned

LSpec == LInit /\ [][Quiet \/ Learn]_learned
=============================================================================
