--------------------------- MODULE MCRaftThreads ---------------------------
(***************************************************************************)
(* RaftThreads for TLC, with the instance of MCRaftSerial.                 *)
(***************************************************************************)
EXTENDS RaftThreads

MCOffers == [n \in Node |-> {n}]

MCBounds == {[mortal |-> Node, maxTerm |-> 2]}
=============================================================================
