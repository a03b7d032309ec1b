---------------------------- MODULE MCRaftSerial ----------------------------
(***************************************************************************)
(* RaftSerial for TLC: the clients of a node propose a command of their    *)
(* own (here the node itself), so that entries of one term and index but   *)
(* different leaders are told apart.  An execution has crashes and two     *)
(* terms, or three terms.  Nodes that are triggered alike are              *)
(* interchangeable.                                                        *)
(***************************************************************************)
EXTENDS RaftSerial, TLC

MCOffers == [n \in Node |-> {n}]

MCBounds == {[mortal |-> Node, maxTerm |-> 2],
             [mortal |-> {}, maxTerm |-> 3]}

Symmetry == Permutations(Triggered) \cup Permutations(Node \ Triggered)

\* Requests are kept for ever; one that every peer has outlived changes
\* nothing any more, and states that differ only in those are one state.
LiveVotes ==
  {m \in voteRequests :
     \/ \E p \in Node \ {m.cand} : node[p].term <= m.term
     \/ campaign[m.cand].active /\ campaign[m.cand].term = m.term}

LiveAppends ==
  {m \in appendRequests : \E p \in Node \ {m.leader} : node[p].term <= m.term}

View == <<bounds, node, campaign, proposal, LiveVotes, LiveAppends,
          acknowledged>>
=============================================================================
