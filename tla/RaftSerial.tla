----------------------------- MODULE RaftSerial -----------------------------
(***************************************************************************)
(* The Raft cluster when the calls of one node overlap only while one of   *)
(* them waits for a peer: what RaftNode does between two waits is one      *)
(* step.  RPCs of different nodes interleave freely; a request may be lost *)
(* (never handled), late (handled after its caller gave up, lost its role  *)
(* or restarted) or reordered, and its answer may be lost.                 *)
(***************************************************************************)
EXTENDS RaftLocal

CONSTANTS Triggered,   \* nodes on which the operator triggers elections
          Offers,      \* per node, what its clients propose
          Bounds,      \* what one execution may contain (see bounds)
          MaxLog       \* bound on the length of a proposing leader's log

ASSUME SerialAssumption ==
  /\ Triggered \subseteq Node
  /\ Offers \in [Node -> SUBSET Command]
  /\ Bounds \subseteq [mortal : SUBSET Node, maxTerm : Nat]
  /\ MaxLog \in Nat

VARIABLES
  bounds,           \* of this execution: the nodes that may crash and the
                    \* highest term of an election
  node,             \* the state of each node (RaftLocal)
  campaign,         \* per node, the StartElection call in progress
  proposal,         \* per node, the ProposeCommand call in progress
  voteRequests,     \* every RequestVote sent
  appendRequests,   \* every AppendEntries sent
  acknowledged,     \* history: [index, entry] reported committed to clients
  ballots,          \* history: [voter, term, cand], every vote ever granted
  elected,          \* history: [term, leader], every election ever won
  accepted          \* history: [node, log], every log a node has confirmed

history == <<acknowledged, ballots, elected, accepted>>
vars == <<bounds, node, campaign, proposal, voteRequests, appendRequests,
          history>>

Idle == [active |-> FALSE]

Init == /\ bounds \in Bounds
        /\ node = [n \in Node |-> Initial]
        /\ campaign = [n \in Node |-> Idle]
        /\ proposal = [n \in Node |-> Idle]
        /\ voteRequests = {} /\ appendRequests = {}
        /\ acknowledged = {} /\ ballots = {} /\ elected = {} /\ accepted = {}

Become(n, s) == node' = [node EXCEPT ![n] = s]

Grant(n, t, c) == ballots' = ballots \cup {[voter |-> n, term |-> t, cand |-> c]}

Accept(n, log) == accepted' = accepted \cup {[node |-> n, log |-> log]}

-----------------------------------------------------------------------------
\* RaftNode::StartElection up to the RequestVote calls.
Campaign(n) ==
  LET s == Campaigning(node[n], n) IN
  /\ n \in Triggered /\ s.term <= bounds.maxTerm
  /\ Become(n, s)
  /\ campaign' = [campaign EXCEPT ![n] =
                    [active |-> TRUE, term |-> s.term, votes |-> {n},
                     higher |-> {}]]
  /\ voteRequests' = voteRequests \cup {VoteRequest(s, n)}
  /\ Grant(n, s.term, n)
  /\ UNCHANGED <<proposal, appendRequests, acknowledged, elected, accepted>>

\* The operator waits for one election of a node before the next.
StartElection(n) == ~campaign[n].active /\ Campaign(n)

\* Peer p handles RequestVote m; the answer counts if the call that sent m
\* still waits for it.
HandleVoteRequest(p, m) ==
  LET s == Voted(node[p], m)
      c == campaign[m.cand]
      counts == c.active /\ c.term = m.term
      told == [c EXCEPT
                 !.votes = IF Grants(node[p], m) THEN @ \cup {p} ELSE @,
                 !.higher = IF s.term > m.term THEN @ \cup {s.term} ELSE @]
  IN
  /\ p # m.cand
  /\ Become(p, s)
  /\ \/ counts /\ campaign' = [campaign EXCEPT ![m.cand] = told]
     \/ UNCHANGED campaign
  /\ IF Grants(node[p], m) THEN Grant(p, m.term, m.cand) ELSE UNCHANGED ballots
  /\ UNCHANGED <<proposal, voteRequests, appendRequests, acknowledged, elected,
                 accepted>>

\* RaftNode::StartElection after the last answer or deadline, with the
\* answers of call c.
CountVotes(n, c) ==
  /\ \/ /\ c.higher # {}
        /\ \E t \in c.higher : Become(n, SteppedDown(node[n], t))
        /\ UNCHANGED elected
     \/ /\ c.higher = {} /\ Wins(node[n], c.votes)
        /\ Become(n, Crowned(node[n]))
        /\ elected' = elected \cup {[term |-> node[n].term, leader |-> n]}
     \/ /\ c.higher = {} /\ ~Wins(node[n], c.votes)
        /\ UNCHANGED <<node, elected>>
  /\ UNCHANGED <<proposal, voteRequests, appendRequests, acknowledged, ballots,
                 accepted>>

FinishElection(n) ==
  /\ campaign[n].active
  /\ campaign' = [campaign EXCEPT ![n] = Idle]
  /\ CountVotes(n, campaign[n])

-----------------------------------------------------------------------------
\* RaftNode::ProposeCommand from the Append to the AppendEntries calls.
Replicate(n, cmd) ==
  LET e == [term |-> node[n].term, cmd |-> cmd]
      s == Proposed(node[n], e)
  IN
  /\ Len(s.log) <= MaxLog
  /\ Become(n, s)
  /\ proposal' = [proposal EXCEPT ![n] =
                    [active |-> TRUE, index |-> Len(s.log), entry |-> e,
                     request |-> FullRequest(s, n), acks |-> {n}]]
  /\ appendRequests' = appendRequests \cup {FullRequest(s, n)}
  /\ Accept(n, s.log)
  /\ UNCHANGED <<campaign, voteRequests, acknowledged, ballots, elected>>

\* The whole of it, behind the check of the role; one at a time on a node.
Propose(n, cmd) ==
  node[n].role = Leader /\ ~proposal[n].active /\ Replicate(n, cmd)

\* RaftNode::HandleAppendEntries behind ObserveLeader, on a node in state s:
\* merge the entries, commit what the leader has committed, and answer.
AppendFromLeader(p, s, m) ==
  LET c == proposal[m.leader]
      matches == PreviousMatches(s.log, m.prevIndex, m.prevTerm)
  IN
  /\ Become(p, IF matches
               THEN Committed(WithLog(s, Merged(s.log, m.entries)), m.commit)
               ELSE s)
  /\ \/ /\ matches /\ c.active /\ c.request = m
        /\ proposal' = [proposal EXCEPT ![m.leader].acks = @ \cup {p}]
     \/ UNCHANGED proposal
  /\ IF matches THEN Accept(p, m.entries) ELSE UNCHANGED accepted
  /\ UNCHANGED <<campaign, voteRequests, appendRequests, acknowledged, ballots,
                 elected>>

\* The whole of it; a request of an old term is refused.
HandleAppendEntries(p, m) ==
  /\ p # m.leader
  /\ m.term >= node[p].term
  /\ AppendFromLeader(p, Observed(node[p], m.term), m)

\* RaftNode::ProposeCommand after the last answer or deadline, with the
\* answers of call c: with a majority it commits, answers the client and
\* sends the notification, with whatever term and log the node has by then.
CountAcks(n, c) ==
  LET s == Committed(node[n], c.index) IN
  /\ \/ /\ Cardinality(c.acks) >= QuorumSize
        /\ Become(n, s)
        /\ acknowledged' = acknowledged \cup
                             {[index |-> c.index, entry |-> c.entry]}
        /\ appendRequests' = appendRequests \cup {Notification(s, n)}
     \/ /\ Cardinality(c.acks) < QuorumSize
        /\ UNCHANGED <<node, acknowledged, appendRequests>>
  /\ UNCHANGED <<campaign, voteRequests, ballots, elected, accepted>>

FinishProposal(n) ==
  /\ proposal[n].active
  /\ proposal' = [proposal EXCEPT ![n] = Idle]
  /\ CountAcks(n, proposal[n])

-----------------------------------------------------------------------------
\* The process dies with disk state s and is started again.
RestartWith(n, s) ==
  /\ n \in bounds.mortal
  /\ Become(n, Restarted(s))
  /\ campaign' = [campaign EXCEPT ![n] = Idle]
  /\ proposal' = [proposal EXCEPT ![n] = Idle]
  /\ UNCHANGED <<voteRequests, appendRequests, history>>

\* It dies between two handlers.
Restart(n) == RestartWith(n, node[n])

\* Terms the node may be about to adopt.
NewTerms(n) ==
  {t \in {node[n].term + 1} : n \in Triggered /\ t <= bounds.maxTerm}
    \cup {m.term : m \in {r \in voteRequests \cup appendRequests :
                            r.term > node[n].term}}

\* It dies after SetCurrentTerm, or after the SetVotedFor("") that follows.
CrashInTermChange(n) ==
  \E t \in NewTerms(n) : \/ RestartWith(n, TermOnly(node[n], t))
                         \/ RestartWith(n, Adopt(node[n], t))

\* It dies in AppendFromLeader, some of the entries written.
CrashInAppend(n, m) ==
  /\ n # m.leader /\ m.term >= node[n].term
  /\ PreviousMatches(node[n].log, m.prevIndex, m.prevTerm)
  /\ \E log \in DuringMerge(node[n].log, m.entries) :
       RestartWith(n, WithLog(Observed(node[n], m.term), log))

-----------------------------------------------------------------------------
Calls ==
  \/ \E n \in Node :
       \/ StartElection(n) \/ FinishElection(n)
       \/ \E cmd \in Offers[n] : Propose(n, cmd)
       \/ FinishProposal(n)
  \/ \E n \in Node, m \in voteRequests : HandleVoteRequest(n, m)
  \/ \E n \in Node, m \in appendRequests : HandleAppendEntries(n, m)

Crashes ==
  \E n \in Node :
    \/ Restart(n) \/ CrashInTermChange(n)
    \/ \E m \in appendRequests : CrashInAppend(n, m)

Next == (Calls \/ Crashes) /\ UNCHANGED bounds

Spec == Init /\ [][Next]_vars

-----------------------------------------------------------------------------
\* Types of the variables.
TypeOK ==
  /\ node \in [Node -> State]
  /\ \A n \in Node :
       /\ campaign[n].active => /\ campaign[n].term \in Nat
                                /\ campaign[n].votes \subseteq Node
       /\ proposal[n].active => /\ proposal[n].entry \in Entry
                                /\ proposal[n].acks \subseteq Node
  /\ \A m \in appendRequests : m.entries \in Seq(Entry)

\* Two logs that hold an entry of the same index and term are equal up to it
\* (log_replicator.cpp:16): comparing terms alone, as the merge loop does,
\* never keeps a wrong command.
LogMatching ==
  \A m, n \in Node : \A i \in DOMAIN node[m].log \cap DOMAIN node[n].log :
    node[m].log[i].term = node[n].log[i].term
      => SubSeq(node[m].log, 1, i) = SubSeq(node[n].log, 1, i)

\* A command reported committed is in the log of every leader of its term or
\* a later one: no election and no truncation loses it (raft_node.cpp:113).
LeaderCompleteness ==
  \A a \in acknowledged, n \in Node :
    node[n].role = Leader /\ node[n].term >= a.entry.term
      => a.index \in DOMAIN node[n].log /\ node[n].log[a.index] = a.entry

\* A command reported committed is on the disks of a majority from then on,
\* through truncations, deposed leaders and restarts.
AcknowledgedIsDurable ==
  \A a \in acknowledged :
    Cardinality({n \in Node : /\ a.index \in DOMAIN node[n].log
                              /\ node[n].log[a.index] = a.entry})
      >= QuorumSize

\* A state machine shows exactly the committed part of its node's log: no
\* truncation reaches an entry that was applied, no commit index goes back,
\* no entry is skipped, and a restart replays the same
\* (commit_manager.cpp:18,28,52-53).  The types come with it.
AppliedIsCommitted ==
  /\ TypeOK
  /\ \A n \in Node :
       node[n].applied = SubSeq(node[n].log, 1, node[n].commit)

Abstract == INSTANCE ReplicatedLog WITH
  learned <- [n \in Node |-> node[n].applied]

\* The cluster implements one growing log that every state machine follows.
ImplementsReplicatedLog == Abstract!LSpec
=============================================================================
