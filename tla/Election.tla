------------------------------ MODULE Election ------------------------------
(***************************************************************************)
(* Terms, votes and roles of a cluster: ElectionManager, the election loop *)
(* of RaftNode::StartElection and the RequestVote calls of PeerReplicator. *)
(*                                                                         *)
(* Every method of ElectionManager holds mutex_ and is one action.  The    *)
(* RequestVote calls of an election are made one after the other, each     *)
(* with a deadline; what happens on a node between two of them is up to    *)
(* the other threads of its gRPC server.  A request whose caller gave up   *)
(* may still be handled; one that is never handled was lost.  The result   *)
(* of the log comparison (IsCandidateLogUpToDate) is left open here, so    *)
(* what holds below holds whatever the logs are.                           *)
(*                                                                         *)
(* A node persists its term and its vote by two saves, and may crash       *)
(* between them.  A save is atomic (StableStore).                          *)
(***************************************************************************)
EXTENDS Naturals, FiniteSets

CONSTANTS
  Node,        \* the local node and its peers
  None,        \* the empty node id
  Triggered,   \* the nodes on which the operator triggers elections
  MaxTerm,     \* bound: no election is started beyond this term
  Overlap      \* TRUE: a node may run two StartElection calls at a time

ASSUME ElectionAssumption ==
  /\ IsFiniteSet(Node)
  /\ None \notin Node
  /\ Triggered \subseteq Node
  /\ MaxTerm \in Nat
  /\ Overlap \in BOOLEAN

Follower == "follower"
Candidate == "candidate"
Leader == "leader"

Quorum == {Q \in SUBSET Node : Cardinality(Q) * 2 > Cardinality(Node)}

\* Mutants, here and below, are what a plausible slip would have written in
\* place of the definition that follows them.  This one: half is enough.
HalfIsEnough == Cardinality(Node) \div 2

\* cluster_size / 2 + 1
QuorumSize == Cardinality(Node) \div 2 + 1

VARIABLES
  currentTerm, votedFor,   \* persistent (LogStore)
  role, leaderId,          \* ElectionManager's memory
  calls,                   \* StartElection calls in progress
  requests,                \* RequestVote requests sent and not yet handled
  replicating,             \* nodes inside ProposeCommand
  announced,               \* terms and leader ids sent in AppendEntries
  ballots,                 \* history: every vote ever granted
  elected                  \* history: every CompleteElection that succeeded

persistent == <<currentTerm, votedFor>>
volatile == <<role, leaderId>>
network == <<calls, requests>>
leading == <<replicating, announced>>
history == <<ballots, elected>>
vars == <<persistent, volatile, network, leading, history>>

\* todo: peers not called yet; waiting: the peer whose answer is awaited;
\* votes: who granted, the node itself first; higher: terms above its own
\* that were answered.
Call == [node : Node, term : Nat, todo : SUBSET Node,
         waiting : Node \cup {None}, votes : SUBSET Node,
         higher : SUBSET Nat]

Request == [to : Node, term : Nat, cand : Node]

Claim == [term : Nat, leader : Node]

Ballot == [voter : Node, term : Nat, cand : Node]

-----------------------------------------------------------------------------
Init == /\ currentTerm = [n \in Node |-> 0]
        /\ votedFor = [n \in Node |-> None]
        /\ role = [n \in Node |-> Follower]
        /\ leaderId = [n \in Node |-> None]
        /\ calls = {} /\ requests = {}
        /\ replicating = {} /\ announced = {}
        /\ ballots = {} /\ elected = {}

\* The vote of node n once it has seen term t; mutant: the vote is cleared by
\* an equal term too.
VoteClearedByEqual(n, t) ==
  IF t >= currentTerm[n] THEN None ELSE votedFor[n]

VoteAfter(n, t) == IF t > currentTerm[n] THEN None ELSE votedFor[n]

\* The role of node n once a candidate of term t has asked for its vote.
RoleAfter(n, t) == IF t > currentTerm[n] THEN Follower ELSE role[n]

\* voted_for.empty() || voted_for == candidate_id; mutant: any candidate.
AnyCandidate(vote, cand) == TRUE

CanVote(vote, cand) == vote \in {None, cand}

\* ElectionManager::StartElection, then the call to RequestVotes.
StartElection(n) ==
  LET t == currentTerm[n] + 1 IN
  /\ n \in Triggered
  /\ t <= MaxTerm
  /\ Overlap \/ \A c \in calls : c.node # n
  /\ currentTerm' = [currentTerm EXCEPT ![n] = t]
  /\ votedFor' = [votedFor EXCEPT ![n] = n]
  /\ role' = [role EXCEPT ![n] = Candidate]
  /\ leaderId' = [leaderId EXCEPT ![n] = None]
  /\ calls' = calls \cup
       {[node |-> n, term |-> t, todo |-> Node \ {n}, waiting |-> None,
         votes |-> {n}, higher |-> {}]}
  /\ ballots' = ballots \cup {[voter |-> n, term |-> t, cand |-> n]}
  /\ UNCHANGED <<requests, leading, elected>>

Replace(c, d) == calls' = (calls \ {c}) \cup {d}

\* RequestVoteFromPeer for the next peer of the list.
AskPeer(c, p) ==
  /\ c.waiting = None /\ p \in c.todo
  /\ Replace(c, [c EXCEPT !.todo = @ \ {p}, !.waiting = p])
  /\ requests' = requests \cup {[to |-> p, term |-> c.term, cand |-> c.node]}
  /\ UNCHANGED <<persistent, volatile, leading, history>>

\* The 800 ms deadline: the answer counts as {term 0, not granted}.
Deadline(c) ==
  /\ c.waiting # None
  /\ Replace(c, [c EXCEPT !.waiting = None])
  /\ UNCHANGED <<persistent, volatile, requests, leading, history>>

\* The answer of p to request m reaches the call that waits for it, if one
\* still does.
Answer(m, granted, term) ==
  LET waits(c) == c.node = m.cand /\ c.term = m.term /\ c.waiting = m.to
      told(c) == [c EXCEPT !.waiting = None,
                           !.votes = IF granted THEN @ \cup {m.to} ELSE @,
                           !.higher = IF term > c.term THEN @ \cup {term}
                                                       ELSE @]
  IN  calls' = {IF waits(c) THEN told(c) ELSE c : c \in calls}

\* ElectionManager::HandleVoteRequest with the result of the log comparison.
HandleVoteRequest(m, logIsCurrent) ==
  LET p == m.to
      newer == m.term > currentTerm[p]
      vote == VoteAfter(p, m.term)
      granted == /\ m.term >= currentTerm[p]
                 /\ CanVote(vote, m.cand)
                 /\ logIsCurrent
  IN
  /\ requests' = requests \ {m}
  /\ currentTerm' = [currentTerm EXCEPT ![p] = IF newer THEN m.term ELSE @]
  /\ votedFor' = [votedFor EXCEPT ![p] = IF granted THEN m.cand ELSE vote]
  /\ role' = [role EXCEPT ![p] = RoleAfter(p, m.term)]
  /\ leaderId' = [leaderId EXCEPT ![p] = IF newer THEN None ELSE @]
  /\ ballots' = IF granted
                THEN ballots \cup {[voter |-> p, term |-> m.term,
                                    cand |-> m.cand]}
                ELSE ballots
  /\ Answer(m, granted, IF newer THEN m.term ELSE currentTerm[p])
  /\ UNCHANGED <<leading, elected>>

\* ElectionManager::StepDown.
StepDown(n, t) ==
  /\ currentTerm' = [currentTerm EXCEPT ![n] = IF t > @ THEN t ELSE @]
  /\ votedFor' = [votedFor EXCEPT ![n] = VoteAfter(n, t)]
  /\ role' = [role EXCEPT ![n] = Follower]
  /\ leaderId' = [leaderId EXCEPT ![n] = None]

\* ElectionManager::CompleteElection looks at the role and the count, not
\* at the term the votes were asked for.
CompleteElection(n, votes) ==
  IF role[n] = Candidate /\ Cardinality(votes) >= QuorumSize
  THEN /\ role' = [role EXCEPT ![n] = Leader]
       /\ leaderId' = [leaderId EXCEPT ![n] = n]
       /\ elected' = elected \cup {[term |-> currentTerm[n], leader |-> n]}
       /\ UNCHANGED <<persistent, ballots>>
  ELSE UNCHANGED <<persistent, volatile, history>>

\* The end of RaftNode::StartElection, when every peer answered or timed out.
FinishElection(c) ==
  /\ c.todo = {} /\ c.waiting = None
  /\ calls' = calls \ {c}
  /\ UNCHANGED <<requests, leading>>
  /\ \/ /\ c.higher # {}
        /\ \E t \in c.higher : StepDown(c.node, t)
        /\ UNCHANGED history
     \/ /\ c.higher = {}
        /\ CompleteElection(c.node, c.votes)

-----------------------------------------------------------------------------
\* ProposeCommand: the role is checked once, at the start; each later
\* BuildFullReplicationRequest reads the term again.
BeginReplication(n) ==
  /\ role[n] = Leader
  /\ n \notin replicating
  /\ replicating' = replicating \cup {n}
  /\ UNCHANGED <<persistent, volatile, network, announced, history>>

SendAppendEntries(n) ==
  /\ n \in replicating
  /\ announced' = announced \cup {[term |-> currentTerm[n], leader |-> n]}
  /\ UNCHANGED <<persistent, volatile, network, replicating, history>>

EndReplication(n) ==
  /\ n \in replicating
  /\ replicating' = replicating \ {n}
  /\ UNCHANGED <<persistent, volatile, network, announced, history>>

\* ElectionManager::ObserveLeader; a request below the local term changes
\* nothing.
ObserveLeader(n, a) ==
  /\ a.leader # n
  /\ a.term >= currentTerm[n]
  /\ currentTerm' = [currentTerm EXCEPT ![n] = a.term]
  /\ votedFor' = [votedFor EXCEPT ![n] = VoteAfter(n, a.term)]
  /\ role' = [role EXCEPT ![n] = Follower]
  /\ leaderId' = [leaderId EXCEPT ![n] = a.leader]
  /\ UNCHANGED <<network, leading, history>>

-----------------------------------------------------------------------------
\* What the process loses when it dies; its requests stay in the network.
LoseMemory(n) ==
  /\ role' = [role EXCEPT ![n] = Follower]
  /\ leaderId' = [leaderId EXCEPT ![n] = None]
  /\ calls' = {c \in calls : c.node # n}
  /\ replicating' = replicating \ {n}

\* RaftNode::Initialize after a crash between two calls.
Restart(n) ==
  /\ LoseMemory(n)
  /\ UNCHANGED <<persistent, requests, announced, history>>

\* Terms node n may be about to adopt: its own next one, a candidate's, a
\* leader's, or one it was answered.
Adoptable(n) ==
  {t \in {currentTerm[n] + 1} : n \in Triggered /\ t <= MaxTerm}
    \cup {m.term : m \in {r \in requests : r.to = n}}
    \cup {a.term : a \in announced}
    \cup UNION {c.higher : c \in {d \in calls : d.node = n}}

\* The process dies after SetCurrentTerm and before SetVotedFor: the new
\* term is on disk with the vote of the old one.
CrashBetweenSaves(n) ==
  /\ \E t \in Adoptable(n) :
       /\ t > currentTerm[n]
       /\ currentTerm' = [currentTerm EXCEPT ![n] = t]
  /\ LoseMemory(n)
  /\ UNCHANGED <<votedFor, requests, announced, history>>

-----------------------------------------------------------------------------
Next ==
  \/ \E n \in Node :
       \/ StartElection(n)
       \/ BeginReplication(n) \/ SendAppendEntries(n) \/ EndReplication(n)
       \/ \E a \in announced : ObserveLeader(n, a)
       \/ Restart(n) \/ CrashBetweenSaves(n)
  \/ \E c \in calls : \/ \E p \in Node : AskPeer(c, p)
                      \/ Deadline(c)
                      \/ FinishElection(c)
  \/ \E m \in requests, b \in BOOLEAN : HandleVoteRequest(m, b)

Spec == Init /\ [][Next]_vars

-----------------------------------------------------------------------------
\* Types of the variables.
TypeOK == /\ currentTerm \in [Node -> Nat]
          /\ votedFor \in [Node -> Node \cup {None}]
          /\ role \in [Node -> {Follower, Candidate, Leader}]
          /\ leaderId \in [Node -> Node \cup {None}]
          /\ calls \subseteq Call
          /\ requests \subseteq Request
          /\ replicating \subseteq Node
          /\ announced \subseteq Claim
          /\ ballots \subseteq Ballot
          /\ elected \subseteq Claim

\* A node never votes for two candidates in a term, through any interleaving
\* of its own elections, vote requests, leaders, crashes between the two
\* saves, and restarts (log_store.cpp:167).
VoteOnce == \A a, b \in ballots :
              a.voter = b.voter /\ a.term = b.term => a.cand = b.cand

\* No two nodes win the election of one term (election_manager.cpp:80).
ElectionSafety == \A a, b \in elected : a.term = b.term => a.leader = b.leader

\* A node that believes to lead its current term has won that term, whatever
\* the late answers of an older election said (election_manager.cpp:80-85).
LeaderWonItsTerm ==
  \A n \in Node :
    role[n] = Leader => [term |-> currentTerm[n], leader |-> n] \in elected

\* Who granted node n the term t.
Voters(t, n) == {v \in Node : [voter |-> v, term |-> t, cand |-> n] \in ballots}

\* Every winner was granted its term by a majority of the cluster, the
\* answers that came after a deadline or to another call not counted
\* (raft_node.cpp:62-80).
WonByMajority == \A e \in elected : Voters(e.term, e.leader) \in Quorum

\* The term of a node never goes back and a vote given in a term is never
\* changed or withdrawn, not even by a crash (log_store.cpp:159,167).
PromiseKept ==
  [][\A n \in Node :
       /\ currentTerm'[n] >= currentTerm[n]
       /\ currentTerm'[n] = currentTerm[n] /\ votedFor[n] # None
            => votedFor'[n] = votedFor[n]]_vars
=============================================================================
