--------------------------- MODULE ElectionProofs ---------------------------
(***************************************************************************)
(* Theorems about Election for every set of nodes and every bound.  That a *)
(* node votes once holds with overlapping elections too; that a term has   *)
(* one winner is proved for nodes that run one election at a time.         *)
(***************************************************************************)
EXTENDS Election, FiniteSetTheorems, TLAPS

\* A vote of the current term is the one on disk; no vote is of a later term.
BallotsRecorded ==
  \A b \in ballots :
    /\ b.term <= currentTerm[b.voter]
    /\ b.term = currentTerm[b.voter] => votedFor[b.voter] = b.cand

\* A call counts only votes that were granted for its own term.
VotesGranted ==
  \A c \in calls : c.votes \subseteq Voters(c.term, c.node)

\* A candidate's running call asks for its current term: the term cannot
\* change without ending the candidacy.
CallIsCurrent ==
  \A c \in calls : role[c.node] = Candidate => c.term = currentTerm[c.node]

\* A node runs one StartElection call at a time.
OneCall == \A c, d \in calls : c.node = d.node => c = d

VoteInv == TypeOK /\ BallotsRecorded /\ VoteOnce

WinInv == VotesGranted /\ CallIsCurrent /\ OneCall /\ WonByMajority
            /\ LeaderWonItsTerm

-----------------------------------------------------------------------------
\* The types hold in a new cluster.
LEMMA TypeInit == Init => TypeOK
  BY ElectionAssumption DEF Init, TypeOK, Follower, Candidate, Leader

\* What an answered call knows is still of its type.
LEMMA AnswerTyped ==
  ASSUME TypeOK, NEW m \in Request, NEW g \in BOOLEAN, NEW t \in Nat,
         Answer(m, g, t)
  PROVE  calls' \subseteq Call
<1> SUFFICES ASSUME NEW d \in calls' PROVE d \in Call
  OBVIOUS
<1>1. PICK c \in calls :
        d = IF c.node = m.cand /\ c.term = m.term /\ c.waiting = m.to
            THEN [c EXCEPT !.waiting = None,
                           !.votes = IF g THEN @ \cup {m.to} ELSE @,
                           !.higher = IF t > c.term THEN @ \cup {t} ELSE @]
            ELSE c
  BY DEF Answer
<1>2. c \in Call
  BY DEF TypeOK
<1> DEFINE votes == IF g THEN c.votes \cup {m.to} ELSE c.votes
           higher == IF t > c.term THEN c.higher \cup {t} ELSE c.higher
<1>3. votes \subseteq Node /\ higher \subseteq Nat
  BY <1>2 DEF Call, Request
<1> DEFINE free == [c EXCEPT !.waiting = None]
           voted == [free EXCEPT !.votes = votes]
           told == [voted EXCEPT !.higher = higher]
<1>4. d = c \/ d = told
  BY <1>1
<1> HIDE DEF votes, higher
<1>5. free \in Call
  BY <1>2 DEF Call
<1> HIDE DEF free
<1>6. voted \in Call
  BY <1>3, <1>5 DEF Call
<1> HIDE DEF voted
<1>7. told \in Call
  BY <1>3, <1>6 DEF Call
<1> HIDE DEF told
<1>8. QED
  BY <1>2, <1>4, <1>7

\* Every step keeps the types: one case for each action.
LEMMA TypeNext == TypeOK /\ [Next]_vars => TypeOK'
<1> SUFFICES ASSUME TypeOK, [Next]_vars PROVE TypeOK'
  OBVIOUS
<1> USE ElectionAssumption
    DEF TypeOK, persistent, volatile, network, leading, history,
        Follower, Candidate, Leader
<1>1. ASSUME NEW n \in Node, StartElection(n) PROVE TypeOK'
  BY <1>1 DEF StartElection, Call, Ballot
<1>2. ASSUME NEW n \in Node,
             BeginReplication(n) \/ SendAppendEntries(n) \/ EndReplication(n)
      PROVE  TypeOK'
  BY <1>2 DEF BeginReplication, SendAppendEntries, EndReplication, Claim
<1>3. ASSUME NEW n \in Node, NEW a \in announced, ObserveLeader(n, a)
      PROVE  TypeOK'
  BY <1>3 DEF ObserveLeader, Claim, VoteAfter
<1>4. ASSUME NEW n \in Node, Restart(n) PROVE TypeOK'
  BY <1>4 DEF Restart, LoseMemory
<1>5. ASSUME NEW n \in Node, CrashBetweenSaves(n) PROVE TypeOK'
  <2>1. Adoptable(n) \subseteq Nat
    BY <1>5 DEF Adoptable, Call, Claim, Request
  <2>2. QED
    BY <1>5, <2>1 DEF CrashBetweenSaves, LoseMemory
<1>6. ASSUME NEW c \in calls, NEW p \in Node, AskPeer(c, p)
      PROVE  TypeOK'
  <2> DEFINE asked == [c EXCEPT !.todo = @ \ {p}]
  <2>1. c \in Call
    OBVIOUS
  <2>2. asked \in Call
    BY <2>1 DEF Call
  <2> HIDE DEF asked
  <2>3. [asked EXCEPT !.waiting = p] \in Call
    BY <2>2 DEF Call
  <2>4. calls' = (calls \ {c}) \cup {[asked EXCEPT !.waiting = p]}
    BY <1>6 DEF AskPeer, Replace, asked
  <2>5. [to |-> p, term |-> c.term, cand |-> c.node] \in Request
    BY <2>1 DEF Call, Request
  <2>6. QED
    BY <1>6, <2>3, <2>4, <2>5 DEF AskPeer
<1>7. ASSUME NEW c \in calls, Deadline(c) PROVE TypeOK'
  BY <1>7 DEF Deadline, Replace, Call
<1>8. ASSUME NEW c \in calls, FinishElection(c) PROVE TypeOK'
  BY <1>8 DEF FinishElection, StepDown, CompleteElection, Call, Claim,
              VoteAfter
<1>9. ASSUME NEW m \in requests, NEW b \in BOOLEAN, HandleVoteRequest(m, b)
      PROVE  TypeOK'
  <2> DEFINE p == m.to
             newer == m.term > currentTerm[p]
             vote == VoteAfter(p, m.term)
             granted == /\ m.term >= currentTerm[p]
                        /\ CanVote(vote, m.cand)
                        /\ b
             term == IF newer THEN m.term ELSE currentTerm[p]
  <2>1. calls' \subseteq Call
    <3>1. m \in Request /\ term \in Nat /\ granted \in BOOLEAN
      BY DEF Request
    <3>2. Answer(m, granted, term)
      BY <1>9 DEF HandleVoteRequest
    <3> HIDE DEF granted, term
    <3>3. QED
      BY <3>1, <3>2, AnswerTyped
  <2>2. QED
    BY <1>9, <2>1 DEF HandleVoteRequest, Request, Ballot, VoteAfter, RoleAfter,
       CanVote
<1>10. CASE UNCHANGED vars
  BY <1>10 DEF vars
<1>11. QED
  BY <1>1, <1>2, <1>3, <1>4, <1>5, <1>6, <1>7, <1>8, <1>9, <1>10 DEF Next

\* Type correctness of terms, votes, roles and calls.
THEOREM TypeCorrect == Spec => []TypeOK
  BY TypeInit, TypeNext, PTL DEF Spec

-----------------------------------------------------------------------------
\* A step that grants nothing and keeps or raises terms preserves VoteInv:
\* the vote of an unchanged term is kept.
LEMMA NoNewBallot ==
  ASSUME VoteInv, TypeOK', ballots' = ballots,
         \A n \in Node : \/ currentTerm'[n] > currentTerm[n]
                         \/ /\ currentTerm'[n] = currentTerm[n]
                            /\ votedFor'[n] = votedFor[n]
  PROVE  VoteInv'
<1>1. ASSUME NEW b \in ballots
      PROVE  /\ b.term <= currentTerm'[b.voter]
             /\ b.term = currentTerm'[b.voter] => votedFor'[b.voter] = b.cand
  BY <1>1 DEF VoteInv, TypeOK, BallotsRecorded, Ballot
<1>2. QED
  BY <1>1 DEF VoteInv, BallotsRecorded, VoteOnce

\* A step that grants one vote and records it as the vote of the voter's
\* current term preserves VoteInv, if the voter had none in that term or
\* had given it to the same candidate.
LEMMA OneNewBallot ==
  ASSUME VoteInv, TypeOK', NEW v \in Node, NEW c \in Node,
         ballots' = ballots \cup
           {[voter |-> v, term |-> currentTerm'[v], cand |-> c]},
         currentTerm'[v] >= currentTerm[v], votedFor'[v] = c,
         currentTerm'[v] = currentTerm[v] => votedFor[v] \in {None, c},
         \A n \in Node \ {v} : /\ currentTerm'[n] = currentTerm[n]
                               /\ votedFor'[n] = votedFor[n]
  PROVE  VoteInv'
<1> DEFINE new == [voter |-> v, term |-> currentTerm'[v], cand |-> c]
<1> USE DEF VoteInv, TypeOK, Ballot
<1>1. ASSUME NEW b \in ballots
      PROVE  /\ b.term <= currentTerm'[b.voter]
             /\ b.term = currentTerm'[b.voter] => votedFor'[b.voter] = b.cand
  <2>1. CASE b.voter = v
    <3>1. b.term <= currentTerm[v] /\ b.cand # None
      BY <1>1, <2>1, ElectionAssumption DEF BallotsRecorded
    <3>2. b.term = currentTerm[v] => votedFor[v] = b.cand
      BY <1>1, <2>1 DEF BallotsRecorded
    <3>3. b.term \in Nat /\ currentTerm[v] \in Nat /\ currentTerm'[v] \in Nat
      BY <1>1
    <3>4. QED
      BY <2>1, <3>1, <3>2, <3>3
  <2>2. CASE b.voter # v
    BY <1>1, <2>2 DEF BallotsRecorded
  <2>3. QED
    BY <2>1, <2>2
<1>2. ASSUME NEW b \in ballots, b.voter = v, b.term = currentTerm'[v]
      PROVE  b.cand = c
  BY <1>1, <1>2
<1>3. BallotsRecorded'
  <2>1. currentTerm'[v] \in Nat
    OBVIOUS
  <2>2. QED
    BY <1>1, <2>1 DEF BallotsRecorded
<1>4. VoteOnce'
  BY <1>2 DEF VoteOnce
<1>5. QED
  BY <1>3, <1>4

\* No vote has been given in a new cluster.
LEMMA VoteInit == Init => VoteInv
  BY TypeInit DEF Init, VoteInv, BallotsRecorded, VoteOnce

\* A step either gives no vote or gives one that agrees with voted_for_.
LEMMA VoteNext == VoteInv /\ [Next]_vars => VoteInv'
<1> SUFFICES ASSUME VoteInv, [Next]_vars PROVE VoteInv'
  OBVIOUS
<1>0. TypeOK /\ TypeOK'
  BY TypeNext DEF VoteInv
<1> USE <1>0 DEF persistent, volatile, network, leading, history
<1>1. ASSUME NEW n \in Node, StartElection(n) PROVE VoteInv'
  <2>1. /\ currentTerm'[n] = currentTerm[n] + 1 /\ votedFor'[n] = n
        /\ ballots' = ballots \cup
             {[voter |-> n, term |-> currentTerm'[n], cand |-> n]}
        /\ \A k \in Node \ {n} : /\ currentTerm'[k] = currentTerm[k]
                                 /\ votedFor'[k] = votedFor[k]
    BY <1>1 DEF StartElection, TypeOK
  <2>2. currentTerm[n] \in Nat
    BY DEF TypeOK
  <2>3. QED
    BY <2>1, <2>2, OneNewBallot
<1>2. ASSUME NEW n \in Node,
             BeginReplication(n) \/ SendAppendEntries(n) \/ EndReplication(n)
      PROVE  VoteInv'
  BY <1>2, NoNewBallot
     DEF BeginReplication, SendAppendEntries, EndReplication
<1>3. ASSUME NEW n \in Node, NEW a \in announced, ObserveLeader(n, a)
      PROVE  VoteInv'
  <2>1. a.term \in Nat /\ currentTerm[n] \in Nat
    BY DEF TypeOK, Claim
  <2>2. QED
    BY <1>3, <2>1, NoNewBallot DEF ObserveLeader, TypeOK, VoteAfter
<1>4. ASSUME NEW n \in Node, Restart(n) PROVE VoteInv'
  BY <1>4, NoNewBallot DEF Restart
<1>5. ASSUME NEW n \in Node, CrashBetweenSaves(n) PROVE VoteInv'
  BY <1>5, NoNewBallot DEF CrashBetweenSaves, TypeOK
<1>6. ASSUME NEW c \in calls, NEW p \in Node, AskPeer(c, p) PROVE VoteInv'
  BY <1>6, NoNewBallot DEF AskPeer
<1>7. ASSUME NEW c \in calls, Deadline(c) PROVE VoteInv'
  BY <1>7, NoNewBallot DEF Deadline
<1>8. ASSUME NEW c \in calls, FinishElection(c) PROVE VoteInv'
  <2>1. c \in Call
    BY DEF TypeOK
  <2>2. ASSUME NEW t \in c.higher, StepDown(c.node, t), UNCHANGED history
        PROVE  VoteInv'
    <3>1. t \in Nat /\ currentTerm[c.node] \in Nat
      BY <2>1 DEF TypeOK, Call
    <3>2. QED
      BY <2>2, <3>1, NoNewBallot DEF StepDown, TypeOK, VoteAfter
  <2>3. ASSUME CompleteElection(c.node, c.votes) PROVE VoteInv'
    BY <2>3, NoNewBallot DEF CompleteElection
  <2>4. QED
    BY <1>8, <2>2, <2>3 DEF FinishElection
<1>9. ASSUME NEW m \in requests, NEW b \in BOOLEAN, HandleVoteRequest(m, b)
      PROVE  VoteInv'
  <2> DEFINE p == m.to
             newer == m.term > currentTerm[p]
             vote == VoteAfter(p, m.term)
             granted == /\ m.term >= currentTerm[p]
                        /\ CanVote(vote, m.cand)
                        /\ b
  <2>1. p \in Node /\ m.cand \in Node /\ m.term \in Nat
    BY DEF TypeOK, Request
  <2>2. currentTerm[p] \in Nat
    BY <2>1 DEF TypeOK
  <2>3. /\ currentTerm'[p] = IF newer THEN m.term ELSE currentTerm[p]
        /\ votedFor'[p] = IF granted THEN m.cand ELSE vote
        /\ \A n \in Node \ {p} : /\ currentTerm'[n] = currentTerm[n]
                                 /\ votedFor'[n] = votedFor[n]
        /\ ballots' = IF granted
                      THEN ballots \cup {[voter |-> p, term |-> m.term,
                                          cand |-> m.cand]}
                      ELSE ballots
    BY <1>9, <2>1 DEF HandleVoteRequest, TypeOK, VoteAfter, RoleAfter
  <2>4. CASE granted
    <3>1. currentTerm'[p] = m.term
      BY <2>1, <2>2, <2>3, <2>4
    <3>2. currentTerm'[p] >= currentTerm[p]
      BY <2>1, <2>2, <3>1, <2>4
    <3>3. currentTerm'[p] = currentTerm[p] => votedFor[p] \in {None, m.cand}
      BY <2>1, <2>2, <3>1, <2>4 DEF VoteAfter, CanVote
    <3>4. QED
      BY <2>1, <2>3, <2>4, <3>1, <3>2, <3>3, OneNewBallot
  <2>5. CASE ~granted
    <3>1. newer => currentTerm'[p] > currentTerm[p]
      BY <2>1, <2>2, <2>3
    <3>2. ~newer => /\ currentTerm'[p] = currentTerm[p]
                    /\ votedFor'[p] = votedFor[p]
      BY <2>3, <2>5 DEF VoteAfter
    <3>3. QED
      BY <2>3, <2>5, <3>1, <3>2, NoNewBallot
  <2>6. QED
    BY <2>4, <2>5
<1>10. CASE UNCHANGED vars
  BY <1>10, NoNewBallot DEF vars
<1>11. QED
  BY <1>1, <1>2, <1>3, <1>4, <1>5, <1>6, <1>7, <1>8, <1>9, <1>10 DEF Next

\* What makes VoteOnce inductive holds always.
LEMMA SpecVoteInv == Spec => []VoteInv
  BY VoteInit, VoteNext, PTL DEF Spec

\* No node votes for two candidates in a term, however its calls overlap,
\* and wherever it crashes.
THEOREM VotesOnce == Spec => []VoteOnce
  BY SpecVoteInv, PTL DEF VoteInv

\* What a step may do to the term and the vote of a node.
Keeps(n) ==
  /\ currentTerm'[n] >= currentTerm[n]
  /\ currentTerm'[n] = currentTerm[n] /\ votedFor[n] # None
       => votedFor'[n] = votedFor[n]

\* No method and no crash takes a term or a vote back.
LEMMA KeepsNext ==
  ASSUME TypeOK, [Next]_vars, NEW k \in Node
  PROVE  Keeps(k)
<1> USE DEF Keeps, TypeOK, persistent, volatile, network, leading, history
<1>0. currentTerm[k] \in Nat
  OBVIOUS
<1>1. ASSUME NEW n \in Node, StartElection(n) PROVE Keeps(k)
  BY <1>0, <1>1 DEF StartElection
<1>2. ASSUME NEW n \in Node,
             BeginReplication(n) \/ SendAppendEntries(n) \/ EndReplication(n)
      PROVE  Keeps(k)
  BY <1>0, <1>2 DEF BeginReplication, SendAppendEntries, EndReplication
<1>3. ASSUME NEW n \in Node, NEW a \in announced, ObserveLeader(n, a)
      PROVE  Keeps(k)
  <2>1. a.term \in Nat
    BY DEF Claim
  <2>2. QED
    BY <1>0, <1>3, <2>1 DEF ObserveLeader, VoteAfter
<1>4. ASSUME NEW n \in Node, Restart(n) PROVE Keeps(k)
  BY <1>0, <1>4 DEF Restart
<1>5. ASSUME NEW n \in Node, CrashBetweenSaves(n) PROVE Keeps(k)
  BY <1>0, <1>5 DEF CrashBetweenSaves, Adoptable, Call, Claim, Request
<1>6. ASSUME NEW c \in calls, NEW p \in Node, AskPeer(c, p) PROVE Keeps(k)
  BY <1>0, <1>6 DEF AskPeer
<1>7. ASSUME NEW c \in calls, Deadline(c) PROVE Keeps(k)
  BY <1>0, <1>7 DEF Deadline
<1>8. ASSUME NEW c \in calls, FinishElection(c) PROVE Keeps(k)
  <2>1. c.higher \subseteq Nat /\ c.node \in Node
    BY DEF Call
  <2>2. QED
    BY <1>0, <1>8, <2>1 DEF FinishElection, StepDown, CompleteElection,
                            VoteAfter
<1>9. ASSUME NEW m \in requests, NEW b \in BOOLEAN, HandleVoteRequest(m, b)
      PROVE  Keeps(k)
  <2>1. m.term \in Nat /\ m.to \in Node /\ currentTerm[m.to] \in Nat
    BY DEF Request
  <2>2. QED
    BY <1>0, <1>9, <2>1 DEF HandleVoteRequest, VoteAfter, CanVote
<1>10. CASE UNCHANGED vars
  BY <1>0, <1>10 DEF vars
<1>11. QED
  BY <1>1, <1>2, <1>3, <1>4, <1>5, <1>6, <1>7, <1>8, <1>9, <1>10 DEF Next

\* No step, a crash between the two saves included, takes a term back or
\* changes a vote within its term.
THEOREM PromisesKept == Spec => PromiseKept
<1>1. TypeOK /\ [Next]_vars => [\A n \in Node : Keeps(n)]_vars
  BY KeepsNext
<1>2. [\A n \in Node : Keeps(n)]_vars <=>
        [\A n \in Node :
           /\ currentTerm'[n] >= currentTerm[n]
           /\ currentTerm'[n] = currentTerm[n] /\ votedFor[n] # None
                => votedFor'[n] = votedFor[n]]_vars
  BY DEF Keeps
<1>3. QED
  BY <1>1, <1>2, TypeCorrect, PTL DEF Spec, PromiseKept

-----------------------------------------------------------------------------
\* QuorumSize votes are a majority, and a larger set still is one.
LEMMA EnoughVotes ==
  ASSUME NEW V \in SUBSET Node, NEW W \in SUBSET Node, V \subseteq W,
         V \in Quorum \/ Cardinality(V) >= QuorumSize
  PROVE  W \in Quorum
<1>1. IsFiniteSet(W) /\ Cardinality(V) <= Cardinality(W)
  BY FS_Subset, ElectionAssumption
<1>2. /\ Cardinality(V) \in Nat /\ Cardinality(W) \in Nat
      /\ Cardinality(Node) \in Nat
  BY FS_Subset, FS_CardinalityType, ElectionAssumption
<1>3. Cardinality(V) * 2 > Cardinality(Node)
  BY <1>2 DEF Quorum, QuorumSize
<1>4. QED
  BY <1>1, <1>2, <1>3 DEF Quorum

\* Two majorities share a node.
LEMMA QuorumsMeet ==
  ASSUME NEW P \in Quorum, NEW Q \in Quorum
  PROVE  P \cap Q # {}
<1>1. /\ P \subseteq Node /\ Q \subseteq Node
      /\ Cardinality(P) * 2 > Cardinality(Node)
      /\ Cardinality(Q) * 2 > Cardinality(Node)
  BY DEF Quorum
<1>2. /\ Cardinality(P) \in Nat /\ Cardinality(Q) \in Nat
      /\ Cardinality(Node) \in Nat
  BY <1>1, FS_Subset, FS_CardinalityType, ElectionAssumption
<1>3. Cardinality(P) + Cardinality(Q) > Cardinality(Node)
  BY <1>1, <1>2
<1>4. QED
  BY <1>1, <1>3, FS_MajoritiesIntersect, ElectionAssumption

\* Votes granted are never taken back, so a majority stays one.
LEMMA MajorityKept ==
  ASSUME WonByMajority, ballots \subseteq ballots', elected' = elected
  PROVE  WonByMajority'
<1> SUFFICES ASSUME NEW e \in elected
             PROVE  Voters(e.term, e.leader)' \in Quorum
  BY DEF WonByMajority
<1>1. Voters(e.term, e.leader) \subseteq Voters(e.term, e.leader)'
  BY DEF Voters
<1>2. Voters(e.term, e.leader) \in Quorum
  BY DEF WonByMajority
<1>3. QED
  BY <1>1, <1>2, EnoughVotes DEF Voters

\* A step in which nobody becomes candidate or leader, nobody who stays one
\* changes term, and calls only go on or end, preserves WinInv.
LEMMA NobodyRises ==
  ASSUME WinInv, TypeOK, TypeOK', ballots \subseteq ballots',
         elected' = elected, OneCall',
         \A n \in Node : role'[n] # Follower =>
            role'[n] = role[n] /\ currentTerm'[n] = currentTerm[n],
         \A d \in calls' : \E c \in calls :
            /\ d.node = c.node /\ d.term = c.term
            /\ d.votes \subseteq c.votes \cup Voters(c.term, c.node)'
  PROVE  WinInv'
<1> USE DEF WinInv
<1>1. VotesGranted'
  <2> SUFFICES ASSUME NEW d \in calls'
               PROVE  d.votes \subseteq Voters(d.term, d.node)'
    BY DEF VotesGranted
  <2>1. PICK c \in calls :
          /\ d.node = c.node /\ d.term = c.term
          /\ d.votes \subseteq c.votes \cup Voters(c.term, c.node)'
    OBVIOUS
  <2>2. c.votes \subseteq Voters(c.term, c.node)
    BY DEF VotesGranted
  <2>3. Voters(c.term, c.node) \subseteq Voters(c.term, c.node)'
    BY DEF Voters
  <2>4. QED
    BY <2>1, <2>2, <2>3
<1>2. CallIsCurrent'
  <2> SUFFICES ASSUME NEW d \in calls', role'[d.node] = Candidate
               PROVE  d.term = currentTerm'[d.node]
    BY DEF CallIsCurrent
  <2>1. PICK c \in calls : d.node = c.node /\ d.term = c.term
    OBVIOUS
  <2>2. c.node \in Node
    BY DEF TypeOK, Call
  <2>3. role[c.node] = Candidate /\ currentTerm'[c.node] = currentTerm[c.node]
    BY <2>1, <2>2 DEF Candidate, Follower
  <2>4. QED
    BY <2>1, <2>3 DEF CallIsCurrent
<1>3. WonByMajority'
  BY MajorityKept
<1>4. LeaderWonItsTerm'
  BY DEF LeaderWonItsTerm, Leader, Follower
<1>5. QED
  BY <1>1, <1>2, <1>3, <1>4

\* Nobody has won anything in a new cluster.
LEMMA WinInit == Init => WinInv
  BY DEF Init, WinInv, VotesGranted, CallIsCurrent, OneCall, WonByMajority,
         LeaderWonItsTerm, Follower, Leader

\* With one election at a time on each node, the votes a call has
\* counted are of the term the node is in, so whoever wins has a majority.
LEMMA WinNext ==
  ASSUME ~Overlap, VoteInv, WinInv, [Next]_vars
  PROVE  WinInv'
<1>0. TypeOK /\ TypeOK'
  BY TypeNext DEF VoteInv
<1> USE <1>0 DEF persistent, volatile, network, leading, history
<1>1. ASSUME NEW n \in Node, StartElection(n) PROVE WinInv'
  <2> DEFINE t == currentTerm[n] + 1
             new == [node |-> n, term |-> t, todo |-> Node \ {n},
                     waiting |-> None, votes |-> {n}, higher |-> {}]
  <2>1. /\ \A c \in calls : c.node # n
        /\ calls' = calls \cup {new}
        /\ role'[n] = Candidate /\ currentTerm'[n] = t
        /\ \A k \in Node \ {n} : /\ role'[k] = role[k]
                                 /\ currentTerm'[k] = currentTerm[k]
        /\ ballots' = ballots \cup {[voter |-> n, term |-> t, cand |-> n]}
        /\ elected' = elected
    BY <1>1 DEF StartElection, TypeOK
  <2>2. new.node = n /\ new.term = t /\ new.votes = {n}
    OBVIOUS
  <2> HIDE DEF new
  <2>3. VotesGranted'
    <3> DEFINE VotersNow(k, u) ==
                 {v \in Node : [voter |-> v, term |-> k, cand |-> u]
                                 \in ballots'}
    <3>1. ASSUME NEW c \in calls
          PROVE  c.votes \subseteq VotersNow(c.term, c.node)
      BY <2>1 DEF WinInv, VotesGranted, Voters
    <3>2. new.votes \subseteq VotersNow(new.term, new.node)
      BY <2>1, <2>2
    <3>3. QED
      BY <2>1, <3>1, <3>2 DEF VotesGranted, Voters
  <2>4. CallIsCurrent'
    <3>1. ASSUME NEW c \in calls, role'[c.node] = Candidate
          PROVE  c.term = currentTerm'[c.node]
      <4>1. c.node \in Node \ {n}
        BY <2>1 DEF TypeOK, Call
      <4>2. QED
        BY <2>1, <3>1, <4>1 DEF WinInv, CallIsCurrent
    <3>2. QED
      BY <2>1, <2>2, <3>1 DEF CallIsCurrent
  <2>5. OneCall'
    BY <2>1, <2>2 DEF WinInv, OneCall
  <2>6. WonByMajority'
    BY <2>1, MajorityKept DEF WinInv
  <2>7. LeaderWonItsTerm'
    BY <2>1 DEF WinInv, LeaderWonItsTerm, Candidate, Leader
  <2>8. QED
    BY <2>3, <2>4, <2>5, <2>6, <2>7 DEF WinInv
<1>2. ASSUME NEW n \in Node,
             BeginReplication(n) \/ SendAppendEntries(n) \/ EndReplication(n)
      PROVE  WinInv'
  BY <1>2, NobodyRises
     DEF BeginReplication, SendAppendEntries, EndReplication, WinInv, OneCall
<1>3. ASSUME NEW n \in Node, NEW a \in announced, ObserveLeader(n, a)
      PROVE  WinInv'
  BY <1>3, NobodyRises DEF ObserveLeader, TypeOK, VoteAfter, WinInv, OneCall
<1>4. ASSUME NEW n \in Node, Restart(n) PROVE WinInv'
  BY <1>4, NobodyRises DEF Restart, LoseMemory, TypeOK, WinInv, OneCall
<1>5. ASSUME NEW n \in Node, CrashBetweenSaves(n) PROVE WinInv'
  BY <1>5, NobodyRises
     DEF CrashBetweenSaves, LoseMemory, TypeOK, WinInv, OneCall
<1>6. ASSUME NEW c \in calls, NEW d, Replace(c, d), d.node = c.node,
             d.term = c.term, d.votes = c.votes,
             UNCHANGED <<persistent, volatile, history>>
      PROVE  WinInv'
  <2>1. OneCall'
    BY <1>6 DEF Replace, WinInv, OneCall
  <2>2. QED
    BY <1>6, <2>1, NobodyRises DEF Replace
<1>7. ASSUME NEW c \in calls, NEW p \in Node, AskPeer(c, p) PROVE WinInv'
  <2> DEFINE d == [c EXCEPT !.todo = @ \ {p}, !.waiting = p]
  <2>1. d.node = c.node /\ d.term = c.term /\ d.votes = c.votes
    BY DEF TypeOK, Call
  <2>2. QED
    BY <1>6, <1>7, <2>1 DEF AskPeer
<1>8. ASSUME NEW c \in calls, Deadline(c) PROVE WinInv'
  <2> DEFINE d == [c EXCEPT !.waiting = None]
  <2>1. d.node = c.node /\ d.term = c.term /\ d.votes = c.votes
    BY DEF TypeOK, Call
  <2>2. QED
    BY <1>6, <1>8, <2>1 DEF Deadline
<1>9. ASSUME NEW c \in calls, FinishElection(c) PROVE WinInv'
  <2>1. c \in Call /\ c.node \in Node
    BY DEF TypeOK, Call
  <2>2. OneCall'
    BY <1>9 DEF FinishElection, WinInv, OneCall
  <2>3. ASSUME NEW t \in c.higher, StepDown(c.node, t), UNCHANGED history
        PROVE  WinInv'
    BY <1>9, <2>1, <2>2, <2>3, NobodyRises
       DEF FinishElection, StepDown, TypeOK, VoteAfter
  <2>4. ASSUME CompleteElection(c.node, c.votes) PROVE WinInv'
    <3>1. CASE role[c.node] = Candidate /\ Cardinality(c.votes) >= QuorumSize
      <4> DEFINE n == c.node
                 won == [term |-> currentTerm[n], leader |-> n]
      <4>1. /\ c.term = currentTerm[n]
            /\ role' = [role EXCEPT ![n] = Leader]
            /\ elected' = elected \cup {won}
            /\ UNCHANGED <<currentTerm, votedFor, ballots>>
            /\ calls' = calls \ {c}
        BY <1>9, <2>1, <2>4, <3>1
           DEF CompleteElection, FinishElection, WinInv, CallIsCurrent
      <4>2. Voters(currentTerm[n], n) \in Quorum
        <5>1. c.votes \subseteq Voters(currentTerm[n], n)
          BY <4>1 DEF WinInv, VotesGranted
        <5>2. c.votes \in SUBSET Node /\ Voters(currentTerm[n], n) \in SUBSET Node
          BY <2>1 DEF Call, Voters
        <5>3. QED
          BY <3>1, <5>1, <5>2, EnoughVotes
      <4>3. WonByMajority'
        <5>1. \A e \in elected' : Voters(e.term, e.leader) \in Quorum
          BY <4>1, <4>2 DEF WinInv, WonByMajority
        <5>2. QED
          BY <4>1, <5>1 DEF WonByMajority, Voters
      <4>4. LeaderWonItsTerm'
        BY <2>1, <4>1 DEF WinInv, LeaderWonItsTerm, TypeOK
      <4>5. VotesGranted'
        BY <4>1 DEF WinInv, VotesGranted, Voters
      <4>6. CallIsCurrent'
        <5>1. ASSUME NEW d \in calls', role'[d.node] = Candidate
              PROVE  d.term = currentTerm'[d.node]
          <6>1. d.node \in Node /\ role[d.node] = Candidate
            BY <2>1, <4>1, <5>1 DEF TypeOK, Call, Leader, Candidate
          <6>2. QED
            BY <4>1, <6>1 DEF WinInv, CallIsCurrent
        <5>2. QED
          BY <5>1 DEF CallIsCurrent
      <4>7. QED
        BY <2>2, <4>3, <4>4, <4>5, <4>6 DEF WinInv
    <3>2. CASE ~(role[c.node] = Candidate
                   /\ Cardinality(c.votes) >= QuorumSize)
      BY <1>9, <2>2, <2>4, <3>2, NobodyRises
         DEF CompleteElection, FinishElection
    <3>3. QED
      BY <3>1, <3>2
  <2>5. QED
    BY <1>9, <2>3, <2>4 DEF FinishElection
<1>10. ASSUME NEW m \in requests, NEW b \in BOOLEAN, HandleVoteRequest(m, b)
       PROVE  WinInv'
  <2> DEFINE p == m.to
             newer == m.term > currentTerm[p]
             vote == VoteAfter(p, m.term)
             granted == /\ m.term >= currentTerm[p]
                        /\ CanVote(vote, m.cand)
                        /\ b
             term == IF newer THEN m.term ELSE currentTerm[p]
             waits(c) == c.node = m.cand /\ c.term = m.term /\ c.waiting = p
             told(c) == [c EXCEPT !.waiting = None,
                           !.votes = IF granted THEN @ \cup {p} ELSE @,
                           !.higher = IF term > c.term THEN @ \cup {term}
                                                       ELSE @]
  <2>1. p \in Node /\ m \in Request
    BY DEF TypeOK, Request
  <2>2. /\ ballots \subseteq ballots' /\ elected' = elected
        /\ granted => [voter |-> p, term |-> m.term, cand |-> m.cand]
                         \in ballots'
        /\ \A n \in Node : role'[n] # Follower =>
             role'[n] = role[n] /\ currentTerm'[n] = currentTerm[n]
    BY <1>10, <2>1 DEF HandleVoteRequest, TypeOK, VoteAfter, RoleAfter
  <2>3. calls' = {IF waits(c) THEN told(c) ELSE c : c \in calls}
    BY <1>10 DEF HandleVoteRequest, Answer
  <2>4. ASSUME NEW c \in calls
        PROVE  /\ told(c).node = c.node /\ told(c).term = c.term
               /\ told(c).votes = IF granted THEN c.votes \cup {p} ELSE c.votes
    BY DEF TypeOK, Call
  <2> HIDE DEF granted, told
  <2>5. \A c, d \in calls :
          (IF waits(c) THEN told(c) ELSE c).node
             = (IF waits(d) THEN told(d) ELSE d).node => c = d
    <3>1. ASSUME NEW c \in calls
          PROVE  (IF waits(c) THEN told(c) ELSE c).node = c.node
      BY <2>4
    <3>2. QED
      BY <3>1 DEF WinInv, OneCall
  <2>6. OneCall'
    BY <2>3, <2>5 DEF OneCall
  <2>7. ASSUME NEW c \in calls, waits(c)
        PROVE  told(c).votes \subseteq c.votes \cup Voters(c.term, c.node)'
    BY <2>1, <2>2, <2>4, <2>7 DEF Voters
  <2>8. \A d \in calls' : \E c \in calls :
           /\ d.node = c.node /\ d.term = c.term
           /\ d.votes \subseteq c.votes \cup Voters(c.term, c.node)'
    BY <2>3, <2>4, <2>7
  <2>9. QED
    BY <2>2, <2>6, <2>8, NobodyRises
<1>11. CASE UNCHANGED vars
  BY <1>11, NobodyRises DEF vars, WinInv, OneCall
<1>12. QED
  BY <1>1, <1>2, <1>3, <1>4, <1>5, <1>7, <1>8, <1>9, <1>10, <1>11 DEF Next

\* One node per term wins: two majorities of votes share a voter, and it
\* voted once.
LEMMA WinnersAgree ==
  ASSUME VoteInv, WinInv
  PROVE  ElectionSafety
<1> SUFFICES ASSUME NEW x \in elected, NEW y \in elected, x.term = y.term
             PROVE  x.leader = y.leader
  BY DEF ElectionSafety
<1>1. PICK v : v \in Voters(x.term, x.leader) \cap Voters(y.term, y.leader)
  BY QuorumsMeet DEF WinInv, WonByMajority
<1>2. /\ [voter |-> v, term |-> x.term, cand |-> x.leader] \in ballots
      /\ [voter |-> v, term |-> x.term, cand |-> y.leader] \in ballots
  BY <1>1 DEF Voters
<1>3. QED
  BY <1>2 DEF VoteInv, VoteOnce

\* What makes the uniqueness of winners inductive holds always.
LEMMA SpecWinInv ==
  ASSUME ~Overlap
  PROVE  Spec => []WinInv
<1>1. VoteInv /\ WinInv /\ [Next]_vars => WinInv'
  BY WinNext
<1>2. QED
  BY <1>1, WinInit, SpecVoteInv, PTL DEF Spec

\* When no two StartElection calls overlap on a node, a term has at most one
\* winner, however requests, answers, crashes and leaders interleave.
THEOREM OneWinnerPerTerm ==
  ASSUME ~Overlap
  PROVE  Spec => []ElectionSafety
  BY SpecWinInv, SpecVoteInv, WinnersAgree, PTL

\* Under the same condition every winner has a majority of the votes of its
\* term, and a node that thinks it leads has won the term it is in.
THEOREM LeadersWon ==
  ASSUME ~Overlap
  PROVE  Spec => [](WonByMajority /\ LeaderWonItsTerm)
  BY SpecWinInv, PTL DEF WinInv
=============================================================================
