-------------------------- MODULE RaftSerialProofs --------------------------
(***************************************************************************)
(* Safety of RaftSerial for every cluster and every bound: types, one      *)
(* winner per term, log matching, leader completeness, durability, and the *)
(* refinement of ReplicatedLog.  At the end, that RaftThreads without its  *)
(* gaps is RaftSerial.                                                     *)
(*                                                                         *)
(* The invariant has four layers.  Votes: who may win.  Written logs: the  *)
(* logs ever sent, of which every log on a disk is one, form one line for  *)
(* each term.  Choice: a log a majority has confirmed, or may still        *)
(* confirm, is part of every log of a later term.  Commitment: what is     *)
(* committed is part of a log a majority has confirmed.                    *)
(***************************************************************************)
EXTENDS RaftThreads, RaftLocalProofs

-----------------------------------------------------------------------------
\* The logs ever sent by a leader; the last term of one is its leader's.
Written == {m.entries : m \in appendRequests} \ {<<>>}

Voters(t, c) ==
  {q \in Node : [voter |-> q, term |-> t, cand |-> c] \in ballots}

\* Who has confirmed w, and who has or still may.
Backers(w) == {q \in Node : [node |-> q, log |-> w] \in accepted}

Reachable(w) == Backers(w) \cup {q \in Node : node[q].term <= LastTerm(w)}

Majority(Q) == Cardinality(Q) >= QuorumSize

-----------------------------------------------------------------------------
\* Types of all variables.
Campaigns == [active : {TRUE}, term : Nat, votes : SUBSET Node,
              higher : SUBSET Nat]

VoteRequests == [term : Nat, cand : Node, lastIndex : Nat, lastTerm : Nat]

AppendRequests == [term : Nat, leader : Node, prevIndex : Nat, prevTerm : Nat,
                   entries : Seq(Entry), commit : Nat]

Proposals == [active : {TRUE}, index : Nat, entry : Entry,
              request : AppendRequests, acks : SUBSET Node]

Typed == /\ bounds \in [mortal : SUBSET Node, maxTerm : Nat]
         /\ node \in [Node -> State]
         /\ campaign \in [Node -> {Idle} \cup Campaigns]
         /\ proposal \in [Node -> {Idle} \cup Proposals]
         /\ voteRequests \subseteq VoteRequests
         /\ appendRequests \subseteq AppendRequests

\* A vote of the current term is the one on disk; no vote is of a later term.
BallotsRecorded ==
  \A b \in ballots :
    /\ b.voter \in Node /\ b.term \in Nat /\ b.cand \in Node
    /\ b.term <= node[b.voter].term
    /\ b.term = node[b.voter].term => node[b.voter].vote = b.cand

VoteOnce == \A a, b \in ballots :
              a.voter = b.voter /\ a.term = b.term => a.cand = b.cand

\* A call counts votes that were granted for its term; a candidate's call
\* asks for its current term.
VotesGranted ==
  \A n \in Node : campaign[n].active =>
    /\ campaign[n].votes \subseteq Voters(campaign[n].term, n)
    /\ node[n].role = Candidate => campaign[n].term = node[n].term

\* Every winner had a majority; it is past the term it won, or no candidate
\* in it any more.
WinnersHaveWon ==
  \A e \in elected :
    /\ e.leader \in Node /\ e.term \in Nat
    /\ Majority(Voters(e.term, e.leader))
    /\ e.term <= node[e.leader].term
    /\ e.term = node[e.leader].term => node[e.leader].role # Candidate

LeadersHaveWon ==
  \A n \in Node : node[n].role = Leader =>
    [term |-> node[n].term, leader |-> n] \in elected

VoteInv == BallotsRecorded /\ VoteOnce /\ VotesGranted /\ WinnersHaveWon
             /\ LeadersHaveWon

-----------------------------------------------------------------------------
\* What begins a written log was written itself.
WrittenIsClosed ==
  \A w \in Written : \A i \in 1 .. Len(w) : SubSeq(w, 1, i) \in Written

\* The logs written in one term are one line.
OneLine == \A v, w \in Written :
             LastTerm(v) = LastTerm(w) /\ Len(v) <= Len(w) => Begins(v, w)

\* Terms do not decrease along a log.
Ordered ==
  \A w \in Written : \A i \in 1 .. Len(w) : w[i].term <= LastTerm(w)

WrittenByWinner == \A w \in Written : \E e \in elected : e.term = LastTerm(w)

\* A request carries what its leader has written in its term, or nothing.
RequestsWritten ==
  \A m \in appendRequests :
    m.entries # <<>> => LastTerm(m.entries) = m.term /\ m.prevIndex = 0

LogsWritten ==
  \A n \in Node :
    /\ node[n].log # <<>> => node[n].log \in Written
    /\ LastTerm(node[n].log) <= node[n].term

\* A leader has all that was written in its term.
LeaderHasAll ==
  \A n \in Node, w \in Written :
    node[n].role = Leader /\ LastTerm(w) = node[n].term
      => Begins(w, node[n].log)

LogInv == WrittenIsClosed /\ OneLine /\ Ordered /\ WrittenByWinner
            /\ RequestsWritten /\ LogsWritten /\ LeaderHasAll

-----------------------------------------------------------------------------
\* What may be chosen is in every log written in a later term, in the log of
\* every leader of one, and on the disk of everyone who confirmed it.
LaterLogsHaveIt ==
  \A v, w \in Written :
    LastTerm(v) < LastTerm(w) /\ Majority(Reachable(v)) => Begins(v, w)

LaterLeadersHaveIt ==
  \A v \in Written, n \in Node :
    node[n].role = Leader /\ LastTerm(v) < node[n].term /\ Majority(Reachable(v))
      => Begins(v, node[n].log)

BackersKeepIt ==
  \A v \in Written : \A q \in Backers(v) :
    /\ LastTerm(v) <= node[q].term
    /\ Majority(Reachable(v)) => Begins(v, node[q].log)

\* Who confirmed it votes later only for candidates that have it.
CandidatesHaveIt ==
  \A v \in Written, d \in Node :
    node[d].role = Candidate /\ LastTerm(v) < node[d].term
        /\ Majority(Reachable(v)) /\ Backers(v) \cap Voters(node[d].term, d) # {}
      => Begins(v, node[d].log)

\* The log of a candidate is the one its requests speak of.
RequestIsCurrent ==
  \A m \in voteRequests :
    /\ m.term <= node[m.cand].term
    /\ node[m.cand].role = Candidate /\ m.term = node[m.cand].term
         => /\ m.lastIndex = Len(node[m.cand].log)
            /\ m.lastTerm = LastTerm(node[m.cand].log)

\* Nobody is voted for in a term it has not reached.
BallotsAreAsked == \A b \in ballots : b.term <= node[b.cand].term

AcceptedIsWritten == \A a \in accepted : a.log \in Written \/ a.log = <<>>

ChoiceInv == LaterLogsHaveIt /\ LaterLeadersHaveIt /\ BackersKeepIt
               /\ CandidatesHaveIt /\ RequestIsCurrent
               /\ BallotsAreAsked /\ AcceptedIsWritten

-----------------------------------------------------------------------------
\* The first k entries of a log are those of one that is chosen, and was
\* written no later than in term t.
Safe(log, k, t) ==
  /\ k <= Len(log)
  /\ k = 0 \/ \E v \in Written :
                /\ Majority(Backers(v)) /\ LastTerm(v) <= t /\ k <= Len(v)
                /\ \A i \in 1 .. k : log[i] = v[i]

CommitIsSafe ==
  \A n \in Node : Safe(node[n].log, node[n].commit, node[n].term)

\* So is what a request makes its receiver commit; a notification speaks of
\* the written log that ends at its previous entry.
RequestIsSafe ==
  \A m \in appendRequests :
    IF m.entries # <<>> THEN Safe(m.entries, m.commit, m.term)
    ELSE \E w \in Written : /\ Len(w) = m.prevIndex
                            /\ LastTerm(w) = m.prevTerm
                            /\ Safe(w, m.commit, m.term)

ProposalIsWritten ==
  \A n \in Node : proposal[n].active =>
    LET v == proposal[n].request.entries IN
    /\ v \in Written /\ proposal[n].request.leader = n
    /\ proposal[n].index = Len(v) /\ proposal[n].entry = v[Len(v)]
    /\ n \in proposal[n].acks /\ proposal[n].acks \subseteq Backers(v)

AcknowledgedIsChosen ==
  \A a \in acknowledged : \E v \in Written :
    Majority(Backers(v)) /\ a.index = Len(v) /\ a.entry = v[Len(v)]

AppliedIsLog ==
  \A n \in Node : node[n].applied = SubSeq(node[n].log, 1, node[n].commit)

CommitInv == CommitIsSafe /\ RequestIsSafe /\ ProposalIsWritten
               /\ AcknowledgedIsChosen /\ AppliedIsLog
-----------------------------------------------------------------------------
\* A superset of a majority is one, and two majorities share a node.
LEMMA MajorityGrows ==
  ASSUME NEW P, NEW Q \in SUBSET Node, P \subseteq Q, Majority(P)
  PROVE  Majority(Q)
<1>1. /\ IsFiniteSet(P) /\ IsFiniteSet(Q) /\ Cardinality(P) <= Cardinality(Q)
      /\ IsFiniteSet(Node)
  BY LocalAssumption, FS_Subset
<1>2. Cardinality(P) \in Nat /\ Cardinality(Q) \in Nat /\ QuorumSize \in Nat
  BY <1>1, FS_CardinalityType DEF QuorumSize
<1> QED
  BY <1>1, <1>2 DEF Majority

\* Two majorities have a node in common.
LEMMA MajoritiesMeet ==
  ASSUME NEW P \in SUBSET Node, NEW Q \in SUBSET Node, Majority(P), Majority(Q)
  PROVE  \E q \in Node : q \in P /\ q \in Q
<1>1. IsFiniteSet(P) /\ IsFiniteSet(Q) /\ IsFiniteSet(Node)
  BY LocalAssumption, FS_Subset
<1>2. /\ Cardinality(P) \in Nat /\ Cardinality(Q) \in Nat
      /\ Cardinality(Node) \in Nat
  BY <1>1, FS_CardinalityType
<1>3. Cardinality(P) + Cardinality(Q) > Cardinality(Node)
  BY <1>2 DEF Majority, QuorumSize
<1>4. P \cap Q # {}
  BY <1>1, <1>3, FS_MajoritiesIntersect
<1> QED
  BY <1>4

-----------------------------------------------------------------------------
\* What each action does to the nodes, and that it keeps the types.
Only(n) == \A q \in Node : q # n => node'[q] = node[q]

KeepsLog(n) == /\ node'[n].log = node[n].log
               /\ node'[n].commit = node[n].commit
               /\ node'[n].applied = node[n].applied

\* A node that takes a new state leaves the others as they are.
LEMMA BecomeIs ==
  ASSUME Typed, NEW n \in Node, NEW s \in State, Become(n, s)
  PROVE  Only(n) /\ node'[n] = s /\ node' \in [Node -> State]
  BY DEF Typed, Become, Only

\* The types of a node's fields.
LEMMA StateIs ==
  ASSUME Typed, NEW n \in Node
  PROVE  /\ node[n] \in State /\ node[n].term \in Nat /\ node[n].commit \in Nat
         /\ node[n].log \in Seq(Entry) /\ node[n].applied \in Seq(Entry)
         /\ node[n].vote \in Node \cup {None}
         /\ node[n].role \in {Follower, Candidate, Leader}
  BY DEF Typed, State

\* The types hold at the start.
LEMMA TypedInit == Init => Typed
<1> SUFFICES ASSUME Init PROVE Typed
  OBVIOUS
<1>1. Initial \in State
  <2>1. <<>> \in Seq(Entry)
    BY EmptySeq
  <2> QED
    BY <2>1 DEF Initial, State
<1> QED
  BY <1>1, SerialAssumption DEF Init, Typed

\* What each action does, in the terms of the invariants: a candidacy,
LEMMA StartElectionDoes ==
  ASSUME Typed, NEW n \in Node, StartElection(n), UNCHANGED bounds
  PROVE  /\ Typed' /\ Only(n) /\ KeepsLog(n)
         /\ node'[n].term = node[n].term + 1 /\ node'[n].vote = n
         /\ node'[n].role = Candidate
         /\ campaign' = [campaign EXCEPT ![n] =
               [active |-> TRUE, term |-> node[n].term + 1, votes |-> {n},
                higher |-> {}]]
         /\ voteRequests' = voteRequests \cup
              {[term |-> node[n].term + 1, cand |-> n,
                lastIndex |-> Len(node[n].log),
                lastTerm |-> LastTerm(node[n].log)]}
         /\ Grant(n, node[n].term + 1, n)
         /\ UNCHANGED <<proposal, appendRequests, acknowledged, elected, accepted>>
<1> DEFINE s == Campaigning(node[n], n)
<1>1. /\ s \in State /\ s.log = node[n].log /\ s.commit = node[n].commit
      /\ s.applied = node[n].applied /\ s.term = node[n].term + 1
      /\ s.vote = n /\ s.role = Candidate
  BY StateIs, CampaigningIs
<1>2. /\ Become(n, s)
      /\ campaign' = [campaign EXCEPT ![n] =
               [active |-> TRUE, term |-> s.term, votes |-> {n},
                higher |-> {}]]
      /\ voteRequests' = voteRequests \cup {VoteRequest(s, n)}
      /\ Grant(n, s.term, n)
      /\ UNCHANGED <<proposal, appendRequests, acknowledged, elected, accepted>>
  BY DEF StartElection, Campaign
<1> HIDE DEF s
<1>3. Only(n) /\ node'[n] = s /\ node' \in [Node -> State]
  BY <1>1, <1>2, BecomeIs
<1>4. VoteRequest(s, n) = [term |-> node[n].term + 1, cand |-> n,
                           lastIndex |-> Len(node[n].log),
                           lastTerm |-> LastTerm(node[n].log)]
  BY <1>1 DEF VoteRequest, LastIndex
<1>5. VoteRequest(s, n) \in VoteRequests
  BY <1>1, <1>4, StateIs, LastTermIs, LenProperties DEF VoteRequests
<1>6. Typed'
  <2>1. campaign' \in [Node -> {Idle} \cup Campaigns]
    <3> DEFINE c == [active |-> TRUE, term |-> s.term, votes |-> {n},
                     higher |-> {}]
    <3>1. c \in Campaigns
      BY <1>1, StateIs DEF Campaigns
    <3> HIDE DEF c
    <3> QED
      BY <1>2, <3>1 DEF Typed, c
  <2> QED
    BY <1>2, <1>3, <1>5, <2>1 DEF Typed
<1> QED
  BY <1>1, <1>2, <1>3, <1>4, <1>6 DEF KeepsLog

\* the answer to a vote request,
LEMMA HandleVoteRequestDoes ==
  ASSUME Typed, NEW p \in Node, NEW m \in voteRequests,
         HandleVoteRequest(p, m), UNCHANGED bounds
  PROVE  /\ Typed' /\ Only(p) /\ KeepsLog(p) /\ p # m.cand
         /\ m.term \in Nat /\ m.cand \in Node
         /\ m.term > node[p].term => node'[p].term = m.term /\ node'[p].role = Follower
         /\ ~(m.term > node[p].term) => /\ node'[p].term = node[p].term
                                        /\ node'[p].role = node[p].role
         /\ \/ /\ Grant(p, m.term, m.cand)
               /\ node'[p].term = m.term /\ node'[p].vote = m.cand
               /\ m.term = node[p].term => node[p].vote \in {None, m.cand}
               /\ UpToDate(m.lastIndex, m.lastTerm, node[p].log)
               /\ m.term >= node[p].term
            \/ /\ UNCHANGED ballots
               /\ m.term = node[p].term => node'[p].vote = node[p].vote
               /\ m.term < node[p].term => node'[p].vote = node[p].vote
         /\ \A q \in Node :
              /\ campaign'[q].active = campaign[q].active
              /\ campaign[q].active =>
                   /\ campaign'[q].term = campaign[q].term
                   /\ \/ campaign'[q].votes = campaign[q].votes
                      \/ /\ q = m.cand /\ campaign[q].term = m.term
                         /\ campaign'[q].votes = campaign[q].votes \cup {p}
                         /\ Grant(p, m.term, m.cand)
         /\ UNCHANGED <<proposal, voteRequests, appendRequests, acknowledged,
                        elected, accepted>>
<1> DEFINE s == Voted(node[p], m)
           g == Grants(node[p], m)
           c == campaign[m.cand]
           votes == IF g THEN c.votes \cup {p} ELSE c.votes
           higher == IF s.term > m.term THEN c.higher \cup {s.term} ELSE c.higher
           told == [[c EXCEPT !.votes = votes] EXCEPT !.higher = higher]
<1>1. m \in VoteRequests /\ m.term \in Nat /\ m.cand \in Node
  BY DEF Typed, VoteRequests
<1>2. /\ s \in State /\ s.log = node[p].log /\ s.commit = node[p].commit
      /\ s.applied = node[p].applied
      /\ m.term > node[p].term => s.term = m.term /\ s.role = Follower
      /\ ~(m.term > node[p].term) => s.term = node[p].term /\ s.role = node[p].role
      /\ g => /\ s.term = m.term /\ s.vote = m.cand
              /\ m.term = node[p].term => node[p].vote \in {None, m.cand}
              /\ UpToDate(m.lastIndex, m.lastTerm, node[p].log)
              /\ m.term >= node[p].term
      /\ ~g => s = Adopt(node[p], m.term)
  BY <1>1, StateIs, VotedIs DEF Grants
<1>3. /\ p # m.cand /\ Become(p, s)
      /\ \/ c.active /\ c.term = m.term /\ campaign' = [campaign EXCEPT ![m.cand] = told]
         \/ UNCHANGED campaign
      /\ IF g THEN Grant(p, m.term, m.cand) ELSE UNCHANGED ballots
      /\ UNCHANGED <<proposal, voteRequests, appendRequests, acknowledged,
                     elected, accepted>>
  BY DEF HandleVoteRequest
<1>4. ~g /\ ~(m.term > node[p].term) => s = node[p]
  BY <1>1, <1>2, StateIs, AdoptIs
<1> HIDE DEF s, g
<1>5. Only(p) /\ node'[p] = s /\ node' \in [Node -> State]
  BY <1>2, <1>3, BecomeIs
<1>6. ASSUME c.active
      PROVE  /\ told \in Campaigns /\ told.active = c.active
             /\ told.term = c.term /\ told.votes = votes
  <2>1. c \in Campaigns
    BY <1>1, <1>6 DEF Typed, Idle
  <2>2. votes \in SUBSET Node /\ higher \in SUBSET Nat
    BY <1>2, <2>1 DEF Campaigns, State
  <2> DEFINE d == [c EXCEPT !.votes = votes]
  <2> HIDE DEF votes, higher
  <2>3. d \in Campaigns /\ d.term = c.term /\ d.votes = votes /\ d.active = c.active
    BY <2>1, <2>2 DEF Campaigns
  <2> HIDE DEF d
  <2>4. /\ [d EXCEPT !.higher = higher] \in Campaigns
        /\ [d EXCEPT !.higher = higher].term = d.term
        /\ [d EXCEPT !.higher = higher].votes = d.votes
        /\ [d EXCEPT !.higher = higher].active = d.active
    BY <2>2, <2>3 DEF Campaigns
  <2> QED
    BY <2>3, <2>4 DEF d
<1> HIDE DEF told
<1>7. campaign' \in [Node -> {Idle} \cup Campaigns]
  BY <1>1, <1>3, <1>6 DEF Typed
<1>8. ASSUME NEW q \in Node
      PROVE  /\ campaign'[q].active = campaign[q].active
             /\ campaign[q].active =>
                  /\ campaign'[q].term = campaign[q].term
                  /\ \/ campaign'[q].votes = campaign[q].votes
                     \/ /\ q = m.cand /\ campaign[q].term = m.term
                        /\ campaign'[q].votes = campaign[q].votes \cup {p}
                        /\ Grant(p, m.term, m.cand)
  <2>1. CASE campaign'[q] = campaign[q]
    BY <2>1
  <2>2. CASE campaign'[q] # campaign[q]
    <3>1. q = m.cand /\ c.active /\ c.term = m.term /\ campaign'[q] = told
      BY <1>1, <1>3, <2>2 DEF Typed
    <3> QED
      BY <1>3, <1>6, <3>1
  <2> QED
    BY <2>1, <2>2
<1>9. Typed'
  BY <1>3, <1>5, <1>7 DEF Typed
<1>10. node[p].term \in Nat
  BY StateIs
<1>11. \/ /\ Grant(p, m.term, m.cand)
          /\ s.term = m.term /\ s.vote = m.cand
          /\ m.term = node[p].term => node[p].vote \in {None, m.cand}
          /\ UpToDate(m.lastIndex, m.lastTerm, node[p].log)
          /\ m.term >= node[p].term
       \/ /\ UNCHANGED ballots
          /\ m.term = node[p].term => s.vote = node[p].vote
          /\ m.term < node[p].term => s.vote = node[p].vote
  BY <1>1, <1>2, <1>3, <1>4, <1>10
<1> QED
  BY <1>1, <1>2, <1>3, <1>5, <1>8, <1>9, <1>11 DEF KeepsLog

\* the count of the votes,
LEMMA FinishElectionDoes ==
  ASSUME Typed, NEW n \in Node, FinishElection(n), UNCHANGED bounds
  PROVE  /\ Typed' /\ Only(n) /\ KeepsLog(n) /\ campaign[n].active
         /\ campaign' = [campaign EXCEPT ![n] = Idle]
         /\ \/ /\ node[n].role = Candidate /\ Majority(campaign[n].votes)
               /\ node'[n].term = node[n].term /\ node'[n].vote = node[n].vote
               /\ node'[n].role = Leader
               /\ elected' = elected \cup {[term |-> node[n].term, leader |-> n]}
            \/ /\ UNCHANGED elected
               /\ node'[n].term >= node[n].term
               /\ node'[n].term = node[n].term => node'[n].vote = node[n].vote
               /\ node'[n].role # Follower => node'[n] = node[n]
         /\ UNCHANGED <<proposal, voteRequests, appendRequests, acknowledged,
                        ballots, accepted>>
<1> DEFINE c == campaign[n]
<1>1. /\ c.active /\ campaign' = [campaign EXCEPT ![n] = Idle]
      /\ UNCHANGED <<proposal, voteRequests, appendRequests, acknowledged,
                     ballots, accepted>>
  BY DEF FinishElection, CountVotes
<1>2. c \in Campaigns
  BY <1>1 DEF Typed, Idle
<1>3. campaign' \in [Node -> {Idle} \cup Campaigns]
  BY <1>1 DEF Typed
<1>4. CASE \E t \in c.higher : Become(n, SteppedDown(node[n], t)) /\ UNCHANGED elected
  <2>1. PICK t \in c.higher :
          Become(n, SteppedDown(node[n], t)) /\ UNCHANGED elected
    BY <1>4
  <2>2. t \in Nat
    BY <1>2, <2>1 DEF Campaigns
  <2> DEFINE s == SteppedDown(node[n], t)
  <2>3. /\ s \in State /\ s.log = node[n].log /\ s.commit = node[n].commit
        /\ s.applied = node[n].applied /\ s.role = Follower
        /\ t > node[n].term => s.term = t
        /\ ~(t > node[n].term) => s.term = node[n].term /\ s.vote = node[n].vote
    BY <2>2, StateIs, ObservedIs
  <2> HIDE DEF s
  <2>4. Only(n) /\ node'[n] = s /\ node' \in [Node -> State]
    BY <2>1, <2>3, BecomeIs DEF s
  <2>5. s.term >= node[n].term /\ (s.term = node[n].term => s.vote = node[n].vote)
    BY <2>2, <2>3, StateIs
  <2> QED
    BY <1>1, <1>3, <2>1, <2>3, <2>4, <2>5 DEF Typed, KeepsLog
<1>5. CASE /\ Wins(node[n], c.votes) /\ Become(n, Crowned(node[n]))
           /\ elected' = elected \cup {[term |-> node[n].term, leader |-> n]}
  <2> DEFINE s == Crowned(node[n])
  <2>1. /\ s \in State /\ s.log = node[n].log /\ s.commit = node[n].commit
        /\ s.applied = node[n].applied /\ s.term = node[n].term
        /\ s.vote = node[n].vote /\ s.role = Leader
    BY StateIs, CrownedIs
  <2> HIDE DEF s
  <2>2. Only(n) /\ node'[n] = s /\ node' \in [Node -> State]
    BY <1>5, <2>1, BecomeIs DEF s
  <2> QED
    BY <1>1, <1>3, <1>5, <2>1, <2>2 DEF Typed, KeepsLog, Wins, Majority
<1>6. CASE UNCHANGED <<node, elected>>
  <2>1. node[n].term \in Nat
    BY StateIs
  <2> QED
    BY <1>1, <1>3, <1>6, <2>1 DEF Typed, KeepsLog, Only
<1> QED
  BY <1>4, <1>5, <1>6 DEF FinishElection, CountVotes

\* a proposal once it appends, whatever the node is by then,
LEMMA ReplicateDoes ==
  ASSUME Typed, NEW n \in Node, NEW cmd \in Command, Replicate(n, cmd),
         UNCHANGED bounds
  PROVE  LET e == [term |-> node[n].term, cmd |-> cmd]
             w == node'[n].log
             m == [term |-> node[n].term, leader |-> n, prevIndex |-> 0,
                   prevTerm |-> 0, entries |-> w, commit |-> node[n].commit]
         IN
         /\ Typed' /\ Only(n) /\ e \in Entry
         /\ node'[n].term = node[n].term /\ node'[n].vote = node[n].vote
         /\ node'[n].role = node[n].role /\ node'[n].commit = node[n].commit
         /\ node'[n].applied = node[n].applied
         /\ w \in Seq(Entry) /\ w # <<>> /\ Len(w) = Len(node[n].log) + 1
         /\ w[Len(w)] = e /\ LastTerm(w) = node[n].term
         /\ Begins(node[n].log, w)
         /\ appendRequests' = appendRequests \cup {m}
         /\ proposal' = [proposal EXCEPT ![n] =
               [active |-> TRUE, index |-> Len(w), entry |-> e,
                request |-> m, acks |-> {n}]]
         /\ Accept(n, w)
         /\ UNCHANGED <<campaign, voteRequests, acknowledged, ballots, elected>>
<1> DEFINE e == [term |-> node[n].term, cmd |-> cmd]
           s == Proposed(node[n], e)
           w == s.log
           m == [term |-> node[n].term, leader |-> n, prevIndex |-> 0,
                 prevTerm |-> 0, entries |-> w, commit |-> node[n].commit]
           c == [active |-> TRUE, index |-> Len(w), entry |-> e,
                 request |-> m, acks |-> {n}]
<1>1. e \in Entry
  BY StateIs DEF Entry
<1>2. /\ s \in State /\ s.commit = node[n].commit /\ s.applied = node[n].applied
      /\ s.term = node[n].term /\ s.vote = node[n].vote /\ s.role = node[n].role
      /\ Len(w) = Len(node[n].log) + 1 /\ w[Len(w)] = e
      /\ LastTerm(w) = node[n].term /\ Begins(node[n].log, w)
  <2>1. LastTerm(w) = e.term
    BY <1>1, StateIs, ProposedIs
  <2> QED
    BY <1>1, <2>1, StateIs, ProposedIs
<1>3. /\ Become(n, s)
      /\ proposal' = [proposal EXCEPT ![n] =
               [active |-> TRUE, index |-> Len(s.log), entry |-> e,
                request |-> FullRequest(s, n), acks |-> {n}]]
      /\ appendRequests' = appendRequests \cup {FullRequest(s, n)}
      /\ Accept(n, s.log)
      /\ UNCHANGED <<campaign, voteRequests, acknowledged, ballots, elected>>
  BY DEF Replicate
<1>4. FullRequest(s, n) = m
  BY <1>2 DEF FullRequest
<1> HIDE DEF s
<1>5. /\ w \in Seq(Entry) /\ Len(node[n].log) \in Nat /\ Len(w) \in Nat
      /\ w # <<>>
  <2>1. w \in Seq(Entry) /\ Len(node[n].log) \in Nat
    BY <1>2, StateIs, LenProperties DEF State
  <2> QED
    BY <1>2, <2>1, EmptySeq, LenProperties
<1>6. Only(n) /\ node'[n] = s /\ node' \in [Node -> State]
  BY <1>2, <1>3, BecomeIs
<1>7. m \in AppendRequests
  BY <1>5, StateIs DEF AppendRequests
<1>8. c \in Proposals
  <2> HIDE DEF m, e
  <2> QED
    BY <1>1, <1>5, <1>7 DEF Proposals
<1>9. Typed'
  <2>1. proposal' \in [Node -> {Idle} \cup Proposals]
    <3> HIDE DEF c
    <3>1. proposal' = [proposal EXCEPT ![n] = c]
      BY <1>3, <1>4 DEF c
    <3> QED
      BY <1>8, <3>1 DEF Typed
  <2> QED
    BY <1>3, <1>4, <1>6, <1>7, <2>1 DEF Typed
<1> QED
  BY <1>1, <1>2, <1>3, <1>4, <1>5, <1>6, <1>9

\* a proposal,
LEMMA ProposeDoes ==
  ASSUME Typed, NEW n \in Node, NEW cmd \in Offers[n], Propose(n, cmd),
         UNCHANGED bounds
  PROVE  LET e == [term |-> node[n].term, cmd |-> cmd]
             w == node'[n].log
             m == [term |-> node[n].term, leader |-> n, prevIndex |-> 0,
                   prevTerm |-> 0, entries |-> w, commit |-> node[n].commit]
         IN
         /\ Typed' /\ Only(n) /\ node[n].role = Leader /\ e \in Entry
         /\ node'[n].term = node[n].term /\ node'[n].vote = node[n].vote
         /\ node'[n].role = node[n].role /\ node'[n].commit = node[n].commit
         /\ node'[n].applied = node[n].applied
         /\ w \in Seq(Entry) /\ w # <<>> /\ Len(w) = Len(node[n].log) + 1
         /\ w[Len(w)] = e /\ LastTerm(w) = node[n].term
         /\ Begins(node[n].log, w)
         /\ appendRequests' = appendRequests \cup {m}
         /\ proposal' = [proposal EXCEPT ![n] =
               [active |-> TRUE, index |-> Len(w), entry |-> e,
                request |-> m, acks |-> {n}]]
         /\ Accept(n, w)
         /\ UNCHANGED <<campaign, voteRequests, acknowledged, ballots, elected>>
  BY ReplicateDoes, SerialAssumption DEF Propose

\* A handler moves the commit index c of a log to c2, and applies with it.
Moved(log, c, applied, c2, applied2, target) ==
  /\ c2 \in Nat
  /\ \/ c2 = c
     \/ c2 > c /\ c2 <= Len(log) /\ c2 <= target
  /\ c <= Len(log) /\ applied = SubSeq(log, 1, c)
       => applied2 = SubSeq(log, 1, c2)

\* entries that arrive at a node in state o,
LEMMA AppendFromLeaderDoes ==
  ASSUME Typed, NEW p \in Node, NEW o \in State, NEW m \in AppendRequests,
         AppendFromLeader(p, o, m), UNCHANGED bounds
  PROVE  /\ Typed' /\ Only(p)
         /\ node'[p].term = o.term /\ node'[p].vote = o.vote
         /\ node'[p].role = o.role
         /\ \/ /\ PreviousMatches(o.log, m.prevIndex, m.prevTerm)
               /\ node'[p].log = Merged(o.log, m.entries)
               /\ Moved(node'[p].log, WithLog(o, node'[p].log).commit, o.applied,
                        node'[p].commit, node'[p].applied, m.commit)
               /\ Accept(p, m.entries)
               /\ \/ /\ proposal[m.leader].active
                     /\ proposal[m.leader].request = m
                     /\ proposal' = [proposal EXCEPT ![m.leader].acks = @ \cup {p}]
                  \/ UNCHANGED proposal
            \/ node'[p] = o /\ UNCHANGED <<accepted, proposal>>
         /\ UNCHANGED <<campaign, voteRequests, appendRequests, acknowledged,
                        ballots, elected>>
<1> DEFINE log == Merged(o.log, m.entries)
           s == WithLog(o, log)
           t == Committed(s, m.commit)
           matches == PreviousMatches(o.log, m.prevIndex, m.prevTerm)
           c == proposal[m.leader]
<1>1. m.commit \in Nat /\ m.entries \in Seq(Entry) /\ m.leader \in Node
  BY DEF AppendRequests
<1>2. /\ Become(p, IF matches THEN t ELSE o)
      /\ \/ /\ matches /\ c.active /\ c.request = m
            /\ proposal' = [proposal EXCEPT ![m.leader].acks = @ \cup {p}]
         \/ UNCHANGED proposal
      /\ IF matches THEN Accept(p, m.entries) ELSE UNCHANGED accepted
      /\ UNCHANGED <<campaign, voteRequests, appendRequests, acknowledged,
                     ballots, elected>>
  BY DEF AppendFromLeader
<1>3. o.log \in Seq(Entry) /\ log \in Seq(Entry)
  BY <1>1, MergedIsLog DEF State
<1> HIDE DEF log
<1>5. /\ s \in State /\ s.log = log /\ s.applied = o.applied
      /\ s.term = o.term /\ s.vote = o.vote /\ s.role = o.role
  BY <1>3, WithLogIs
<1> HIDE DEF s
<1>6. /\ t \in State /\ t.log = s.log
      /\ t.term = s.term /\ t.vote = s.vote /\ t.role = s.role
      /\ \/ t.commit = s.commit
         \/ t.commit > s.commit /\ t.commit <= Len(s.log) /\ t.commit <= m.commit
      /\ s.commit <= Len(s.log) /\ s.applied = SubSeq(s.log, 1, s.commit)
           => t.applied = SubSeq(t.log, 1, t.commit)
  BY <1>1, <1>5, CommittedIs
<1>7. t.commit \in Nat
  BY <1>6 DEF State
<1> HIDE DEF t
<1>8. Only(p) /\ node'[p] = (IF matches THEN t ELSE o) /\ node' \in [Node -> State]
  BY <1>2, <1>6, BecomeIs
<1>9. Typed'
  <2>1. proposal' \in [Node -> {Idle} \cup Proposals]
    <3>1. CASE UNCHANGED proposal
      BY <3>1 DEF Typed
    <3>2. CASE c.active /\ proposal' = [proposal EXCEPT ![m.leader].acks = @ \cup {p}]
      <4>1. c \in Proposals
        BY <1>1, <3>2 DEF Typed, Idle
      <4>2. [c EXCEPT !.acks = @ \cup {p}] \in Proposals
        BY <4>1 DEF Proposals
      <4>3. proposal' = [proposal EXCEPT ![m.leader] = [c EXCEPT !.acks = @ \cup {p}]]
        BY <3>2
      <4> HIDE DEF c
      <4> QED
        BY <4>2, <4>3 DEF Typed
    <3> QED
      BY <1>2, <3>1, <3>2
  <2> QED
    BY <1>2, <1>8, <2>1 DEF Typed
<1>10. CASE matches
  <2>1. node'[p] = t /\ t.log = log /\ s = WithLog(o, t.log)
    BY <1>5, <1>6, <1>8, <1>10 DEF s
  <2>2. Moved(log, s.commit, o.applied, t.commit, t.applied, m.commit)
    BY <1>5, <1>6, <1>7 DEF Moved
  <2> QED
    BY <1>2, <1>5, <1>6, <1>8, <1>9, <1>10, <2>1, <2>2 DEF log
<1>11. CASE ~matches
  BY <1>2, <1>8, <1>9, <1>11
<1> QED
  BY <1>10, <1>11

\* with a request that is handled at once,
LEMMA HandleAppendEntriesDoes ==
  ASSUME Typed, NEW p \in Node, NEW m \in appendRequests,
         HandleAppendEntries(p, m), UNCHANGED bounds
  PROVE  /\ Typed' /\ Only(p) /\ p # m.leader
         /\ m \in AppendRequests /\ node[p].term <= m.term
         /\ node'[p].term = m.term /\ node'[p].role = Follower
         /\ m.term = node[p].term => node'[p].vote = node[p].vote
         /\ \/ /\ PreviousMatches(node[p].log, m.prevIndex, m.prevTerm)
               /\ node'[p].log = Merged(node[p].log, m.entries)
               /\ LET s == WithLog(Observed(node[p], m.term), node'[p].log) IN
                  Moved(node'[p].log, s.commit, node[p].applied,
                        node'[p].commit, node'[p].applied, m.commit)
               /\ Accept(p, m.entries)
               /\ \/ /\ proposal[m.leader].active
                     /\ proposal[m.leader].request = m
                     /\ proposal' = [proposal EXCEPT ![m.leader].acks = @ \cup {p}]
                  \/ UNCHANGED proposal
            \/ KeepsLog(p) /\ UNCHANGED <<accepted, proposal>>
         /\ UNCHANGED <<campaign, voteRequests, appendRequests, acknowledged,
                        ballots, elected>>
<1> DEFINE o == Observed(node[p], m.term)
<1>1. /\ m \in AppendRequests /\ m.term \in Nat /\ m.commit \in Nat
      /\ m.entries \in Seq(Entry) /\ m.leader \in Node
  BY DEF Typed, AppendRequests
<1>2. p # m.leader /\ m.term >= node[p].term /\ AppendFromLeader(p, o, m)
  BY DEF HandleAppendEntries
<1>3. /\ o \in State /\ o.log = node[p].log /\ o.commit = node[p].commit
      /\ o.applied = node[p].applied /\ o.role = Follower
      /\ o.term = m.term
      /\ m.term = node[p].term => o.vote = node[p].vote
  <2>1. /\ node[p] \in State /\ node[p].term \in Nat /\ m.term \in Nat
        /\ m.term >= node[p].term
    BY <1>1, <1>2, StateIs
  <2>2. /\ o \in State /\ o.log = node[p].log /\ o.commit = node[p].commit
        /\ o.applied = node[p].applied /\ o.role = Follower
        /\ m.term > node[p].term => o.term = m.term
        /\ ~(m.term > node[p].term) => o.term = node[p].term /\ o.vote = node[p].vote
    BY <2>1, ObservedIs
  <2> HIDE DEF o
  <2> QED
    BY <2>1, <2>2
<1> HIDE DEF o
<1>4. /\ Typed' /\ Only(p)
      /\ node'[p].term = o.term /\ node'[p].vote = o.vote
      /\ node'[p].role = o.role
      /\ \/ /\ PreviousMatches(o.log, m.prevIndex, m.prevTerm)
            /\ node'[p].log = Merged(o.log, m.entries)
            /\ Moved(node'[p].log, WithLog(o, node'[p].log).commit, o.applied,
                     node'[p].commit, node'[p].applied, m.commit)
            /\ Accept(p, m.entries)
            /\ \/ /\ proposal[m.leader].active
                  /\ proposal[m.leader].request = m
                  /\ proposal' = [proposal EXCEPT ![m.leader].acks = @ \cup {p}]
               \/ UNCHANGED proposal
         \/ node'[p] = o /\ UNCHANGED <<accepted, proposal>>
      /\ UNCHANGED <<campaign, voteRequests, appendRequests, acknowledged,
                     ballots, elected>>
  BY <1>1, <1>2, <1>3, AppendFromLeaderDoes
<1>5. /\ node'[p].term = m.term /\ node'[p].role = Follower
      /\ m.term = node[p].term => node'[p].vote = node[p].vote
      /\ node[p].term <= m.term
  BY <1>1, <1>2, <1>3, <1>4, StateIs
<1>6. CASE node'[p] = o /\ UNCHANGED <<accepted, proposal>>
  <2>1. KeepsLog(p)
    BY <1>3, <1>6 DEF KeepsLog
  <2> QED
    BY <1>1, <1>2, <1>4, <1>5, <1>6, <2>1
<1>7. CASE ~(node'[p] = o /\ UNCHANGED <<accepted, proposal>>)
  BY <1>1, <1>2, <1>3, <1>4, <1>5, <1>7 DEF o
<1> QED
  BY <1>6, <1>7

\* the count of the acknowledgements of call c,
LEMMA CountAcksDoes ==
  ASSUME Typed, NEW n \in Node, NEW c \in Proposals, CountAcks(n, c),
         proposal' \in [Node -> {Idle} \cup Proposals], UNCHANGED bounds
  PROVE  /\ Typed' /\ Only(n)
         /\ node'[n].term = node[n].term /\ node'[n].vote = node[n].vote
         /\ node'[n].role = node[n].role /\ node'[n].log = node[n].log
         /\ \/ /\ Majority(c.acks)
               /\ Moved(node[n].log, node[n].commit, node[n].applied,
                        node'[n].commit, node'[n].applied, c.index)
               /\ acknowledged' = acknowledged \cup
                                    {[index |-> c.index, entry |-> c.entry]}
               /\ appendRequests' = appendRequests \cup
                    {[term |-> node[n].term, leader |-> n,
                      prevIndex |-> Len(node[n].log),
                      prevTerm |-> LastTerm(node[n].log),
                      entries |-> <<>>, commit |-> node'[n].commit]}
            \/ UNCHANGED <<node, acknowledged, appendRequests>>
         /\ UNCHANGED <<campaign, voteRequests, ballots, elected, accepted>>
<1> DEFINE s == Committed(node[n], c.index)
           m == [term |-> node[n].term, leader |-> n,
                 prevIndex |-> Len(node[n].log),
                 prevTerm |-> LastTerm(node[n].log),
                 entries |-> <<>>, commit |-> s.commit]
<1>1. /\ \/ /\ Majority(c.acks) /\ Become(n, s)
            /\ acknowledged' = acknowledged \cup
                                 {[index |-> c.index, entry |-> c.entry]}
            /\ appendRequests' = appendRequests \cup {Notification(s, n)}
         \/ UNCHANGED <<node, acknowledged, appendRequests>>
      /\ UNCHANGED <<campaign, voteRequests, ballots, elected, accepted>>
  BY DEF CountAcks, Majority
<1>2. c.index \in Nat
  BY DEF Proposals
<1>3. /\ s \in State /\ s.log = node[n].log
      /\ s.term = node[n].term /\ s.vote = node[n].vote /\ s.role = node[n].role
      /\ \/ s.commit = node[n].commit
         \/ /\ s.commit > node[n].commit /\ s.commit <= Len(node[n].log)
            /\ s.commit <= c.index
      /\ node[n].commit <= Len(node[n].log)
           /\ node[n].applied = SubSeq(node[n].log, 1, node[n].commit)
           => s.applied = SubSeq(s.log, 1, s.commit)
  BY <1>2, StateIs, CommittedIs
<1> HIDE DEF s
<1>4. Notification(s, n) = m
  <2> DEFINE f == FullRequest(s, n)
             g == [f EXCEPT !.entries = <<>>]
             h == [g EXCEPT !.prevIndex = Len(node[n].log)]
  <2>1. f = [term |-> node[n].term, leader |-> n, prevIndex |-> 0, prevTerm |-> 0,
             entries |-> s.log, commit |-> s.commit]
    BY <1>3 DEF FullRequest
  <2>2. Notification(s, n) = [h EXCEPT !.prevTerm = LastTerm(node[n].log)]
    BY <1>3 DEF Notification, LastIndex
  <2> HIDE DEF f
  <2>3. g = [term |-> node[n].term, leader |-> n, prevIndex |-> 0, prevTerm |-> 0,
             entries |-> <<>>, commit |-> s.commit]
    BY <2>1
  <2> HIDE DEF g
  <2>4. h = [term |-> node[n].term, leader |-> n,
             prevIndex |-> Len(node[n].log), prevTerm |-> 0,
             entries |-> <<>>, commit |-> s.commit]
    BY <2>3
  <2> HIDE DEF h
  <2> QED
    BY <2>2, <2>4
<1>5. m \in AppendRequests
  <2>1. <<>> \in Seq(Entry) /\ LastTerm(node[n].log) \in Nat /\ Len(node[n].log) \in Nat
    BY StateIs, LastTermIs, LenProperties, EmptySeq
  <2>2. s.commit \in Nat /\ node[n].term \in Nat
    BY <1>3, StateIs DEF State
  <2> QED
    BY <2>1, <2>2 DEF AppendRequests
<1>6. CASE /\ Majority(c.acks) /\ Become(n, s)
           /\ acknowledged' = acknowledged \cup
                                {[index |-> c.index, entry |-> c.entry]}
           /\ appendRequests' = appendRequests \cup {m}
  <2>1. Only(n) /\ node'[n] = s /\ node' \in [Node -> State]
    BY <1>3, <1>6, BecomeIs
  <2>2. Typed'
    <3> HIDE DEF m
    <3> QED
      BY <1>1, <1>5, <1>6, <2>1 DEF Typed
  <2>3. Moved(node[n].log, node[n].commit, node[n].applied, s.commit, s.applied,
              c.index)
    BY <1>3 DEF Moved, State
  <2> QED
    BY <1>1, <1>3, <1>6, <2>1, <2>2, <2>3
<1>7. CASE UNCHANGED <<node, acknowledged, appendRequests>>
  BY <1>1, <1>7 DEF Typed, Only
<1> QED
  BY <1>1, <1>4, <1>6, <1>7

\* or of the call in progress,
LEMMA FinishProposalDoes ==
  ASSUME Typed, NEW n \in Node, FinishProposal(n), UNCHANGED bounds
  PROVE  LET c == proposal[n] IN
         /\ Typed' /\ Only(n) /\ c.active
         /\ proposal' = [proposal EXCEPT ![n] = Idle]
         /\ node'[n].term = node[n].term /\ node'[n].vote = node[n].vote
         /\ node'[n].role = node[n].role /\ node'[n].log = node[n].log
         /\ \/ /\ Majority(c.acks)
               /\ Moved(node[n].log, node[n].commit, node[n].applied,
                        node'[n].commit, node'[n].applied, c.index)
               /\ acknowledged' = acknowledged \cup
                                    {[index |-> c.index, entry |-> c.entry]}
               /\ appendRequests' = appendRequests \cup
                    {[term |-> node[n].term, leader |-> n,
                      prevIndex |-> Len(node[n].log),
                      prevTerm |-> LastTerm(node[n].log),
                      entries |-> <<>>, commit |-> node'[n].commit]}
            \/ UNCHANGED <<node, acknowledged, appendRequests>>
         /\ UNCHANGED <<campaign, voteRequests, ballots, elected, accepted>>
<1> DEFINE c == proposal[n]
<1>1. /\ c.active /\ proposal' = [proposal EXCEPT ![n] = Idle] /\ CountAcks(n, c)
  BY DEF FinishProposal
<1>2. c \in {Idle} \cup Proposals /\ proposal' \in [Node -> {Idle} \cup Proposals]
  BY <1>1 DEF Typed
<1> HIDE DEF c
<1>3. c \in Proposals
  BY <1>1, <1>2 DEF Idle
<1> QED
  BY <1>1, <1>2, <1>3, CountAcksDoes DEF c

\* and a restart.
LEMMA RestartDoes ==
  ASSUME Typed, NEW n \in Node, NEW s \in State, RestartWith(n, s),
         UNCHANGED bounds
  PROVE  /\ Typed' /\ Only(n)
         /\ node'[n].term = s.term /\ node'[n].vote = s.vote
         /\ node'[n].role = Follower /\ node'[n].log = s.log
         /\ node'[n].commit = s.commit
         /\ s.commit <= Len(s.log)
              => node'[n].applied = SubSeq(s.log, 1, s.commit)
         /\ campaign' = [campaign EXCEPT ![n] = Idle]
         /\ proposal' = [proposal EXCEPT ![n] = Idle]
         /\ UNCHANGED <<voteRequests, appendRequests, acknowledged, ballots,
                        elected, accepted>>
<1> DEFINE a == Restarted(s)
<1>1. /\ Become(n, a)
      /\ campaign' = [campaign EXCEPT ![n] = Idle]
      /\ proposal' = [proposal EXCEPT ![n] = Idle]
      /\ UNCHANGED <<voteRequests, appendRequests, acknowledged, ballots,
                     elected, accepted>>
  BY DEF RestartWith, history
<1>2. /\ a \in State /\ a.log = s.log /\ a.commit = s.commit
      /\ a.term = s.term /\ a.vote = s.vote /\ a.role = Follower
      /\ s.commit <= Len(s.log) => a.applied = SubSeq(a.log, 1, a.commit)
  BY RestartedIs
<1> HIDE DEF a
<1>3. Only(n) /\ node'[n] = a /\ node' \in [Node -> State]
  BY <1>1, <1>2, BecomeIs
<1> QED
  BY <1>1, <1>2, <1>3 DEF Typed

\* A crash between handlers or in a change of the term keeps the log.
LEMMA CrashDoes ==
  ASSUME Typed, NEW n \in Node, Restart(n) \/ CrashInTermChange(n),
         UNCHANGED bounds
  PROVE  /\ Typed' /\ Only(n)
         /\ node'[n].term >= node[n].term
         /\ node'[n].term = node[n].term => node'[n].vote = node[n].vote
         /\ node'[n].role = Follower /\ node'[n].log = node[n].log
         /\ node'[n].commit = node[n].commit
         /\ node[n].commit <= Len(node[n].log)
              => node'[n].applied = SubSeq(node[n].log, 1, node[n].commit)
         /\ campaign' = [campaign EXCEPT ![n] = Idle]
         /\ proposal' = [proposal EXCEPT ![n] = Idle]
         /\ UNCHANGED <<voteRequests, appendRequests, acknowledged, ballots,
                        elected, accepted>>
<1>1. PICK s \in State : /\ RestartWith(n, s)
                         /\ s.log = node[n].log /\ s.commit = node[n].commit
                         /\ s.term >= node[n].term
                         /\ s.term = node[n].term => s.vote = node[n].vote
  <2>1. CASE Restart(n)
    BY <2>1, StateIs DEF Restart
  <2>2. CASE CrashInTermChange(n)
    <3>1. PICK t \in NewTerms(n) : \/ RestartWith(n, TermOnly(node[n], t))
                                   \/ RestartWith(n, Adopt(node[n], t))
      BY <2>2 DEF CrashInTermChange
    <3>2. t \in Nat /\ t > node[n].term
      BY <3>1, StateIs DEF NewTerms, Typed, VoteRequests, AppendRequests
    <3>3. CASE RestartWith(n, TermOnly(node[n], t))
      <4>1. /\ TermOnly(node[n], t) \in State
            /\ TermOnly(node[n], t).log = node[n].log
            /\ TermOnly(node[n], t).commit = node[n].commit
            /\ TermOnly(node[n], t).term = t
        BY <3>2, StateIs, TermOnlyIs
      <4> QED
        BY <3>2, <3>3, <4>1, StateIs
    <3>4. CASE RestartWith(n, Adopt(node[n], t))
      <4>1. /\ Adopt(node[n], t) \in State
            /\ Adopt(node[n], t).log = node[n].log
            /\ Adopt(node[n], t).commit = node[n].commit
            /\ Adopt(node[n], t).term = t
        BY <3>2, StateIs, AdoptIs
      <4> QED
        BY <3>2, <3>4, <4>1, StateIs
    <3> QED
      BY <3>1, <3>3, <3>4
  <2> QED
    BY <2>1, <2>2
<1> QED
  BY <1>1, RestartDoes

\* A crash during the merge leaves one of the logs on the way.
LEMMA CrashInAppendDoes ==
  ASSUME Typed, NEW n \in Node, NEW m \in appendRequests, CrashInAppend(n, m),
         UNCHANGED bounds
  PROVE  /\ Typed' /\ Only(n) /\ m \in AppendRequests
         /\ node[n].term <= m.term /\ node'[n].term = m.term
         /\ m.term = node[n].term => node'[n].vote = node[n].vote
         /\ node'[n].role = Follower
         /\ node'[n].log \in DuringMerge(node[n].log, m.entries)
         /\ node'[n].commit = WithLog(Observed(node[n], m.term), node'[n].log).commit
         /\ node'[n].commit <= Len(node'[n].log)
              => node'[n].applied = SubSeq(node'[n].log, 1, node'[n].commit)
         /\ campaign' = [campaign EXCEPT ![n] = Idle]
         /\ proposal' = [proposal EXCEPT ![n] = Idle]
         /\ UNCHANGED <<voteRequests, appendRequests, acknowledged, ballots,
                        elected, accepted>>
<1> DEFINE o == Observed(node[n], m.term)
<1>1. m \in AppendRequests /\ m.term \in Nat /\ m.entries \in Seq(Entry)
  BY DEF Typed, AppendRequests
<1>2. m.term >= node[n].term
  BY DEF CrashInAppend
<1>3. PICK log \in DuringMerge(node[n].log, m.entries) :
        RestartWith(n, WithLog(o, log))
  BY DEF CrashInAppend
<1>4. /\ o \in State /\ o.term = m.term
      /\ m.term = node[n].term => o.vote = node[n].vote
  <2>1. node[n] \in State /\ node[n].term \in Nat
    BY StateIs
  <2>2. /\ o \in State
        /\ m.term > node[n].term => o.term = m.term
        /\ ~(m.term > node[n].term) => o.term = node[n].term /\ o.vote = node[n].vote
    BY <1>1, <2>1, ObservedIs
  <2> HIDE DEF o
  <2> QED
    BY <1>1, <1>2, <2>1, <2>2
<1>5. log \in Seq(Entry)
  BY <1>1, StateIs, MergedIsLog
<1> DEFINE s == WithLog(o, log)
<1> HIDE DEF o
<1>6. /\ s \in State /\ s.log = log /\ s.term = o.term /\ s.vote = o.vote
  BY <1>4, <1>5, WithLogIs
<1> HIDE DEF s
<1>7. /\ Typed' /\ Only(n)
      /\ node'[n].term = s.term /\ node'[n].vote = s.vote
      /\ node'[n].role = Follower /\ node'[n].log = s.log
      /\ node'[n].commit = s.commit
      /\ s.commit <= Len(s.log)
           => node'[n].applied = SubSeq(s.log, 1, s.commit)
      /\ campaign' = [campaign EXCEPT ![n] = Idle]
      /\ proposal' = [proposal EXCEPT ![n] = Idle]
      /\ UNCHANGED <<voteRequests, appendRequests, acknowledged, ballots,
                     elected, accepted>>
  BY <1>3, <1>6, RestartDoes DEF s
<1>8. s = WithLog(o, node'[n].log)
  BY <1>6, <1>7 DEF s
<1> QED
  BY <1>1, <1>2, <1>3, <1>4, <1>6, <1>7, <1>8, StateIs DEF o
-----------------------------------------------------------------------------
\* Votes.  A step in which nobody becomes candidate or leader, nobody votes
\* and no term goes back.
Subsides ==
  /\ \A q \in Node :
       /\ node'[q].term >= node[q].term
       /\ node'[q].term = node[q].term => node'[q].vote = node[q].vote
       /\ node'[q].role # Follower => /\ node'[q].role = node[q].role
                                      /\ node'[q].term = node[q].term
       /\ campaign'[q] = campaign[q] \/ campaign'[q] = Idle
  /\ UNCHANGED <<ballots, elected>>

\* A step of one node that votes for nobody and wins nothing.
LEMMA SubsidesIs ==
  ASSUME Typed, NEW n \in Node, Only(n),
         node'[n].term >= node[n].term,
         node'[n].term = node[n].term => node'[n].vote = node[n].vote,
         node'[n].role # Follower => /\ node'[n].role = node[n].role
                                     /\ node'[n].term = node[n].term,
         campaign' = campaign \/ campaign' = [campaign EXCEPT ![n] = Idle],
         UNCHANGED <<ballots, elected>>
  PROVE  Subsides
<1> SUFFICES ASSUME NEW q \in Node
             PROVE  /\ node'[q].term >= node[q].term
                    /\ node'[q].term = node[q].term => node'[q].vote = node[q].vote
                    /\ node'[q].role # Follower => /\ node'[q].role = node[q].role
                                                   /\ node'[q].term = node[q].term
                    /\ campaign'[q] = campaign[q] \/ campaign'[q] = Idle
  BY DEF Subsides
<1>1. campaign'[q] = campaign[q] \/ campaign'[q] = Idle
  BY DEF Typed
<1>2. CASE q = n
  BY <1>1, <1>2
<1>3. CASE q # n
  BY <1>1, <1>3, StateIs DEF Only
<1> QED
  BY <1>2, <1>3

\* A step that subsides keeps the invariant about the votes.
LEMMA VotesSubside ==
  ASSUME Typed, Typed', VoteInv, Subsides
  PROVE  VoteInv'
<1> USE DEF VoteInv
<1>1. BallotsRecorded'
  <2> SUFFICES ASSUME NEW b \in ballots
               PROVE  /\ b.voter \in Node /\ b.term \in Nat /\ b.cand \in Node
                      /\ b.term <= node'[b.voter].term
                      /\ b.term = node'[b.voter].term => node'[b.voter].vote = b.cand
    BY DEF Subsides, BallotsRecorded
  <2>1. /\ b.voter \in Node /\ b.term \in Nat /\ b.cand \in Node
        /\ b.term <= node[b.voter].term
        /\ b.term = node[b.voter].term => node[b.voter].vote = b.cand
    BY DEF BallotsRecorded
  <2>2. node[b.voter].term \in Nat /\ node'[b.voter].term \in Nat
    BY <2>1 DEF Typed, State
  <2> QED
    BY <2>1, <2>2 DEF Subsides
<1>2. VoteOnce'
  BY DEF Subsides, VoteOnce
<1>3. VotesGranted'
  BY DEF Subsides, VotesGranted, Voters, Idle, Follower, Candidate
<1>4. WinnersHaveWon'
  <2> SUFFICES ASSUME NEW e \in elected
               PROVE  /\ e.leader \in Node /\ e.term \in Nat
                      /\ Majority(Voters(e.term, e.leader))'
                      /\ e.term <= node'[e.leader].term
                      /\ e.term = node'[e.leader].term
                           => node'[e.leader].role # Candidate
    BY DEF Subsides, WinnersHaveWon
  <2>1. /\ e.leader \in Node /\ e.term \in Nat
        /\ Majority(Voters(e.term, e.leader))
        /\ e.term <= node[e.leader].term
        /\ e.term = node[e.leader].term => node[e.leader].role # Candidate
    BY DEF WinnersHaveWon
  <2>2. node[e.leader].term \in Nat /\ node'[e.leader].term \in Nat
    BY <2>1 DEF Typed, State
  <2>3. Majority(Voters(e.term, e.leader))'
    BY <2>1 DEF Subsides, Voters, Majority
  <2> QED
    BY <2>1, <2>2, <2>3 DEF Subsides, Follower, Candidate
<1>5. LeadersHaveWon'
  BY DEF Subsides, LeadersHaveWon, Follower, Leader
<1> QED
  BY <1>1, <1>2, <1>3, <1>4, <1>5

\* Who votes for the first time in a term keeps the record right.
LEMMA GrantIsRecorded ==
  ASSUME Typed, VoteInv, NEW p \in Node, NEW t \in Nat, NEW c \in Node,
         Only(p), Grant(p, t, c),
         t >= node[p].term, t = node[p].term => node[p].vote \in {None, c},
         node'[p].term = t, node'[p].vote = c
  PROVE  /\ BallotsRecorded' /\ VoteOnce'
         /\ \A u, d : Voters(u, d) \subseteq Voters(u, d)'
         /\ p \in Voters(t, c)'
<1> DEFINE new == [voter |-> p, term |-> t, cand |-> c]
<1>1. ballots' = ballots \cup {new}
  BY DEF Grant
<1>2. ASSUME NEW b \in ballots
      PROVE  /\ b.voter \in Node /\ b.term \in Nat /\ b.cand \in Node
             /\ b.term <= node'[b.voter].term
             /\ b.term = node'[b.voter].term => node'[b.voter].vote = b.cand
             /\ b.voter = p /\ b.term = t => b.cand = c
  <2>1. /\ b.voter \in Node /\ b.term \in Nat /\ b.cand \in Node
        /\ b.term <= node[b.voter].term
        /\ b.term = node[b.voter].term => node[b.voter].vote = b.cand
    BY DEF VoteInv, BallotsRecorded
  <2>2. CASE b.voter # p
    BY <2>1, <2>2 DEF Only
  <2>3. CASE b.voter = p
    <3>1. node[p].term \in Nat
      BY StateIs
    <3>2. b.term = t => node[p].vote = b.cand /\ t = node[p].term
      BY <2>1, <2>3, <3>1
    <3>3. b.term = t => b.cand = c
      BY <2>1, <3>2, LocalAssumption
    <3> QED
      BY <2>1, <2>3, <3>1, <3>3
  <2> QED
    BY <2>2, <2>3
<1>3. BallotsRecorded'
  BY <1>1, <1>2 DEF BallotsRecorded
<1>4. VoteOnce'
  BY <1>1, <1>2 DEF VoteInv, VoteOnce
<1>5. \A u, d : Voters(u, d) \subseteq Voters(u, d)'
  BY <1>1 DEF Voters
<1>6. p \in Voters(t, c)'
  BY <1>1 DEF Voters
<1> QED
  BY <1>3, <1>4, <1>5, <1>6

\* The winners that are on record stay so while votes are added and terms grow.
LEMMA WinnersStay ==
  ASSUME Typed, Typed', VoteInv, NEW e \in elected,
         \A u, d : Voters(u, d) \subseteq Voters(u, d)',
         node'[e.leader].term >= node[e.leader].term,
         node'[e.leader].role = Candidate
           => \/ node'[e.leader].term > node[e.leader].term
              \/ node[e.leader].role = Candidate
  PROVE  /\ e.leader \in Node /\ e.term \in Nat
         /\ Majority(Voters(e.term, e.leader))'
         /\ e.term <= node'[e.leader].term
         /\ e.term = node'[e.leader].term => node'[e.leader].role # Candidate
<1>1. /\ e.leader \in Node /\ e.term \in Nat
      /\ Majority(Voters(e.term, e.leader))
      /\ e.term <= node[e.leader].term
      /\ e.term = node[e.leader].term => node[e.leader].role # Candidate
  BY DEF VoteInv, WinnersHaveWon
<1>2. node[e.leader].term \in Nat /\ node'[e.leader].term \in Nat
  BY <1>1 DEF Typed, State
<1> DEFINE P == Voters(e.term, e.leader)
           Q == Voters(e.term, e.leader)'
<1>3. Q \in SUBSET Node /\ P \subseteq Q /\ Majority(P)
  BY <1>1 DEF Voters
<1> HIDE DEF P, Q
<1>4. Majority(Q)
  BY <1>3, MajorityGrows
<1>5. Majority(Voters(e.term, e.leader))'
  BY <1>4 DEF Majority, Q
<1> QED
  BY <1>1, <1>2, <1>5

\* Nobody has voted at the start.
LEMMA VoteInit == Init => VoteInv
<1> SUFFICES ASSUME Init PROVE VoteInv
  OBVIOUS
<1>1. \A n \in Node : ~campaign[n].active /\ node[n].role = Follower
  BY DEF Init, Idle, Initial
<1> QED
  BY <1>1 DEF Init, VoteInv, BallotsRecorded, VoteOnce, VotesGranted,
              WinnersHaveWon, LeadersHaveWon, Leader, Follower

\* A candidate votes for itself in a term in which it has not voted.
LEMMA VotesStartElection ==
  ASSUME Typed, VoteInv, NEW n \in Node, StartElection(n), UNCHANGED bounds
  PROVE  VoteInv'
<1>0. PICK t \in Nat : t = node[n].term + 1
  BY StateIs
<1> DEFINE new == [active |-> TRUE, term |-> t, votes |-> {n}, higher |-> {}]
<1>1. /\ Typed' /\ Only(n)
      /\ node'[n].term = t /\ node'[n].vote = n /\ node'[n].role = Candidate
      /\ campaign' = [campaign EXCEPT ![n] = new]
      /\ Grant(n, t, n) /\ UNCHANGED elected
  BY <1>0, StartElectionDoes
<1>2. node[n].term \in Nat /\ t >= node[n].term /\ t # node[n].term
  BY <1>0, StateIs
<1>3. /\ BallotsRecorded' /\ VoteOnce'
      /\ \A u, d : Voters(u, d) \subseteq Voters(u, d)'
      /\ n \in Voters(t, n)'
  BY <1>1, <1>2, GrantIsRecorded
<1>4. VotesGranted'
  <2> SUFFICES ASSUME NEW q \in Node, campaign'[q].active,
                      NEW u, campaign'[q].term = u
               PROVE  /\ campaign'[q].votes \subseteq Voters(u, q)'
                      /\ node'[q].role = Candidate => u = node'[q].term
    BY DEF VotesGranted, Voters
  <2>1. CASE q = n
    <3>1. campaign'[n] = new
      BY <1>1 DEF Typed
    <3> QED
      BY <1>1, <1>3, <2>1, <3>1
  <2>2. CASE q # n
    <3>1. campaign'[q] = campaign[q] /\ node'[q] = node[q]
      BY <1>1, <2>2 DEF Only, Typed
    <3> QED
      BY <1>3, <3>1 DEF VoteInv, VotesGranted
  <2> QED
    BY <2>1, <2>2
<1>5. WinnersHaveWon'
  <2> SUFFICES ASSUME NEW e \in elected
               PROVE  /\ e.leader \in Node /\ e.term \in Nat
                      /\ Majority(Voters(e.term, e.leader))'
                      /\ e.term <= node'[e.leader].term
                      /\ e.term = node'[e.leader].term
                           => node'[e.leader].role # Candidate
    BY <1>1 DEF WinnersHaveWon
  <2>1. e.leader \in Node
    BY DEF VoteInv, WinnersHaveWon
  <2>2. /\ node'[e.leader].term >= node[e.leader].term
        /\ node'[e.leader].role = Candidate
             => \/ node'[e.leader].term > node[e.leader].term
                \/ node[e.leader].role = Candidate
    BY <1>1, <1>2, <2>1, StateIs DEF Only
  <2> QED
    BY <1>1, <1>3, <2>2, WinnersStay
<1>6. LeadersHaveWon'
  BY <1>1 DEF VoteInv, LeadersHaveWon, Only, Leader, Candidate
<1> QED
  BY <1>3, <1>4, <1>5, <1>6 DEF VoteInv

\* A vote is given once in a term.
LEMMA VotesHandleVoteRequest ==
  ASSUME Typed, VoteInv, NEW p \in Node, NEW m \in voteRequests,
         HandleVoteRequest(p, m), UNCHANGED bounds
  PROVE  VoteInv'
<1> DEFINE votes(q) == \/ campaign'[q].votes = campaign[q].votes
                       \/ /\ q = m.cand /\ campaign[q].term = m.term
                          /\ campaign'[q].votes = campaign[q].votes \cup {p}
                          /\ Grant(p, m.term, m.cand)
           granted == /\ Grant(p, m.term, m.cand)
                      /\ node'[p].term = m.term /\ node'[p].vote = m.cand
                      /\ m.term = node[p].term => node[p].vote \in {None, m.cand}
                      /\ m.term >= node[p].term
           refused == /\ UNCHANGED ballots
                      /\ m.term = node[p].term => node'[p].vote = node[p].vote
                      /\ m.term < node[p].term => node'[p].vote = node[p].vote
<1>1. /\ Typed' /\ Only(p) /\ m.term \in Nat /\ m.cand \in Node
      /\ m.term > node[p].term => node'[p].term = m.term /\ node'[p].role = Follower
      /\ ~(m.term > node[p].term) => /\ node'[p].term = node[p].term
                                     /\ node'[p].role = node[p].role
      /\ granted \/ refused
      /\ UNCHANGED elected
  BY HandleVoteRequestDoes
<1>2. ASSUME NEW q \in Node
      PROVE  /\ campaign'[q].active = campaign[q].active
             /\ campaign[q].active => campaign'[q].term = campaign[q].term
             /\ campaign[q].active => votes(q)
  BY HandleVoteRequestDoes
<1> HIDE DEF votes, granted, refused
<1>3. node[p].term \in Nat
  BY StateIs
<1>4. /\ BallotsRecorded' /\ VoteOnce'
      /\ \A u, d : Voters(u, d) \subseteq Voters(u, d)'
      /\ Grant(p, m.term, m.cand) => p \in Voters(m.term, m.cand)'
  <2>1. CASE granted
    BY <1>1, <2>1, GrantIsRecorded DEF granted
  <2>2. CASE refused
    <3>1. BallotsRecorded'
      <4> SUFFICES ASSUME NEW b \in ballots
                   PROVE  /\ b.voter \in Node /\ b.term \in Nat /\ b.cand \in Node
                          /\ b.term <= node'[b.voter].term
                          /\ b.term = node'[b.voter].term
                               => node'[b.voter].vote = b.cand
        BY <2>2 DEF refused, BallotsRecorded
      <4>1. /\ b.voter \in Node /\ b.term \in Nat /\ b.cand \in Node
            /\ b.term <= node[b.voter].term
            /\ b.term = node[b.voter].term => node[b.voter].vote = b.cand
        BY DEF VoteInv, BallotsRecorded
      <4>2. CASE b.voter # p
        BY <1>1, <4>1, <4>2 DEF Only
      <4>3. CASE b.voter = p
        BY <1>1, <1>3, <2>2, <4>1, <4>3 DEF refused
      <4> QED
        BY <4>2, <4>3
    <3>2. VoteOnce'
      BY <2>2 DEF refused, VoteInv, VoteOnce
    <3>3. \A u, d : Voters(u, d) \subseteq Voters(u, d)'
      BY <2>2 DEF refused, Voters
    <3>4. Grant(p, m.term, m.cand) => p \in Voters(m.term, m.cand)'
      BY DEF Grant, Voters
    <3> QED
      BY <3>1, <3>2, <3>3, <3>4
  <2> QED
    BY <1>1, <2>1, <2>2
<1>5. \A q \in Node : node'[q].term >= node[q].term
  BY <1>1, <1>3, StateIs DEF Only
<1>6. ASSUME NEW q \in Node, node'[q].role # Follower
      PROVE  node'[q].role = node[q].role /\ node'[q].term = node[q].term
  BY <1>1, <1>6 DEF Only
<1>7. VotesGranted'
  <2> SUFFICES ASSUME NEW q \in Node, campaign'[q].active,
                      NEW u, campaign'[q].term = u
               PROVE  /\ campaign'[q].votes \subseteq Voters(u, q)'
                      /\ node'[q].role = Candidate => u = node'[q].term
    BY DEF VotesGranted, Voters
  <2>1. /\ campaign[q].active /\ campaign'[q].term = campaign[q].term /\ votes(q)
        /\ campaign[q].votes \subseteq Voters(campaign[q].term, q)
        /\ node[q].role = Candidate => campaign[q].term = node[q].term
    BY <1>2 DEF VoteInv, VotesGranted
  <2>2. campaign'[q].votes \subseteq Voters(u, q)'
    <3>1. campaign[q].votes \subseteq Voters(u, q)'
      BY <1>4, <2>1
    <3>2. CASE campaign'[q].votes = campaign[q].votes
      BY <3>1, <3>2
    <3>3. CASE /\ q = m.cand /\ campaign[q].term = m.term
               /\ campaign'[q].votes = campaign[q].votes \cup {p}
               /\ Grant(p, m.term, m.cand)
      BY <1>4, <2>1, <3>1, <3>3
    <3> QED
      BY <2>1, <3>2, <3>3 DEF votes
  <2> QED
    BY <1>6, <2>1, <2>2 DEF Candidate, Follower
<1>8. WinnersHaveWon'
  <2> SUFFICES ASSUME NEW e \in elected
               PROVE  /\ e.leader \in Node /\ e.term \in Nat
                      /\ Majority(Voters(e.term, e.leader))'
                      /\ e.term <= node'[e.leader].term
                      /\ e.term = node'[e.leader].term
                           => node'[e.leader].role # Candidate
    BY <1>1 DEF WinnersHaveWon
  <2>1. e.leader \in Node
    BY DEF VoteInv, WinnersHaveWon
  <2> QED
    BY <1>1, <1>4, <1>5, <1>6, <2>1, WinnersStay DEF Candidate, Follower
<1>9. LeadersHaveWon'
  BY <1>1, <1>6 DEF VoteInv, LeadersHaveWon, Leader, Follower
<1> QED
  BY <1>4, <1>7, <1>8, <1>9 DEF VoteInv

\* A winner has a majority of votes of its term.
LEMMA VotesFinishElection ==
  ASSUME Typed, VoteInv, NEW n \in Node, FinishElection(n), UNCHANGED bounds
  PROVE  VoteInv'
<1> DEFINE new == [term |-> node[n].term, leader |-> n]
<1>1. /\ Typed' /\ Only(n) /\ KeepsLog(n) /\ campaign[n].active
      /\ campaign' = [campaign EXCEPT ![n] = Idle]
      /\ \/ /\ node[n].role = Candidate /\ Majority(campaign[n].votes)
            /\ node'[n].term = node[n].term /\ node'[n].vote = node[n].vote
            /\ node'[n].role = Leader
            /\ elected' = elected \cup {new}
         \/ /\ UNCHANGED elected
            /\ node'[n].term >= node[n].term
            /\ node'[n].term = node[n].term => node'[n].vote = node[n].vote
            /\ node'[n].role # Follower => node'[n] = node[n]
      /\ UNCHANGED ballots
  BY FinishElectionDoes
<1>2. CASE /\ UNCHANGED elected
           /\ node'[n].term >= node[n].term
           /\ node'[n].term = node[n].term => node'[n].vote = node[n].vote
           /\ node'[n].role # Follower => node'[n] = node[n]
  <2>1. Subsides
    BY <1>1, <1>2, SubsidesIs
  <2> QED
    BY <1>1, <2>1, VotesSubside
<1>3. CASE /\ node[n].role = Candidate /\ Majority(campaign[n].votes)
           /\ node'[n].term = node[n].term /\ node'[n].vote = node[n].vote
           /\ node'[n].role = Leader
           /\ elected' = elected \cup {new}
  <2>1. /\ campaign[n].votes \subseteq Voters(node[n].term, n)
        /\ node[n].term \in Nat
    BY <1>1, <1>3, StateIs DEF VoteInv, VotesGranted
  <2>2. Majority(Voters(node[n].term, n))'
    <3> DEFINE P == campaign[n].votes
               Q == Voters(node[n].term, n)
    <3>1. P \subseteq Q /\ Q \in SUBSET Node /\ Majority(P)
      BY <1>3, <2>1 DEF Voters
    <3> HIDE DEF P, Q
    <3>2. Majority(Q)
      BY <3>1, MajorityGrows
    <3> QED
      BY <1>1, <1>3, <3>2 DEF Majority, Voters, Q
  <2>3. \A u, d : Voters(u, d) \subseteq Voters(u, d)'
    BY <1>1 DEF Voters
  <2>4. BallotsRecorded'
    BY <1>1, <1>3 DEF VoteInv, BallotsRecorded, Only
  <2>5. VoteOnce'
    BY <1>1 DEF VoteInv, VoteOnce
  <2>6. VotesGranted'
    <3> SUFFICES ASSUME NEW q \in Node, campaign'[q].active,
                        NEW u, campaign'[q].term = u
                 PROVE  /\ campaign'[q].votes \subseteq Voters(u, q)'
                        /\ node'[q].role = Candidate => u = node'[q].term
      BY DEF VotesGranted, Voters
    <3>1. q # n /\ campaign'[q] = campaign[q]
      BY <1>1 DEF Typed, Idle
    <3> QED
      BY <1>1, <2>3, <3>1 DEF Only, VoteInv, VotesGranted
  <2>7. WinnersHaveWon'
    <3> SUFFICES ASSUME NEW e \in elected'
                 PROVE  /\ e.leader \in Node /\ e.term \in Nat
                        /\ Majority(Voters(e.term, e.leader))'
                        /\ e.term <= node'[e.leader].term
                        /\ e.term = node'[e.leader].term
                             => node'[e.leader].role # Candidate
      BY DEF WinnersHaveWon
    <3>1. CASE e = new
      <4>1. e.leader = n /\ e.term = node[n].term
        BY <3>1
      <4>2. Majority(Voters(e.term, e.leader))'
        BY <1>3, <2>2, <4>1 DEF Majority, Voters
      <4> QED
        BY <1>3, <2>1, <4>1, <4>2 DEF Leader, Candidate
    <3>2. CASE e \in elected
      <4>1. e.leader \in Node
        BY <3>2 DEF VoteInv, WinnersHaveWon
      <4>2. /\ node'[e.leader].term >= node[e.leader].term
            /\ node'[e.leader].role = Candidate => node[e.leader].role = Candidate
        BY <1>1, <1>3, <4>1, StateIs DEF Only, Leader, Candidate
      <4> QED
        BY <1>1, <2>3, <3>2, <4>2, WinnersStay
    <3> QED
      BY <1>3, <3>1, <3>2
  <2>8. LeadersHaveWon'
    BY <1>1, <1>3 DEF VoteInv, LeadersHaveWon, Only
  <2> QED
    BY <2>4, <2>5, <2>6, <2>7, <2>8 DEF VoteInv
<1> QED
  BY <1>1, <1>2, <1>3

\* The other actions give no vote.
LEMMA VotesOthers ==
  ASSUME Typed, VoteInv, UNCHANGED bounds, NEW n \in Node,
         \/ \E cmd \in Offers[n] : Propose(n, cmd)
         \/ FinishProposal(n)
         \/ Restart(n) \/ CrashInTermChange(n)
         \/ \E m \in appendRequests : HandleAppendEntries(n, m) \/ CrashInAppend(n, m)
  PROVE  VoteInv'
<1>1. CASE \E cmd \in Offers[n] : Propose(n, cmd)
  <2>1. PICK cmd \in Offers[n] : Propose(n, cmd)
    BY <1>1
  <2>2. /\ Typed' /\ Only(n)
        /\ node'[n].term = node[n].term /\ node'[n].vote = node[n].vote
        /\ node'[n].role = node[n].role
        /\ UNCHANGED <<campaign, ballots, elected>>
    BY <2>1, ProposeDoes
  <2> QED
    BY <2>2, StateIs, SubsidesIs, VotesSubside
<1>2. CASE FinishProposal(n)
  <2>1. /\ Typed' /\ Only(n)
        /\ node'[n].term = node[n].term /\ node'[n].vote = node[n].vote
        /\ node'[n].role = node[n].role
        /\ UNCHANGED <<campaign, ballots, elected>>
    BY <1>2, FinishProposalDoes
  <2> QED
    BY <2>1, StateIs, SubsidesIs, VotesSubside
<1>3. CASE Restart(n) \/ CrashInTermChange(n)
  <2>1. /\ Typed' /\ Only(n)
        /\ node'[n].term >= node[n].term
        /\ node'[n].term = node[n].term => node'[n].vote = node[n].vote
        /\ node'[n].role = Follower
        /\ campaign' = [campaign EXCEPT ![n] = Idle]
        /\ UNCHANGED <<ballots, elected>>
    BY <1>3, CrashDoes
  <2> QED
    BY <2>1, SubsidesIs, VotesSubside
<1>4. ASSUME NEW m \in appendRequests, HandleAppendEntries(n, m)
      PROVE  VoteInv'
  <2>1. /\ Typed' /\ Only(n)
        /\ node[n].term <= m.term
        /\ node'[n].term = m.term /\ node'[n].role = Follower
        /\ m.term = node[n].term => node'[n].vote = node[n].vote
        /\ m \in AppendRequests
        /\ UNCHANGED <<campaign, ballots, elected>>
    BY <1>4, HandleAppendEntriesDoes
  <2>2. node'[n].term >= node[n].term
    BY <2>1, StateIs DEF AppendRequests
  <2> QED
    BY <2>1, <2>2, SubsidesIs, VotesSubside
<1>5. ASSUME NEW m \in appendRequests, CrashInAppend(n, m)
      PROVE  VoteInv'
  <2>1. /\ Typed' /\ Only(n)
        /\ node[n].term <= m.term
        /\ node'[n].term = m.term /\ node'[n].role = Follower
        /\ m.term = node[n].term => node'[n].vote = node[n].vote
        /\ m \in AppendRequests
        /\ campaign' = [campaign EXCEPT ![n] = Idle]
        /\ UNCHANGED <<ballots, elected>>
    BY <1>5, CrashInAppendDoes
  <2>2. node'[n].term >= node[n].term
    BY <2>1, StateIs DEF AppendRequests
  <2> QED
    BY <2>1, <2>2, SubsidesIs, VotesSubside
<1> QED
  BY <1>1, <1>2, <1>3, <1>4, <1>5

\* Two elections of one term have one winner.
OneWinner == \A e, f \in elected : e.term = f.term => e.leader = f.leader

\* Two winners of a term would have a voter in common.
LEMMA WinnersAgree == VoteInv => OneWinner
<1> SUFFICES ASSUME VoteInv, NEW e \in elected, NEW f \in elected,
                    e.term = f.term
             PROVE  e.leader = f.leader
  BY DEF OneWinner
<1> DEFINE P == Voters(e.term, e.leader)
           Q == Voters(f.term, f.leader)
<1>1. /\ P \in SUBSET Node /\ Majority(P)
      /\ Q \in SUBSET Node /\ Majority(Q)
  BY DEF VoteInv, WinnersHaveWon, Voters
<1> HIDE DEF P, Q
<1>2. PICK q \in Node : q \in P /\ q \in Q
  BY <1>1, MajoritiesMeet
<1> QED
  BY <1>2 DEF P, Q, Voters, VoteInv, VoteOnce

\* The same of the next state.
LEMMA WinnersAgreeNext == VoteInv' => OneWinner'
  BY WinnersAgree, PTL

-----------------------------------------------------------------------------
\* Logs.  A written log is a log, and those of one term and length are one.
LEMMA WrittenIs ==
  ASSUME Typed, NEW w \in Written
  PROVE  /\ w \in Seq(Entry) /\ w # <<>> /\ Len(w) \in Nat /\ Len(w) >= 1
         /\ LastTerm(w) \in Nat /\ LastTerm(w) = w[Len(w)].term
<1>1. w \in Seq(Entry) /\ w # <<>>
  BY DEF Written, Typed, AppendRequests
<1>2. /\ Len(w) \in Nat /\ Len(w) \in 1 .. Len(w)
      /\ LastTerm(w) \in Nat /\ LastTerm(w) = w[Len(w)].term
  BY <1>1, LastTermIs, LenProperties
<1> QED
  BY <1>1, <1>2

\* The log of a node, and what a request carries, is written or empty.
LEMMA WrittenPart ==
  ASSUME Typed, LogInv, NEW u, u \in Written \/ u = <<>>, NEW k \in 0 .. Len(u)
  PROVE  /\ u \in Seq(Entry)
         /\ SubSeq(u, 1, k) \in Written \/ SubSeq(u, 1, k) = <<>>
         /\ k > 0 => /\ SubSeq(u, 1, k) \in Written
                     /\ LastTerm(SubSeq(u, 1, k)) = u[k].term
                     /\ u[k].term <= LastTerm(u)
         /\ LastTerm(SubSeq(u, 1, k)) <= LastTerm(u)
<1> DEFINE a == SubSeq(u, 1, k)
<1>1. u \in Seq(Entry) /\ Len(u) \in Nat
  BY WrittenIs, EmptySeq, LenProperties
<1>2. a \in Seq(Entry) /\ Len(a) = k /\ \A i \in 1 .. k : a[i] = u[i]
  BY <1>1, CutIs
<1>3. LastTerm(u) \in Nat /\ LastTerm(<<>>) = 0
  BY <1>1, LastTermIs
<1>4. u \in Written /\ k \in 1 .. Len(u) => a \in Written /\ u[k].term <= LastTerm(u)
  BY DEF LogInv, WrittenIsClosed, Ordered
<1> HIDE DEF a
<1>5. CASE k = 0
  <2>1. a = <<>>
    BY <1>2, <1>5, EmptySeq
  <2>2. LastTerm(a) <= LastTerm(u) /\ ~(k > 0)
    BY <1>3, <1>5, <2>1
  <2> QED
    BY <1>1, <2>1, <2>2 DEF a
<1>6. CASE k > 0
  <2>1. k \in 1 .. Len(u) /\ u \in Written /\ k \in 1 .. k
    BY <1>1, <1>6, EmptySeq
  <2>2. LastTerm(a) = a[Len(a)].term
    BY <1>4, <2>1, WrittenIs
  <2>3. a[Len(a)] = u[k]
    BY <1>2, <2>1
  <2> QED
    BY <1>1, <1>4, <1>6, <2>1, <2>2, <2>3 DEF a
<1> QED
  BY <1>1, <1>5, <1>6

\* Comparing terms is comparing logs (log_replicator.cpp:16).
LEMMA WrittenMatch ==
  ASSUME Typed, LogInv, NEW u, u \in Written \/ u = <<>>,
         NEW w, w \in Written \/ w = <<>>
  PROVE  Match(u, w)
<1>1. /\ u \in Seq(Entry) /\ Len(u) \in Nat
      /\ w \in Seq(Entry) /\ Len(w) \in Nat
  BY WrittenIs, EmptySeq, LenProperties
<1> SUFFICES ASSUME NEW i \in 1 .. Len(u), i <= Len(w), u[i].term = w[i].term,
                    NEW j \in 1 .. i
             PROVE  u[j] = w[j]
  BY DEF Match
<1>2. i \in 0 .. Len(u) /\ i \in 0 .. Len(w) /\ i > 0
  BY <1>1
<1> DEFINE a == SubSeq(u, 1, i)
           b == SubSeq(w, 1, i)
<1>3. a \in Written /\ b \in Written /\ LastTerm(a) = LastTerm(b)
  BY <1>2, WrittenPart
<1>4. /\ Len(a) = i /\ Len(b) = i
      /\ \A l \in 1 .. i : a[l] = u[l]
      /\ \A l \in 1 .. i : b[l] = w[l]
  BY <1>1, <1>2, CutIs
<1> HIDE DEF a, b
<1>5. Begins(a, b)
  BY <1>3, <1>4 DEF LogInv, OneLine
<1> QED
  BY <1>4, <1>5 DEF Begins

\* A step that writes nothing, to the disks or the network.
KeepsLogs ==
  /\ Written' = Written /\ elected \subseteq elected'
  /\ \A m \in appendRequests' : m \in appendRequests \/ m.entries = <<>>
  /\ \A q \in Node : /\ node'[q].log = node[q].log
                     /\ node'[q].term >= node[q].term

\* A step that leaves the logs alone keeps what is known of them.
LEMMA LogsStay ==
  ASSUME Typed, Typed', LogInv, KeepsLogs,
         \A q \in Node : node'[q].role = Leader
           => \/ node[q].role = Leader /\ node'[q].term = node[q].term
              \/ \A w \in Written : LastTerm(w) # node'[q].term
  PROVE  LogInv'
<1>1. WrittenIsClosed' /\ OneLine' /\ Ordered'
  BY DEF KeepsLogs, LogInv, WrittenIsClosed, OneLine, Ordered
<1>2. WrittenByWinner'
  BY DEF KeepsLogs, LogInv, WrittenByWinner
<1>3. RequestsWritten'
  BY DEF KeepsLogs, LogInv, RequestsWritten
<1>4. LogsWritten'
  <2> SUFFICES ASSUME NEW q \in Node
               PROVE  /\ node'[q].log # <<>> => node'[q].log \in Written'
                      /\ LastTerm(node'[q].log) <= node'[q].term
    BY DEF LogsWritten
  <2>1. node[q].term \in Nat /\ node'[q].term \in Nat /\ LastTerm(node[q].log) \in Nat
    BY StateIs, LastTermIs DEF Typed, State
  <2> QED
    BY <2>1 DEF KeepsLogs, LogInv, LogsWritten
<1>5. LeaderHasAll'
  <2> SUFFICES ASSUME NEW q \in Node, NEW w \in Written, node'[q].role = Leader,
                      LastTerm(w) = node'[q].term
               PROVE  Begins(w, node'[q].log)
    BY DEF KeepsLogs, LeaderHasAll
  <2> QED
    BY DEF KeepsLogs, LogInv, LeaderHasAll
<1> QED
  BY <1>1, <1>2, <1>3, <1>4, <1>5 DEF LogInv

\* What a winner finds: nothing was written in its term yet.
LEMMA LogsFinishElection ==
  ASSUME Typed, VoteInv, VoteInv', LogInv, NEW n \in Node, FinishElection(n),
         UNCHANGED bounds
  PROVE  LogInv'
<1> DEFINE new == [term |-> node[n].term, leader |-> n]
<1>1. /\ Typed' /\ Only(n) /\ KeepsLog(n) /\ UNCHANGED appendRequests
      /\ \/ /\ node[n].role = Candidate /\ node'[n].term = node[n].term
            /\ elected' = elected \cup {new}
         \/ /\ UNCHANGED elected /\ node'[n].term >= node[n].term
            /\ node'[n].role # Follower => node'[n] = node[n]
  BY FinishElectionDoes
<1>2. KeepsLogs
  BY <1>1, StateIs DEF KeepsLogs, Written, Only, KeepsLog
<1>3. CASE /\ node[n].role = Candidate /\ node'[n].term = node[n].term
           /\ elected' = elected \cup {new}
  <2>1. ASSUME NEW w \in Written, LastTerm(w) = node[n].term
        PROVE  FALSE
    <3>1. PICK e \in elected : e.term = node[n].term
      BY <2>1 DEF LogInv, WrittenByWinner
    <3>2. e \in elected' /\ new \in elected' /\ e.term = new.term
      BY <1>3, <3>1
    <3>3. OneWinner'
      BY WinnersAgreeNext
    <3>4. e.leader = n
      BY <3>2, <3>3 DEF OneWinner
    <3> QED
      BY <1>3, <3>1, <3>4 DEF VoteInv, WinnersHaveWon
  <2> QED
    BY <1>1, <1>2, <1>3, <2>1, LogsStay DEF Only
<1>4. CASE /\ UNCHANGED elected /\ node'[n].term >= node[n].term
           /\ node'[n].role # Follower => node'[n] = node[n]
  BY <1>1, <1>2, <1>4, LogsStay DEF Only, Leader, Follower
<1> QED
  BY <1>1, <1>3, <1>4

\* Elections, notifications and crashes between handlers write nothing.
LEMMA LogsOthers ==
  ASSUME Typed, LogInv, NEW n \in Node, UNCHANGED bounds,
         \/ StartElection(n) \/ FinishProposal(n)
         \/ Restart(n) \/ CrashInTermChange(n)
         \/ \E m \in voteRequests : HandleVoteRequest(n, m)
  PROVE  KeepsLogs /\ LogInv'
<1> DEFINE same == /\ Typed' /\ Only(n) /\ UNCHANGED elected
                   /\ node'[n].log = node[n].log /\ node'[n].term >= node[n].term
                   /\ node'[n].role = Leader
                        => node[n].role = Leader /\ node'[n].term = node[n].term
                   /\ \A m \in appendRequests' : m \in appendRequests \/ m.entries = <<>>
                   /\ appendRequests \subseteq appendRequests'
<1>1. ASSUME StartElection(n) PROVE same
  <2>1. /\ Typed' /\ Only(n) /\ KeepsLog(n)
        /\ node'[n].term = node[n].term + 1 /\ node'[n].role = Candidate
        /\ UNCHANGED <<appendRequests, elected>>
    BY <1>1, StartElectionDoes
  <2> QED
    BY <2>1, StateIs DEF same, KeepsLog, Leader, Candidate
<1>2. ASSUME FinishProposal(n) PROVE same
  <2>1. /\ Typed' /\ Only(n) /\ UNCHANGED elected
        /\ node'[n].term = node[n].term /\ node'[n].role = node[n].role
        /\ node'[n].log = node[n].log
        /\ \/ \E m : m.entries = <<>> /\ appendRequests' = appendRequests \cup {m}
           \/ UNCHANGED appendRequests
    BY <1>2, FinishProposalDoes
  <2> QED
    BY <2>1, StateIs DEF same
<1>3. ASSUME Restart(n) \/ CrashInTermChange(n) PROVE same
  <2>1. /\ Typed' /\ Only(n) /\ UNCHANGED <<appendRequests, elected>>
        /\ node'[n].term >= node[n].term /\ node'[n].role = Follower
        /\ node'[n].log = node[n].log
    BY <1>3, CrashDoes
  <2> QED
    BY <2>1 DEF same, Leader, Follower
<1>4. ASSUME NEW m \in voteRequests, HandleVoteRequest(n, m)
      PROVE  same
  <2>1. /\ Typed' /\ Only(n) /\ KeepsLog(n) /\ m.term \in Nat
        /\ m.term > node[n].term => node'[n].term = m.term /\ node'[n].role = Follower
        /\ ~(m.term > node[n].term) => /\ node'[n].term = node[n].term
                                       /\ node'[n].role = node[n].role
        /\ UNCHANGED <<appendRequests, elected>>
    BY <1>4, HandleVoteRequestDoes
  <2> QED
    BY <2>1, StateIs DEF same, KeepsLog, Leader, Follower
<1>5. same
  BY <1>1, <1>2, <1>3, <1>4
<1> HIDE DEF same
<1>6. Written' = Written
  BY <1>5 DEF same, Written
<1>7. KeepsLogs
  BY <1>5, <1>6, StateIs DEF same, KeepsLogs, Only
<1>8. \A q \in Node : node'[q].role = Leader
           => node[q].role = Leader /\ node'[q].term = node[q].term
  BY <1>5 DEF same, Only
<1> QED
  BY <1>5, <1>7, <1>8, LogsStay DEF same

\* A leader's new log is longer than everything written in its term.
LEMMA LogsPropose ==
  ASSUME Typed, VoteInv, LogInv, NEW n \in Node, NEW cmd \in Offers[n],
         Propose(n, cmd), UNCHANGED bounds
  PROVE  /\ LogInv' /\ Written' = Written \cup {node'[n].log}
         /\ node'[n].log \notin Written
<1> DEFINE e == [term |-> node[n].term, cmd |-> cmd]
<1>1. PICK t \in Nat, w \in Seq(Entry), u \in Seq(Entry) :
        t = node[n].term /\ w = node'[n].log /\ u = node[n].log
  <2>1. node'[n].log \in Seq(Entry)
    BY ProposeDoes
  <2> QED
    BY <2>1, StateIs
<1> DEFINE m == [term |-> t, leader |-> n, prevIndex |-> 0,
                 prevTerm |-> 0, entries |-> w, commit |-> node[n].commit]
<1>2. /\ Typed' /\ Only(n) /\ node[n].role = Leader
      /\ node'[n].term = t
      /\ w # <<>> /\ Len(w) = Len(u) + 1 /\ w[Len(w)] = e /\ LastTerm(w) = t
      /\ Begins(u, w)
      /\ appendRequests' = appendRequests \cup {m} /\ UNCHANGED elected
  <2>1. /\ Typed' /\ Only(n) /\ node[n].role = Leader
        /\ node'[n].term = node[n].term
        /\ node'[n].log # <<>> /\ Len(node'[n].log) = Len(node[n].log) + 1
        /\ node'[n].log[Len(node'[n].log)] = e
        /\ LastTerm(node'[n].log) = node[n].term
        /\ Begins(node[n].log, node'[n].log)
        /\ UNCHANGED elected
    BY ProposeDoes
  <2>2. appendRequests' = appendRequests \cup
          {[term |-> node[n].term, leader |-> n, prevIndex |-> 0, prevTerm |-> 0,
            entries |-> node'[n].log, commit |-> node[n].commit]}
    BY ProposeDoes
  <2>3. appendRequests' = appendRequests \cup {m}
    BY <1>1, <2>2
  <2> HIDE DEF m, e
  <2>4. /\ node'[n].term = t
        /\ w # <<>> /\ Len(w) = Len(u) + 1 /\ w[Len(w)] = e /\ LastTerm(w) = t
        /\ Begins(u, w)
    BY <1>1, <2>1
  <2> QED
    BY <2>1, <2>3, <2>4
<1>3. Written' = Written \cup {w}
  <2>1. m.entries = w
    OBVIOUS
  <2> HIDE DEF m
  <2> QED
    BY <1>2, <2>1 DEF Written
<1>4. /\ Len(u) \in Nat /\ Len(w) \in Nat /\ LastTerm(u) <= t
      /\ u \in Written \/ u = <<>>
      /\ [term |-> t, leader |-> n] \in elected
  BY <1>1, <1>2, LenProperties DEF LogInv, LogsWritten, VoteInv, LeadersHaveWon
<1>5. ASSUME NEW v \in Written, LastTerm(v) = t
      PROVE  Begins(v, u) /\ Begins(v, w) /\ Len(v) < Len(w)
  <2>1. Begins(v, u) /\ v \in Seq(Entry) /\ Len(v) \in Nat
    BY <1>1, <1>2, <1>5, WrittenIs DEF LogInv, LeaderHasAll
  <2> QED
    BY <1>2, <1>4, <2>1, BeginsAgain DEF Begins
<1>6. w \notin Written
  BY <1>2, <1>5, <1>4
<1>7. ASSUME NEW i \in 1 .. Len(w), i # Len(w)
      PROVE  /\ i \in 0 .. Len(u) /\ i > 0 /\ SubSeq(w, 1, i) = SubSeq(u, 1, i)
             /\ w[i] = u[i]
  <2>1. i \in 0 .. Len(u) /\ i > 0
    BY <1>2, <1>4, <1>7
  <2> QED
    BY <1>2, <2>1, CutBegins DEF Begins
<1>8. WrittenIsClosed'
  <2> SUFFICES ASSUME NEW v \in Written', NEW i \in 1 .. Len(v)
               PROVE  SubSeq(v, 1, i) \in Written'
    BY DEF WrittenIsClosed
  <2>1. CASE v \in Written
    BY <1>3, <2>1 DEF LogInv, WrittenIsClosed
  <2>2. CASE v = w /\ i = Len(w)
    <3>1. SubSeq(w, 1, Len(w)) = w
      BY SubSeqFull
    <3> QED
      BY <1>3, <2>2, <3>1
  <2>3. CASE v = w /\ i # Len(w)
    <3>1. SubSeq(w, 1, i) = SubSeq(u, 1, i) /\ i \in 0 .. Len(u) /\ i > 0
      BY <1>7, <2>3
    <3>2. SubSeq(u, 1, i) \in Written
      BY <1>4, <3>1, WrittenPart
    <3> QED
      BY <1>3, <2>3, <3>1, <3>2
  <2> QED
    BY <1>3, <2>1, <2>2, <2>3
<1>9. OneLine'
  <2> SUFFICES ASSUME NEW v \in Written', NEW x \in Written',
                      LastTerm(v) = LastTerm(x), Len(v) <= Len(x)
               PROVE  Begins(v, x)
    BY DEF OneLine
  <2>1. CASE v \in Written /\ x \in Written
    BY <2>1 DEF LogInv, OneLine
  <2>2. CASE v = w /\ x \in Written
    <3>1. Len(x) < Len(w) /\ Len(x) \in Nat
      BY <1>2, <1>5, <2>2, WrittenIs
    <3> QED
      BY <1>4, <2>2, <3>1
  <2>3. CASE x = w /\ v \in Written
    BY <1>2, <1>5, <2>3
  <2>4. CASE v = w /\ x = w
    BY <2>4, BeginsAgain
  <2> QED
    BY <1>3, <2>1, <2>2, <2>3, <2>4
<1>10. Ordered'
  <2> SUFFICES ASSUME NEW i \in 1 .. Len(w)
               PROVE  w[i].term <= LastTerm(w)
    BY <1>3 DEF LogInv, Ordered
  <2>1. CASE i = Len(w)
    BY <1>1, <1>2, <2>1
  <2>2. CASE i # Len(w)
    <3>1. w[i] = u[i] /\ i \in 0 .. Len(u) /\ i > 0
      BY <1>7, <2>2
    <3>2. u[i].term <= LastTerm(u) /\ i \in 1 .. Len(u)
      BY <1>4, <3>1, WrittenPart
    <3>3. u[i] \in Entry /\ LastTerm(u) \in Nat
      BY <3>2, ElementOfSeq, LastTermIs
    <3>4. u[i].term \in Nat
      BY <3>3 DEF Entry
    <3> QED
      BY <1>2, <1>4, <3>1, <3>2, <3>3, <3>4
  <2> QED
    BY <2>1, <2>2
<1>11. WrittenByWinner'
  <2>1. LastTerm(w) = t /\ [term |-> t, leader |-> n] \in elected
    BY <1>2, <1>4
  <2> QED
    BY <1>2, <1>3, <2>1 DEF LogInv, WrittenByWinner
<1>12. RequestsWritten'
  BY <1>2 DEF LogInv, RequestsWritten
<1>13. LogsWritten'
  <2> SUFFICES ASSUME NEW q \in Node
               PROVE  /\ node'[q].log # <<>> => node'[q].log \in Written'
                      /\ LastTerm(node'[q].log) <= node'[q].term
    BY DEF LogsWritten
  <2>1. CASE q = n
    BY <1>1, <1>2, <1>3, <2>1
  <2>2. CASE q # n
    BY <1>2, <1>3, <2>2 DEF Only, LogInv, LogsWritten
  <2> QED
    BY <2>1, <2>2
<1>14. LeaderHasAll'
  <2> SUFFICES ASSUME NEW q \in Node, NEW v \in Written', node'[q].role = Leader,
                      LastTerm(v) = node'[q].term
               PROVE  Begins(v, node'[q].log)
    BY DEF LeaderHasAll
  <2>1. CASE q = n
    <3>1. LastTerm(v) = t /\ node'[q].log = w
      BY <1>1, <1>2, <2>1
    <3> QED
      BY <1>3, <1>5, <3>1, BeginsAgain
  <2>2. CASE q # n
    <3>1. node'[q] = node[q]
      BY <1>2, <2>2 DEF Only
    <3>2. v # w
      <4>1. [term |-> node[q].term, leader |-> q] \in elected
        BY <3>1 DEF VoteInv, LeadersHaveWon
      <4>2. OneWinner
        BY WinnersAgree
      <4>3. node[q].term # t
        BY <1>4, <2>2, <4>1, <4>2 DEF OneWinner
      <4> QED
        BY <1>2, <3>1, <4>3
    <3> QED
      BY <1>3, <3>1, <3>2 DEF LogInv, LeaderHasAll
  <2> QED
    BY <2>1, <2>2
<1> QED
  BY <1>1, <1>3, <1>6, <1>8, <1>9, <1>10, <1>11, <1>12, <1>13, <1>14 DEF LogInv

-----------------------------------------------------------------------------
\* A step in which p takes some or all of the entries of request m.
Takes(p, m) ==
  /\ Typed' /\ Only(p)
  /\ m \in appendRequests /\ m \in AppendRequests
  /\ node[p].term <= m.term /\ node'[p].term = m.term
  /\ node'[p].role = Follower
  /\ node'[p].log \in DuringMerge(node[p].log, m.entries)
  /\ UNCHANGED <<voteRequests, appendRequests, acknowledged, ballots, elected>>

\* The entries of a request are a log that was written.
LEMMA RequestEntriesAre ==
  ASSUME Typed, LogInv, NEW m \in appendRequests
  PROVE  /\ m.entries \in Written \/ m.entries = <<>>
         /\ m.entries \in Seq(Entry) /\ m.term \in Nat /\ LastTerm(m.entries) <= m.term
<1>1. /\ m.entries \in Written \/ m.entries = <<>>
      /\ m.entries \in Seq(Entry) /\ m.term \in Nat
  BY DEF Written, Typed, AppendRequests
<1>2. CASE m.entries = <<>>
  <2>1. LastTerm(m.entries) = 0
    BY <1>2 DEF LastTerm
  <2> QED
    BY <1>1, <2>1
<1>3. CASE m.entries # <<>>
  BY <1>1, <1>3 DEF LogInv, RequestsWritten
<1> QED
  BY <1>1, <1>2, <1>3

\* The log becomes what the request carries, some of it, or stays.
LEMMA TakesIs ==
  ASSUME Typed, LogInv, NEW p \in Node, NEW m, Takes(p, m)
  PROVE  /\ Match(node[p].log, m.entries)
         /\ \/ node'[p].log = node[p].log
            \/ \E k \in 0 .. Len(m.entries) :
                 /\ FirstConflict(node[p].log, m.entries) <= Len(m.entries)
                 /\ FirstConflict(node[p].log, m.entries) - 1 <= k
                 /\ node'[p].log = SubSeq(m.entries, 1, k)
<1>1. /\ m.entries \in Written \/ m.entries = <<>>
      /\ m.entries \in Seq(Entry)
  BY RequestEntriesAre DEF Takes
<1>2. /\ node[p].log \in Written \/ node[p].log = <<>>
      /\ node[p].log \in Seq(Entry)
  BY StateIs DEF LogInv, LogsWritten
<1>3. Match(node[p].log, m.entries)
  BY <1>1, <1>2, WrittenMatch
<1> QED
  BY <1>1, <1>2, <1>3, DuringMergeIs DEF Takes

\* A log taken from a request was written by the leader of its last term.
LEMMA LogsTake ==
  ASSUME Typed, LogInv, NEW p \in Node, NEW m, Takes(p, m)
  PROVE  LogInv' /\ Written' = Written
<1>1. Written' = Written
  BY DEF Takes, Written
<1>2. WrittenIsClosed' /\ OneLine' /\ Ordered' /\ WrittenByWinner' /\ RequestsWritten'
  BY <1>1 DEF Takes, LogInv, WrittenIsClosed, OneLine, Ordered, WrittenByWinner,
              RequestsWritten
<1>3. LogsWritten'
  <2> SUFFICES ASSUME NEW q \in Node
               PROVE  /\ node'[q].log # <<>> => node'[q].log \in Written
                      /\ LastTerm(node'[q].log) <= node'[q].term
    BY <1>1 DEF LogsWritten
  <2>1. CASE q # p
    BY <2>1 DEF Takes, Only, LogInv, LogsWritten
  <2>2. CASE q = p /\ node'[p].log = node[p].log
    <3>1. /\ node[p].term \in Nat /\ m.term \in Nat /\ LastTerm(node[p].log) \in Nat
          /\ node[p].term <= m.term /\ node'[p].term = m.term
      BY StateIs, LastTermIs DEF Takes, AppendRequests
    <3> QED
      BY <2>2, <3>1 DEF LogInv, LogsWritten
  <2>3. CASE /\ q = p
             /\ \E k \in 0 .. Len(m.entries) : node'[p].log = SubSeq(m.entries, 1, k)
    <3>1. PICK k \in 0 .. Len(m.entries) : node'[p].log = SubSeq(m.entries, 1, k)
      BY <2>3
    <3>2. /\ m.entries \in Written \/ m.entries = <<>>
          /\ m.entries \in Seq(Entry) /\ m.term \in Nat
          /\ LastTerm(m.entries) <= m.term
      BY RequestEntriesAre DEF Takes
    <3>3. /\ SubSeq(m.entries, 1, k) \in Written \/ SubSeq(m.entries, 1, k) = <<>>
          /\ LastTerm(SubSeq(m.entries, 1, k)) <= LastTerm(m.entries)
      BY <3>2, WrittenPart
    <3>4. /\ LastTerm(m.entries) \in Nat /\ LastTerm(node'[p].log) \in Nat
          /\ node'[p].term = m.term
      BY <3>2, LastTermIs DEF Takes, Typed, State
    <3> DEFINE l == node'[p].log
    <3>5. /\ l # <<>> => l \in Written
          /\ LastTerm(l) <= LastTerm(m.entries)
      BY <3>1, <3>3
    <3>6. LastTerm(l) \in Nat /\ LastTerm(l) <= m.term
      BY <3>2, <3>4, <3>5
    <3> QED
      BY <2>3, <3>4, <3>5, <3>6
  <2> QED
    BY <2>1, <2>2, <2>3, TakesIs
<1>4. LeaderHasAll'
  BY <1>1 DEF Takes, Only, LogInv, LeaderHasAll, Leader, Follower
<1> QED
  BY <1>1, <1>2, <1>3, <1>4 DEF LogInv

\* Both ways to take a request are such steps.
LEMMA HandleAppendEntriesTakes ==
  ASSUME Typed, LogInv, NEW p \in Node, NEW m \in appendRequests,
         HandleAppendEntries(p, m), UNCHANGED bounds
  PROVE  /\ Takes(p, m) /\ p # m.leader /\ UNCHANGED campaign
         /\ \/ /\ PreviousMatches(node[p].log, m.prevIndex, m.prevTerm)
               /\ node'[p].log = Merged(node[p].log, m.entries)
               /\ Accept(p, m.entries)
               /\ \/ /\ proposal[m.leader].active
                     /\ proposal[m.leader].request = m
                     /\ proposal' = [proposal EXCEPT ![m.leader].acks = @ \cup {p}]
                  \/ UNCHANGED proposal
            \/ KeepsLog(p) /\ UNCHANGED <<accepted, proposal>>
<1>1. /\ Typed' /\ Only(p) /\ p # m.leader
      /\ m \in AppendRequests /\ node[p].term <= m.term
      /\ node'[p].term = m.term /\ node'[p].role = Follower
      /\ \/ /\ PreviousMatches(node[p].log, m.prevIndex, m.prevTerm)
            /\ node'[p].log = Merged(node[p].log, m.entries)
            /\ Accept(p, m.entries)
            /\ \/ /\ proposal[m.leader].active
                  /\ proposal[m.leader].request = m
                  /\ proposal' = [proposal EXCEPT ![m.leader].acks = @ \cup {p}]
               \/ UNCHANGED proposal
         \/ KeepsLog(p) /\ UNCHANGED <<accepted, proposal>>
      /\ UNCHANGED <<campaign, voteRequests, appendRequests, acknowledged,
                     ballots, elected>>
  BY HandleAppendEntriesDoes
<1>2. /\ m.entries \in Written \/ m.entries = <<>>
      /\ m.entries \in Seq(Entry)
  BY RequestEntriesAre
<1>3. /\ node[p].log \in Written \/ node[p].log = <<>>
      /\ node[p].log \in Seq(Entry)
  BY StateIs DEF LogInv, LogsWritten
<1>4. Merged(node[p].log, m.entries) \in DuringMerge(node[p].log, m.entries)
  BY <1>2, <1>3, WrittenMatch, MergedIsDuring
<1>5. node[p].log \in DuringMerge(node[p].log, m.entries)
  BY DEF DuringMerge
<1>6. node'[p].log \in DuringMerge(node[p].log, m.entries)
  BY <1>1, <1>4, <1>5 DEF KeepsLog
<1> QED
  BY <1>1, <1>6 DEF Takes

\* A crash in the middle of the handler leaves a log it was writing.
LEMMA CrashInAppendTakes ==
  ASSUME Typed, NEW n \in Node, NEW m \in appendRequests, CrashInAppend(n, m),
         UNCHANGED bounds
  PROVE  /\ Takes(n, m) /\ UNCHANGED accepted
         /\ campaign' = [campaign EXCEPT ![n] = Idle]
         /\ proposal' = [proposal EXCEPT ![n] = Idle]
  BY CrashInAppendDoes DEF Takes

-----------------------------------------------------------------------------
\* Choice.  As terms grow fewer may still confirm a log.
LEMMA ReachableShrinks ==
  ASSUME Typed, Typed', NEW v \in Seq(Entry),
         \A q \in Node : node'[q].term >= node[q].term,
         \A q \in Node : q \in Backers(v)' => q \in Reachable(v)
  PROVE  Majority(Reachable(v))' => Majority(Reachable(v))
<1> DEFINE P == Reachable(v)'
           Q == Reachable(v)
<1>1. LastTerm(v) \in Nat /\ \A q \in Node : node[q].term \in Nat /\ node'[q].term \in Nat
  BY LastTermIs DEF Typed, State
<1>2. P \subseteq Q /\ Q \in SUBSET Node
  BY <1>1 DEF Reachable, Backers
<1> HIDE DEF P, Q
<1>3. Majority(P) => Majority(Q)
  BY <1>2, MajorityGrows
<1> QED
  BY <1>3 DEF P, Q, Majority

\* What a majority backs is within a majority's reach.
LEMMA ChosenIsReachable ==
  ASSUME NEW v, Majority(Backers(v))
  PROVE  Majority(Reachable(v))
<1> DEFINE P == Backers(v)
           Q == Reachable(v)
<1>1. P \subseteq Q /\ Q \in SUBSET Node /\ Majority(P)
  BY DEF Backers, Reachable
<1> HIDE DEF P, Q
<1>2. Majority(Q)
  BY <1>1, MajorityGrows
<1> QED
  BY <1>2 DEF Q

\* An elected leader of a later term leaves v reachable only through those
\* who confirmed it.
LEMMA WinnerMeets ==
  ASSUME Typed, VoteInv, NEW v \in Seq(Entry), Majority(Reachable(v)),
         NEW t \in Nat, NEW n \in Node, Majority(Voters(t, n)), LastTerm(v) < t
  PROVE  \E q \in Node : q \in Backers(v) /\ q \in Voters(t, n) /\ t <= node[q].term
<1> DEFINE P == Reachable(v)
           Q == Voters(t, n)
<1>1. P \in SUBSET Node /\ Q \in SUBSET Node /\ Majority(P) /\ Majority(Q)
  BY DEF Reachable, Backers, Voters
<1> HIDE DEF P, Q
<1>2. PICK q \in Node : q \in P /\ q \in Q
  BY <1>1, MajoritiesMeet
<1>3. q \in Voters(t, n) /\ t <= node[q].term
  BY <1>2 DEF Q, Voters, VoteInv, BallotsRecorded
<1>4. q \in Backers(v)
  <2>1. node[q].term \in Nat /\ LastTerm(v) \in Nat
    BY StateIs, LastTermIs
  <2>2. ~(node[q].term <= LastTerm(v))
    BY <1>3, <2>1
  <2> QED
    BY <1>2, <2>2 DEF P, Reachable
<1> QED
  BY <1>3, <1>4

\* A candidate whose log is up to date for a log that has v, has v.
LEMMA UpToDateHasIt ==
  ASSUME Typed, LogInv, LaterLogsHaveIt, NEW v \in Written,
         Majority(Reachable(v)),
         NEW x, x \in Written \/ x = <<>>, NEW y, y \in Written \/ y = <<>>,
         Begins(v, x), UpToDate(Len(y), LastTerm(y), x)
  PROVE  Begins(v, y)
<1>1. /\ x \in Seq(Entry) /\ y \in Seq(Entry) /\ v \in Seq(Entry)
      /\ Len(x) \in Nat /\ Len(y) \in Nat /\ Len(v) \in Nat /\ Len(v) >= 1
      /\ LastTerm(v) \in Nat /\ LastTerm(v) = v[Len(v)].term
      /\ LastTerm(x) \in Nat /\ LastTerm(y) \in Nat /\ LastTerm(<<>>) = 0
  BY WrittenIs, EmptySeq, LenProperties, LastTermIs
<1>2. Len(x) >= 1 /\ x \in Written
  <2>1. Len(v) <= Len(x)
    BY DEF Begins
  <2>2. Len(x) >= 1
    BY <1>1, <2>1
  <2>3. x # <<>>
    BY <2>2, EmptySeq
  <2> QED
    BY <2>2, <2>3
<1>3. LastTerm(v) <= LastTerm(x)
  <2>1. Len(v) \in 1 .. Len(x) /\ x[Len(v)] = v[Len(v)]
    BY <1>1 DEF Begins
  <2>2. x[Len(v)].term <= LastTerm(x)
    BY <1>2, <2>1 DEF LogInv, Ordered
  <2> QED
    BY <1>1, <2>1, <2>2
<1>4. CASE LastTerm(y) > LastTerm(x)
  <2>1. y # <<>> /\ LastTerm(v) < LastTerm(y)
    BY <1>1, <1>3, <1>4
  <2> QED
    BY <2>1 DEF LaterLogsHaveIt
<1>5. CASE LastTerm(y) = LastTerm(x) /\ Len(y) >= Len(x)
  <2>1. y # <<>>
    <3>1. Len(y) >= 1
      BY <1>1, <1>2, <1>5
    <3> QED
      BY <3>1, EmptySeq
  <2>2. Begins(x, y)
    BY <1>1, <1>2, <1>5, <2>1 DEF LogInv, OneLine
  <2> QED
    BY <1>1, <2>2, BeginsAgain
<1> QED
  BY <1>4, <1>5 DEF UpToDate, LastIndex

\* Logs that may be chosen contradict none written later, or in their term.
LEMMA ReachableIsOnLine ==
  ASSUME Typed, LogInv, LaterLogsHaveIt, NEW v \in Written,
         Majority(Reachable(v)), NEW w \in Written, LastTerm(v) <= LastTerm(w)
  PROVE  Begins(v, w) \/ Begins(w, v)
<1>1. /\ LastTerm(v) \in Nat /\ LastTerm(w) \in Nat
      /\ Len(v) \in Nat /\ Len(w) \in Nat
  BY WrittenIs
<1>2. CASE LastTerm(v) = LastTerm(w)
  BY <1>1, <1>2 DEF LogInv, OneLine
<1>3. CASE LastTerm(v) < LastTerm(w)
  BY <1>3 DEF LaterLogsHaveIt
<1> QED
  BY <1>1, <1>2, <1>3

\* A step in which nothing is written or confirmed.
LEMMA ChoiceStays ==
  ASSUME Typed, Typed', LogInv, ChoiceInv, Written' = Written, UNCHANGED accepted,
         \A q \in Node : /\ node'[q].log = node[q].log
                         /\ node'[q].term >= node[q].term,
         \A q \in Node, v \in Written :
           /\ node'[q].role = Leader /\ LastTerm(v) < node'[q].term
           /\ Majority(Reachable(v))
           => Begins(v, node[q].log),
         \A d \in Node, v \in Written :
           /\ node'[d].role = Candidate /\ LastTerm(v) < node'[d].term
           /\ Majority(Reachable(v))
           /\ \E q \in Backers(v) :
                [voter |-> q, term |-> node'[d].term, cand |-> d] \in ballots'
           => Begins(v, node[d].log),
         RequestIsCurrent', BallotsAreAsked'
  PROVE  ChoiceInv'
<1>1. ASSUME NEW v \in Written
      PROVE  Majority(Reachable(v))' => Majority(Reachable(v))
  <2>1. v \in Seq(Entry)
    BY WrittenIs
  <2>2. \A q \in Node : q \in Backers(v)' => q \in Reachable(v)
    BY DEF Backers, Reachable
  <2> QED
    BY <2>1, <2>2, ReachableShrinks
<1>2. LaterLogsHaveIt'
  BY <1>1 DEF ChoiceInv, LaterLogsHaveIt
<1>3. LaterLeadersHaveIt'
  BY <1>1 DEF LaterLeadersHaveIt
<1>4. BackersKeepIt'
  <2> SUFFICES ASSUME NEW v \in Written, NEW q \in Backers(v)
               PROVE  /\ LastTerm(v) <= node'[q].term
                      /\ Majority(Reachable(v))' => Begins(v, node'[q].log)
    BY DEF BackersKeepIt, Backers
  <2>1. /\ q \in Node /\ LastTerm(v) \in Nat
        /\ node[q].term \in Nat /\ node'[q].term \in Nat
    BY WrittenIs DEF Backers, Typed, State
  <2>2. /\ LastTerm(v) <= node[q].term
        /\ Majority(Reachable(v)) => Begins(v, node[q].log)
    BY DEF ChoiceInv, BackersKeepIt
  <2> QED
    BY <1>1, <2>1, <2>2
<1>5. CandidatesHaveIt'
  <2> SUFFICES ASSUME NEW v \in Written, NEW d \in Node, node'[d].role = Candidate,
                      LastTerm(v) < node'[d].term, Majority(Reachable(v))',
                      (Backers(v) \cap Voters(node[d].term, d) # {})'
               PROVE  Begins(v, node'[d].log)
    BY DEF CandidatesHaveIt
  <2>1. \E q \in Backers(v) :
          [voter |-> q, term |-> node'[d].term, cand |-> d] \in ballots'
    BY DEF Backers, Voters
  <2> QED
    BY <1>1, <2>1
<1>6. AcceptedIsWritten'
  BY DEF ChoiceInv, AcceptedIsWritten
<1> QED
  BY <1>2, <1>3, <1>4, <1>5, <1>6 DEF ChoiceInv

\* What the requests say stays true while candidates do not change.
LEMMA RequestsStay ==
  ASSUME Typed, Typed', ChoiceInv, voteRequests' = voteRequests,
         \A q \in Node : /\ node'[q].log = node[q].log \/ node'[q].role = Follower
                         /\ node'[q].term >= node[q].term
                         /\ node'[q].role = Candidate
                              => /\ node[q].role = Candidate
                                 /\ node'[q].term = node[q].term
  PROVE  RequestIsCurrent'
<1> SUFFICES ASSUME NEW m \in voteRequests
             PROVE  /\ m.term <= node'[m.cand].term
                    /\ node'[m.cand].role = Candidate /\ m.term = node'[m.cand].term
                         => /\ m.lastIndex = Len(node'[m.cand].log)
                            /\ m.lastTerm = LastTerm(node'[m.cand].log)
  BY DEF RequestIsCurrent
<1>1. m.cand \in Node /\ m.term \in Nat
  BY DEF Typed, VoteRequests
<1>2. node[m.cand].term \in Nat /\ node'[m.cand].term \in Nat
  BY <1>1 DEF Typed, State
<1>3. /\ m.term <= node[m.cand].term
      /\ node[m.cand].role = Candidate /\ m.term = node[m.cand].term
           => /\ m.lastIndex = Len(node[m.cand].log)
              /\ m.lastTerm = LastTerm(node[m.cand].log)
  BY DEF ChoiceInv, RequestIsCurrent
<1> QED
  BY <1>1, <1>2, <1>3 DEF Candidate, Follower

\* No ballot is of a term its candidate has not reached, as no term falls.
LEMMA BallotsStay ==
  ASSUME Typed, Typed', VoteInv, ChoiceInv, ballots' = ballots,
         \A q \in Node : node'[q].term >= node[q].term
  PROVE  BallotsAreAsked'
<1> SUFFICES ASSUME NEW b \in ballots PROVE b.term <= node'[b.cand].term
  BY DEF BallotsAreAsked
<1>1. b.cand \in Node /\ b.term \in Nat /\ b.term <= node[b.cand].term
  BY DEF VoteInv, BallotsRecorded, ChoiceInv, BallotsAreAsked
<1>2. node[b.cand].term \in Nat /\ node'[b.cand].term \in Nat
  BY <1>1 DEF Typed, State
<1> QED
  BY <1>1, <1>2

\* A candidacy does not endanger what is chosen.
LEMMA ChoiceStartElection ==
  ASSUME Typed, VoteInv, LogInv, ChoiceInv, NEW n \in Node, StartElection(n),
         UNCHANGED bounds
  PROVE  ChoiceInv'
<1>1. PICK t \in Nat : t = node[n].term + 1
  BY StateIs
<1> DEFINE m == [term |-> t, cand |-> n, lastIndex |-> Len(node[n].log),
                 lastTerm |-> LastTerm(node[n].log)]
           b == [voter |-> n, term |-> t, cand |-> n]
<1>2. /\ Typed' /\ Only(n) /\ KeepsLog(n)
      /\ node'[n].term = t /\ node'[n].role = Candidate
      /\ voteRequests' = voteRequests \cup {m}
      /\ ballots' = ballots \cup {b}
      /\ UNCHANGED <<appendRequests, accepted>>
  BY <1>1, StartElectionDoes DEF Grant
<1>3. node[n].term \in Nat /\ t > node[n].term
  BY <1>1, StateIs
<1>4. \A q \in Node : /\ node'[q].log = node[q].log
                      /\ node'[q].term >= node[q].term
  BY <1>2, <1>3, StateIs DEF Only, KeepsLog
<1>5. Written' = Written
  BY <1>2 DEF Written
<1>6. RequestIsCurrent'
  <2> SUFFICES ASSUME NEW r \in voteRequests'
               PROVE  /\ r.term <= node'[r.cand].term
                      /\ node'[r.cand].role = Candidate /\ r.term = node'[r.cand].term
                           => /\ r.lastIndex = Len(node'[r.cand].log)
                              /\ r.lastTerm = LastTerm(node'[r.cand].log)
    BY DEF RequestIsCurrent
  <2>1. CASE r = m
    BY <1>2, <2>1 DEF KeepsLog
  <2>2. CASE r \in voteRequests
    <3>1. /\ r.cand \in Node /\ r.term \in Nat
          /\ r.term <= node[r.cand].term
          /\ node[r.cand].role = Candidate /\ r.term = node[r.cand].term
               => /\ r.lastIndex = Len(node[r.cand].log)
                  /\ r.lastTerm = LastTerm(node[r.cand].log)
      BY <2>2 DEF Typed, VoteRequests, ChoiceInv, RequestIsCurrent
    <3>2. CASE r.cand = n
      BY <1>2, <1>3, <3>1, <3>2
    <3>3. CASE r.cand # n
      BY <1>2, <3>1, <3>3 DEF Only
    <3> QED
      BY <3>2, <3>3
  <2> QED
    BY <1>2, <2>1, <2>2
<1>7. BallotsAreAsked'
  <2> SUFFICES ASSUME NEW a \in ballots' PROVE a.term <= node'[a.cand].term
    BY DEF BallotsAreAsked
  <2>1. CASE a = b
    BY <1>2, <2>1
  <2>2. CASE a \in ballots
    <3>1. a.cand \in Node /\ a.term \in Nat /\ a.term <= node[a.cand].term
      BY <2>2 DEF VoteInv, BallotsRecorded, ChoiceInv, BallotsAreAsked
    <3>2. node[a.cand].term \in Nat /\ node'[a.cand].term \in Nat
      BY <1>2, <3>1 DEF Typed, State
    <3> QED
      BY <1>4, <3>1, <3>2
  <2> QED
    BY <1>2, <2>1, <2>2
<1>8. ASSUME NEW q \in Node, NEW v \in Written, node'[q].role = Leader,
             LastTerm(v) < node'[q].term, Majority(Reachable(v))
      PROVE  Begins(v, node[q].log)
  BY <1>2, <1>8 DEF Only, ChoiceInv, LaterLeadersHaveIt, Leader, Candidate
<1>9. ASSUME NEW d \in Node, NEW v \in Written, node'[d].role = Candidate,
             LastTerm(v) < node'[d].term, Majority(Reachable(v)),
             NEW q \in Backers(v),
             [voter |-> q, term |-> node'[d].term, cand |-> d] \in ballots'
      PROVE  Begins(v, node[d].log)
  <2>1. CASE d = n
    <3> DEFINE a == [voter |-> q, term |-> t, cand |-> n]
    <3>1. a \notin ballots
      <4>1. a \in ballots => t <= node[n].term
        BY DEF ChoiceInv, BallotsAreAsked
      <4> QED
        BY <1>3, <4>1
    <3>2. a = b
      BY <1>2, <1>9, <2>1, <3>1
    <3>3. q = n
      BY <3>2
    <3> QED
      BY <1>9, <2>1, <3>3 DEF ChoiceInv, BackersKeepIt
  <2>2. CASE d # n
    <3>1. node'[d] = node[d]
      BY <1>2, <2>2 DEF Only
    <3>2. q \in Voters(node[d].term, d)
      BY <1>2, <1>9, <2>2, <3>1 DEF Voters, Backers
    <3> QED
      BY <1>9, <3>1, <3>2 DEF ChoiceInv, CandidatesHaveIt
  <2> QED
    BY <2>1, <2>2
<1> QED
  BY <1>2, <1>4, <1>5, <1>6, <1>7, <1>8, <1>9, ChoiceStays

\* A vote goes to a log that is not behind the voter's: a choice of the
\* voter's is in it.
LEMMA ChoiceHandleVoteRequest ==
  ASSUME Typed, VoteInv, LogInv, ChoiceInv, NEW p \in Node,
         NEW m \in voteRequests, HandleVoteRequest(p, m), UNCHANGED bounds
  PROVE  ChoiceInv'
<1> DEFINE granted == /\ Grant(p, m.term, m.cand)
                      /\ UpToDate(m.lastIndex, m.lastTerm, node[p].log)
<1>1. /\ Typed' /\ Only(p) /\ KeepsLog(p) /\ p # m.cand
      /\ m.term \in Nat /\ m.cand \in Node
      /\ m.term > node[p].term => node'[p].term = m.term /\ node'[p].role = Follower
      /\ ~(m.term > node[p].term) => /\ node'[p].term = node[p].term
                                     /\ node'[p].role = node[p].role
      /\ granted \/ UNCHANGED ballots
      /\ UNCHANGED <<voteRequests, appendRequests, accepted>>
  BY HandleVoteRequestDoes
<1> HIDE DEF granted
<1>2. \A q \in Node : /\ node'[q].log = node[q].log
                      /\ node'[q].term >= node[q].term
                      /\ node'[q].role # Follower => /\ node'[q].role = node[q].role
                                                     /\ node'[q].term = node[q].term
  BY <1>1, StateIs DEF Only, KeepsLog
<1>3. Written' = Written
  BY <1>1 DEF Written
<1>4. RequestIsCurrent'
  BY <1>1, <1>2, RequestsStay DEF Follower, Candidate
<1>5. BallotsAreAsked'
  <2>1. CASE UNCHANGED ballots
    BY <1>1, <1>2, <2>1, BallotsStay
  <2>2. CASE granted
    <3> SUFFICES ASSUME NEW a \in ballots' PROVE a.term <= node'[a.cand].term
      BY DEF BallotsAreAsked
    <3>1. /\ a.cand \in Node /\ a.term \in Nat /\ a.term <= node[a.cand].term
      <4>1. CASE a \in ballots
        BY <4>1 DEF VoteInv, BallotsRecorded, ChoiceInv, BallotsAreAsked
      <4>2. CASE a = [voter |-> p, term |-> m.term, cand |-> m.cand]
        BY <1>1, <4>2 DEF ChoiceInv, RequestIsCurrent
      <4> QED
        BY <2>2, <4>1, <4>2 DEF granted, Grant
    <3>2. node[a.cand].term \in Nat /\ node'[a.cand].term \in Nat
      BY <1>1, <3>1 DEF Typed, State
    <3> QED
      BY <1>2, <3>1, <3>2
  <2> QED
    BY <1>1, <2>1, <2>2
<1>6. ASSUME NEW q \in Node, NEW v \in Written, node'[q].role = Leader,
             LastTerm(v) < node'[q].term, Majority(Reachable(v))
      PROVE  Begins(v, node[q].log)
  BY <1>2, <1>6 DEF ChoiceInv, LaterLeadersHaveIt, Leader, Follower
<1>7. ASSUME NEW d \in Node, NEW v \in Written, node'[d].role = Candidate,
             LastTerm(v) < node'[d].term, Majority(Reachable(v)),
             NEW q \in Backers(v),
             [voter |-> q, term |-> node'[d].term, cand |-> d] \in ballots'
      PROVE  Begins(v, node[d].log)
  <2> DEFINE a == [voter |-> q, term |-> node[d].term, cand |-> d]
  <2>1. node[d].role = Candidate /\ node'[d].term = node[d].term /\ a \in ballots'
    BY <1>2, <1>7 DEF Candidate, Follower
  <2>2. CASE a \in ballots
    <3>1. q \in Voters(node[d].term, d)
      BY <2>2 DEF Voters, Backers
    <3> QED
      BY <1>7, <2>1, <3>1 DEF ChoiceInv, CandidatesHaveIt
  <2>3. CASE granted /\ a = [voter |-> p, term |-> m.term, cand |-> m.cand]
    <3>1. q = p /\ d = m.cand /\ node[d].term = m.term
      BY <2>3
    <3>2. Begins(v, node[p].log)
      BY <1>7, <3>1 DEF ChoiceInv, BackersKeepIt
    <3>3. UpToDate(Len(node[d].log), LastTerm(node[d].log), node[p].log)
      BY <2>1, <2>3, <3>1 DEF granted, ChoiceInv, RequestIsCurrent
    <3>4. /\ node[p].log \in Written \/ node[p].log = <<>>
          /\ node[d].log \in Written \/ node[d].log = <<>>
      BY DEF LogInv, LogsWritten
    <3>5. LaterLogsHaveIt
      BY DEF ChoiceInv
    <3> QED
      BY <1>7, <3>2, <3>3, <3>4, <3>5, UpToDateHasIt
  <2> QED
    BY <1>1, <2>1, <2>2, <2>3 DEF granted, Grant
<1> QED
  BY <1>1, <1>2, <1>3, <1>4, <1>5, <1>6, <1>7, ChoiceStays

\* A winner's log holds what was chosen: a backer of the choice voted for it.
LEMMA ChoiceFinishElection ==
  ASSUME Typed, VoteInv, LogInv, ChoiceInv, NEW n \in Node, FinishElection(n),
         UNCHANGED bounds
  PROVE  ChoiceInv'
<1>1. /\ Typed' /\ Only(n) /\ KeepsLog(n) /\ campaign[n].active
      /\ \/ /\ node[n].role = Candidate /\ Majority(campaign[n].votes)
            /\ node'[n].term = node[n].term /\ node'[n].role = Leader
         \/ /\ node'[n].term >= node[n].term
            /\ node'[n].role # Follower => node'[n] = node[n]
      /\ UNCHANGED <<voteRequests, appendRequests, ballots, accepted>>
  BY FinishElectionDoes
<1>2. \A q \in Node : /\ node'[q].log = node[q].log
                      /\ node'[q].term >= node[q].term
                      /\ node'[q].role = Candidate => /\ node[q].role = Candidate
                                                      /\ node'[q].term = node[q].term
  BY <1>1, StateIs DEF Only, KeepsLog, Leader, Candidate, Follower
<1>3. Written' = Written
  BY <1>1 DEF Written
<1>4. RequestIsCurrent' /\ BallotsAreAsked'
  BY <1>1, <1>2, RequestsStay, BallotsStay
<1>5. ASSUME NEW q \in Node, NEW v \in Written, node'[q].role = Leader,
             LastTerm(v) < node'[q].term, Majority(Reachable(v))
      PROVE  Begins(v, node[q].log)
  <2>1. CASE q # n \/ node'[n] = node[n]
    BY <1>1, <1>5, <2>1 DEF Only, ChoiceInv, LaterLeadersHaveIt
  <2>2. CASE /\ q = n /\ node[n].role = Candidate /\ Majority(campaign[n].votes)
             /\ node'[n].term = node[n].term
    <3> DEFINE P == campaign[n].votes
               Q == Voters(node[n].term, n)
    <3>1. P \subseteq Q /\ Q \in SUBSET Node /\ Majority(P)
      BY <1>1, <2>2 DEF Voters, VoteInv, VotesGranted
    <3> HIDE DEF P, Q
    <3>2. Majority(Q)
      BY <3>1, MajorityGrows
    <3>3. v \in Seq(Entry) /\ node[n].term \in Nat /\ LastTerm(v) < node[n].term
      BY <1>5, <2>2, WrittenIs, StateIs
    <3>4. PICK x \in Node : x \in Backers(v) /\ x \in Voters(node[n].term, n)
      BY <1>5, <3>2, <3>3, WinnerMeets DEF Q
    <3>5. Backers(v) \cap Voters(node[n].term, n) # {}
      BY <3>4
    <3> QED
      BY <1>5, <2>2, <3>3, <3>5 DEF ChoiceInv, CandidatesHaveIt
  <2> QED
    BY <1>1, <1>5, <2>1, <2>2 DEF Leader, Follower
<1>6. ASSUME NEW d \in Node, NEW v \in Written, node'[d].role = Candidate,
             LastTerm(v) < node'[d].term, Majority(Reachable(v)),
             NEW q \in Backers(v),
             [voter |-> q, term |-> node'[d].term, cand |-> d] \in ballots'
      PROVE  Begins(v, node[d].log)
  <2>1. node[d].role = Candidate /\ node'[d].term = node[d].term
    BY <1>2, <1>6
  <2>2. q \in Voters(node[d].term, d)
    BY <1>1, <1>6, <2>1 DEF Voters, Backers
  <2> QED
    BY <1>6, <2>1, <2>2 DEF ChoiceInv, CandidatesHaveIt
<1> QED
  BY <1>1, <1>2, <1>3, <1>4, <1>5, <1>6, ChoiceStays

\* Notifications and crashes between handlers.
LEMMA ChoiceOthers ==
  ASSUME Typed, VoteInv, LogInv, ChoiceInv, NEW n \in Node, UNCHANGED bounds,
         FinishProposal(n) \/ Restart(n) \/ CrashInTermChange(n)
  PROVE  ChoiceInv'
<1>1. /\ Typed' /\ Only(n) /\ node'[n].log = node[n].log
      /\ node'[n].term >= node[n].term
      /\ node'[n].role # Follower => /\ node'[n].role = node[n].role
                                     /\ node'[n].term = node[n].term
      /\ UNCHANGED <<voteRequests, ballots, accepted>>
  <2>1. CASE FinishProposal(n)
    <3>1. /\ Typed' /\ Only(n) /\ node'[n].log = node[n].log
          /\ node'[n].term = node[n].term /\ node'[n].role = node[n].role
          /\ UNCHANGED <<voteRequests, ballots, accepted>>
      BY <2>1, FinishProposalDoes
    <3> QED
      BY <3>1, StateIs
  <2>2. CASE Restart(n) \/ CrashInTermChange(n)
    BY <2>2, CrashDoes
  <2> QED
    BY <2>1, <2>2
<1>2. \A q \in Node : /\ node'[q].log = node[q].log
                      /\ node'[q].term >= node[q].term
                      /\ node'[q].role # Follower => /\ node'[q].role = node[q].role
                                                     /\ node'[q].term = node[q].term
  BY <1>1, StateIs DEF Only
<1>3. Written' = Written
  BY LogsOthers DEF KeepsLogs
<1>4. RequestIsCurrent' /\ BallotsAreAsked'
  BY <1>1, <1>2, RequestsStay, BallotsStay DEF Follower, Candidate
<1>5. ASSUME NEW q \in Node, NEW v \in Written, node'[q].role = Leader,
             LastTerm(v) < node'[q].term, Majority(Reachable(v))
      PROVE  Begins(v, node[q].log)
  BY <1>2, <1>5 DEF ChoiceInv, LaterLeadersHaveIt, Leader, Follower
<1>6. ASSUME NEW d \in Node, NEW v \in Written, node'[d].role = Candidate,
             LastTerm(v) < node'[d].term, Majority(Reachable(v)),
             NEW q \in Backers(v),
             [voter |-> q, term |-> node'[d].term, cand |-> d] \in ballots'
      PROVE  Begins(v, node[d].log)
  <2>1. node[d].role = Candidate /\ node'[d].term = node[d].term
    BY <1>2, <1>6 DEF Candidate, Follower
  <2>2. q \in Voters(node[d].term, d)
    BY <1>1, <1>6, <2>1 DEF Voters, Backers
  <2> QED
    BY <1>6, <2>1, <2>2 DEF ChoiceInv, CandidatesHaveIt
<1> QED
  BY <1>1, <1>2, <1>3, <1>4, <1>5, <1>6, ChoiceStays

\* A log proposed in a term that others have left behind is not chosen.
LEMMA ChoicePropose ==
  ASSUME Typed, VoteInv, LogInv, ChoiceInv, NEW n \in Node,
         NEW cmd \in Offers[n], Propose(n, cmd), UNCHANGED bounds
  PROVE  ChoiceInv'
<1>1. PICK t \in Nat, w \in Seq(Entry) : t = node[n].term /\ w = node'[n].log
  <2>1. node'[n].log \in Seq(Entry)
    BY ProposeDoes
  <2> QED
    BY <2>1, StateIs
<1> DEFINE new == [node |-> n, log |-> w]
<1>2. /\ Typed' /\ Only(n) /\ node[n].role = Leader
      /\ node'[n].term = t /\ node'[n].role = Leader
      /\ w # <<>> /\ LastTerm(w) = t /\ Begins(node[n].log, w)
      /\ accepted' = accepted \cup {new}
      /\ UNCHANGED <<voteRequests, ballots, elected>>
  <2>1. /\ Typed' /\ Only(n) /\ node[n].role = Leader
        /\ node'[n].term = node[n].term /\ node'[n].role = node[n].role
        /\ node'[n].log # <<>> /\ LastTerm(node'[n].log) = node[n].term
        /\ Begins(node[n].log, node'[n].log)
        /\ Accept(n, node'[n].log)
        /\ UNCHANGED <<voteRequests, ballots, elected>>
    BY ProposeDoes
  <2> QED
    BY <1>1, <2>1 DEF Accept
<1>3. Written' = Written \cup {w} /\ w \notin Written
  BY <1>1, LogsPropose
<1>4. /\ \A q \in Node : node'[q].term = node[q].term
      /\ \A q \in Node : node'[q].role = node[q].role
      /\ \A q \in Node : q # n => node'[q].log = node[q].log
      /\ \A q \in Node : node[q].term \in Nat
  BY <1>1, <1>2, StateIs DEF Only
<1>5. ASSUME NEW v \in Written
      PROVE  /\ Backers(v)' = Backers(v)
             /\ Majority(Reachable(v))' => Majority(Reachable(v))
             /\ v # w /\ LastTerm(v) \in Nat /\ v \in Seq(Entry)
  <2>1. Backers(v)' = Backers(v) /\ v # w
    BY <1>2, <1>3 DEF Backers
  <2>2. v \in Seq(Entry) /\ LastTerm(v) \in Nat
    BY WrittenIs
  <2>3. \A q \in Node : node'[q].term >= node[q].term
    BY <1>4
  <2>4. \A q \in Node : q \in Backers(v)' => q \in Reachable(v)
    BY <2>1 DEF Reachable
  <2> QED
    BY <1>2, <2>1, <2>2, <2>3, <2>4, ReachableShrinks
<1>6. Backers(w)' = {n}
  <2>1. ASSUME NEW q, [node |-> q, log |-> w] \in accepted
        PROVE  FALSE
    BY <1>2, <1>3, <2>1 DEF ChoiceInv, AcceptedIsWritten
  <2> QED
    BY <1>2, <2>1 DEF Backers
\* A winner of a later term: a majority has left t.
<1>7. ASSUME NEW e \in elected, e.term > t, Majority(Reachable(w))'
      PROVE  FALSE
  <2> DEFINE P == Reachable(w)'
             Q == Voters(e.term, e.leader)
  <2>1. /\ P \in SUBSET Node /\ Q \in SUBSET Node /\ Majority(P) /\ Majority(Q)
        /\ e.term \in Nat
    BY <1>7 DEF Reachable, Backers, Voters, VoteInv, WinnersHaveWon, Majority
  <2>2. \A q \in P : node[q].term <= t
    BY <1>1, <1>2, <1>4, <1>6 DEF Reachable
  <2>3. \A q \in Q : e.term <= node[q].term /\ q \in Node
    BY DEF Voters, VoteInv, BallotsRecorded
  <2> HIDE DEF P, Q
  <2>4. PICK q \in Node : q \in P /\ q \in Q
    BY <2>1, MajoritiesMeet
  <2> QED
    BY <1>4, <1>7, <2>1, <2>2, <2>3, <2>4
<1>8. ASSUME NEW v \in Written, Begins(v, node[n].log)
      PROVE  Begins(v, w)
  BY <1>2, <1>5, <1>8, StateIs, BeginsAgain
<1>9. LaterLogsHaveIt'
  <2> SUFFICES ASSUME NEW v \in Written', NEW x \in Written',
                      LastTerm(v) < LastTerm(x), Majority(Reachable(v))'
               PROVE  Begins(v, x)
    BY DEF LaterLogsHaveIt
  <2>1. CASE v \in Written /\ x \in Written
    BY <1>5, <2>1 DEF ChoiceInv, LaterLogsHaveIt
  <2>2. CASE v \in Written /\ x = w
    BY <1>1, <1>2, <1>5, <1>8, <2>2 DEF ChoiceInv, LaterLeadersHaveIt
  <2>3. CASE v = w /\ x \in Written
    <3>1. PICK e \in elected : e.term = LastTerm(x)
      BY <2>3 DEF LogInv, WrittenByWinner
    <3>2. e.term > t
      BY <1>2, <1>5, <2>3, <3>1
    <3> QED
      BY <1>7, <2>3, <3>2
  <2>4. CASE v = w /\ x = w
    BY <1>2, <2>4
  <2> QED
    BY <1>3, <2>1, <2>2, <2>3, <2>4
<1>10. LaterLeadersHaveIt'
  <2> SUFFICES ASSUME NEW v \in Written', NEW q \in Node, node[q].role = Leader,
                      LastTerm(v) < node[q].term, Majority(Reachable(v))'
               PROVE  Begins(v, node'[q].log)
    BY <1>4 DEF LaterLeadersHaveIt
  <2>1. CASE v \in Written
    <3>1. Begins(v, node[q].log)
      BY <1>5, <2>1 DEF ChoiceInv, LaterLeadersHaveIt
    <3> QED
      BY <1>1, <1>4, <1>8, <2>1, <3>1
  <2>2. CASE v = w
    <3> DEFINE e == [term |-> node[q].term, leader |-> q]
    <3>1. e \in elected /\ e.term > t
      BY <1>1, <1>2, <1>4, <2>2 DEF VoteInv, LeadersHaveWon
    <3> HIDE DEF e
    <3> QED
      BY <1>7, <2>2, <3>1
  <2> QED
    BY <1>3, <2>1, <2>2
<1>11. BackersKeepIt'
  <2> SUFFICES ASSUME NEW v \in Written', NEW q \in Backers(v)'
               PROVE  /\ LastTerm(v) <= node[q].term
                      /\ Majority(Reachable(v))' => Begins(v, node'[q].log)
    BY <1>4 DEF BackersKeepIt, Backers
  <2>1. CASE v \in Written
    <3>1. q \in Backers(v) /\ q \in Node
      BY <1>5, <2>1 DEF Backers
    <3>2. /\ LastTerm(v) <= node[q].term
          /\ Majority(Reachable(v)) => Begins(v, node[q].log)
      BY <2>1, <3>1 DEF ChoiceInv, BackersKeepIt
    <3> QED
      BY <1>1, <1>4, <1>5, <1>8, <2>1, <3>1, <3>2
  <2>2. CASE v = w
    BY <1>1, <1>2, <1>6, <2>2, BeginsAgain
  <2> QED
    BY <1>3, <2>1, <2>2
<1>12. CandidatesHaveIt'
  <2> SUFFICES ASSUME NEW v \in Written', NEW d \in Node, node[d].role = Candidate,
                      LastTerm(v) < node[d].term, Majority(Reachable(v))',
                      NEW q \in Backers(v)', q \in Voters(node[d].term, d)
               PROVE  Begins(v, node'[d].log)
    BY <1>2, <1>4 DEF CandidatesHaveIt, Voters
  <2>1. CASE v \in Written
    <3>1. q \in Backers(v)
      BY <1>5, <2>1
    <3>2. Begins(v, node[d].log) /\ d # n
      BY <1>2, <1>5, <2>1, <3>1 DEF ChoiceInv, CandidatesHaveIt, Leader, Candidate
    <3> QED
      BY <1>4, <3>2
  <2>2. CASE v = w
    <3>1. q = n /\ node[d].term <= node[q].term
      BY <1>6, <2>2 DEF Voters, VoteInv, BallotsRecorded
    <3> QED
      BY <1>1, <1>2, <1>4, <2>2, <3>1
  <2> QED
    BY <1>3, <2>1, <2>2
<1>13. RequestIsCurrent'
  <2> SUFFICES ASSUME NEW m \in voteRequests
               PROVE  /\ m.term <= node[m.cand].term
                      /\ node[m.cand].role = Candidate /\ m.term = node[m.cand].term
                           => /\ m.lastIndex = Len(node'[m.cand].log)
                              /\ m.lastTerm = LastTerm(node'[m.cand].log)
    BY <1>2, <1>4 DEF RequestIsCurrent, Typed, VoteRequests
  <2>1. m.cand \in Node
    BY DEF Typed, VoteRequests
  <2> QED
    BY <1>2, <1>4, <2>1 DEF ChoiceInv, RequestIsCurrent, Leader, Candidate
<1>14. BallotsAreAsked'
  BY <1>2, <1>4, BallotsStay
<1>15. AcceptedIsWritten'
  BY <1>2, <1>3 DEF ChoiceInv, AcceptedIsWritten
<1> QED
  BY <1>9, <1>10, <1>11, <1>12, <1>13, <1>14, <1>15 DEF ChoiceInv

\* Who takes a request keeps what may be chosen, and has what it confirms.
LEMMA ChoiceTake ==
  ASSUME Typed, VoteInv, LogInv, ChoiceInv, NEW p \in Node, NEW m, Takes(p, m),
         \/ UNCHANGED accepted
         \/ /\ node'[p].log = Merged(node[p].log, m.entries)
            /\ Accept(p, m.entries)
  PROVE  ChoiceInv'
<1> DEFINE new == [node |-> p, log |-> m.entries]
<1>1. /\ Typed' /\ Only(p) /\ m \in appendRequests
      /\ node[p].term <= m.term /\ node'[p].term = m.term
      /\ node'[p].role = Follower
      /\ node'[p].log \in DuringMerge(node[p].log, m.entries)
      /\ UNCHANGED <<voteRequests, ballots>>
  BY DEF Takes
<1>2. /\ m.entries \in Written \/ m.entries = <<>>
      /\ m.entries \in Seq(Entry) /\ m.term \in Nat
      /\ m.entries # <<>> => LastTerm(m.entries) = m.term
  BY <1>1, RequestEntriesAre DEF LogInv, RequestsWritten
<1>3. Written' = Written
  BY LogsTake
<1>4. \A q \in Node : /\ node[q].term \in Nat /\ node'[q].term \in Nat
                      /\ node'[q].term >= node[q].term
                      /\ node'[q].role # Follower => q # p /\ node'[q] = node[q]
  BY <1>1, <1>2, StateIs DEF Only
<1>5. ASSUME NEW v \in Written, NEW q \in Backers(v)', q \notin Backers(v)
      PROVE  /\ q = p /\ v = m.entries /\ LastTerm(v) = m.term
             /\ node'[p].log = Merged(node[p].log, m.entries)
  <2>1. /\ [node |-> q, log |-> v] \notin accepted
        /\ [node |-> q, log |-> v] \in accepted'
    BY <1>5 DEF Backers
  <2>2. accepted' = accepted \cup {new} /\ node'[p].log = Merged(node[p].log, m.entries)
    BY <2>1 DEF Accept
  <2>3. [node |-> q, log |-> v] = new
    BY <2>1, <2>2
  <2>4. v # <<>>
    BY WrittenIs
  <2> QED
    BY <1>2, <2>2, <2>3, <2>4
<1>6. ASSUME NEW v \in Written
      PROVE  /\ Majority(Reachable(v))' => Majority(Reachable(v))
             /\ LastTerm(v) \in Nat /\ v \in Seq(Entry)
  <2>1. v \in Seq(Entry) /\ LastTerm(v) \in Nat
    BY WrittenIs
  <2>2. \A q \in Node : node'[q].term >= node[q].term
    BY <1>4
  <2>3. \A q \in Node : q \in Backers(v)' => q \in Reachable(v)
    BY <1>1, <1>5 DEF Reachable
  <2> QED
    BY <1>1, <2>1, <2>2, <2>3, ReachableShrinks
<1>7. LaterLogsHaveIt'
  BY <1>3, <1>6 DEF ChoiceInv, LaterLogsHaveIt
<1>8. LaterLeadersHaveIt'
  <2> SUFFICES ASSUME NEW v \in Written, NEW q \in Node, node'[q].role = Leader,
                      LastTerm(v) < node'[q].term, Majority(Reachable(v))'
               PROVE  Begins(v, node'[q].log)
    BY <1>3 DEF LaterLeadersHaveIt
  <2>1. node'[q] = node[q]
    BY <1>4 DEF Leader, Follower
  <2> QED
    BY <1>6, <2>1 DEF ChoiceInv, LaterLeadersHaveIt
<1>9. BackersKeepIt'
  <2> SUFFICES ASSUME NEW v \in Written, NEW q \in Backers(v)'
               PROVE  /\ LastTerm(v) <= node'[q].term
                      /\ Majority(Reachable(v))' => Begins(v, node'[q].log)
    BY <1>3 DEF BackersKeepIt, Backers
  <2>1. q \in Node
    BY DEF Backers
  <2>2. CASE q \notin Backers(v)
    <3>1. /\ q = p /\ v = m.entries /\ LastTerm(v) = m.term
          /\ node'[p].log = Merged(node[p].log, m.entries)
      BY <1>5, <2>2
    <3>2. Match(node[p].log, m.entries)
      BY TakesIs
    <3>3. Begins(m.entries, node'[p].log)
      BY <1>2, <3>1, <3>2, StateIs, MergedBegins
    <3> QED
      BY <1>1, <1>2, <3>1, <3>3
  <2>3. CASE q \in Backers(v) /\ q # p
    <3>1. node'[q] = node[q]
      BY <1>1, <2>1, <2>3 DEF Only
    <3> QED
      BY <1>6, <2>3, <3>1 DEF ChoiceInv, BackersKeepIt
  <2>4. CASE q \in Backers(v) /\ q = p
    <3>1. LastTerm(v) <= node[p].term
      BY <2>4 DEF ChoiceInv, BackersKeepIt
    <3>2. LastTerm(v) <= m.term
      BY <1>1, <1>2, <1>4, <1>6, <3>1
    <3>3. ASSUME Majority(Reachable(v))'
          PROVE  Begins(v, node'[p].log)
      <4>1. Begins(v, node[p].log) /\ Majority(Reachable(v))
        BY <1>6, <2>4, <3>3 DEF ChoiceInv, BackersKeepIt
      <4>2. CASE m.entries = <<>>
        <5>1. Begins(m.entries, v)
          BY <1>6, <4>2, LenProperties DEF Begins
        <5> QED
          BY <1>1, <1>2, <1>6, <4>1, <5>1, StateIs, TakesIs, KeepsBeginning
      <4>3. CASE m.entries # <<>>
        <5>1. Begins(v, m.entries) \/ Begins(m.entries, v)
          BY <1>2, <3>2, <4>1, <4>3, ReachableIsOnLine DEF ChoiceInv
        <5> QED
          BY <1>1, <1>2, <1>6, <4>1, <5>1, StateIs, TakesIs, KeepsBeginning
      <4> QED
        BY <4>2, <4>3
    <3> QED
      BY <1>1, <2>4, <3>2, <3>3
  <2> QED
    BY <2>2, <2>3, <2>4
<1>10. CandidatesHaveIt'
  <2> SUFFICES ASSUME NEW v \in Written, NEW d \in Node, node'[d].role = Candidate,
                      LastTerm(v) < node'[d].term, Majority(Reachable(v))',
                      NEW q \in Backers(v)', (q \in Voters(node[d].term, d))'
               PROVE  Begins(v, node'[d].log)
    BY <1>3 DEF CandidatesHaveIt
  <2>1. node'[d] = node[d]
    BY <1>4 DEF Candidate, Follower
  <2>2. q \in Voters(node[d].term, d)
    BY <1>1, <2>1 DEF Voters
  <2>3. q \in Backers(v)
    <3>1. node[d].term <= node[q].term /\ q \in Node
      BY <2>2 DEF Voters, VoteInv, BallotsRecorded
    <3>2. ~(q = p /\ LastTerm(v) = m.term)
      BY <1>1, <1>2, <1>4, <2>1, <3>1
    <3> QED
      BY <1>5, <3>2
  <2> QED
    BY <1>6, <2>1, <2>2, <2>3 DEF ChoiceInv, CandidatesHaveIt
<1>11. RequestIsCurrent'
  BY <1>1, <1>4, RequestsStay DEF Only, Candidate, Follower
<1>12. BallotsAreAsked'
  BY <1>1, <1>4, BallotsStay
<1>13. AcceptedIsWritten'
  BY <1>2, <1>3 DEF ChoiceInv, AcceptedIsWritten, Accept
<1> QED
  BY <1>7, <1>8, <1>9, <1>10, <1>11, <1>12, <1>13 DEF ChoiceInv

-----------------------------------------------------------------------------
\* Commitment.  A step forgets neither what is written nor who confirmed it.
Remembers == /\ Written \subseteq Written' /\ accepted \subseteq accepted'
             /\ \A q \in Node : node'[q].term >= node[q].term

\* What is chosen stays chosen when nobody forgets what he backed.
LEMMA ChosenStays ==
  ASSUME Remembers, NEW v, Majority(Backers(v))
  PROVE  Majority(Backers(v))'
<1> DEFINE P == Backers(v)
           Q == Backers(v)'
<1>1. P \subseteq Q /\ Q \in SUBSET Node /\ Majority(P)
  BY DEF Backers, Remembers
<1> HIDE DEF P, Q
<1>2. Majority(Q)
  BY <1>1, MajorityGrows
<1> QED
  BY <1>2 DEF Q, Majority

\* A safe prefix stays safe, in later terms too.
LEMMA SafeStays ==
  ASSUME Typed, Remembers, NEW log, NEW k, NEW t \in Nat, NEW u \in Nat,
         t <= u, Safe(log, k, t)
  PROVE  Safe(log, k, u)'
<1>1. CASE k = 0
  BY <1>1 DEF Safe
<1>2. CASE k # 0
  <2>1. PICK v \in Written : /\ Majority(Backers(v)) /\ LastTerm(v) <= t
                             /\ k <= Len(v) /\ \A i \in 1 .. k : log[i] = v[i]
    BY <1>2 DEF Safe
  <2>2. v \in Written' /\ Majority(Backers(v))'
    BY <2>1, ChosenStays DEF Remembers
  <2>3. LastTerm(v) <= u
    BY <2>1, WrittenIs
  <2> QED
    BY <2>1, <2>2, <2>3 DEF Safe
<1> QED
  BY <1>1, <1>2

\* What is safe of one log is safe of another that agrees with it so far.
LEMMA SafeElsewhere ==
  ASSUME Typed, NEW x, NEW y, NEW k \in Nat, NEW j \in Nat, j <= k, NEW t \in Nat,
         NEW u \in Nat, t <= u, Safe(x, k, t), j <= Len(y),
         \A i \in 1 .. j : y[i] = x[i]
  PROVE  Safe(y, j, u)
<1>1. CASE k = 0
  <2>1. j = 0
    BY <1>1
  <2> QED
    BY <2>1 DEF Safe
<1>2. CASE k # 0
  <2>1. PICK v \in Written : /\ Majority(Backers(v)) /\ LastTerm(v) <= t
                             /\ k <= Len(v) /\ \A i \in 1 .. k : x[i] = v[i]
    BY <1>2 DEF Safe
  <2>2. Len(v) \in Nat /\ LastTerm(v) \in Nat
    BY <2>1, WrittenIs
  <2>3. LastTerm(v) <= u /\ j <= Len(v) /\ \A i \in 1 .. j : y[i] = v[i]
    BY <2>1, <2>2
  <2> QED
    BY <2>1, <2>3 DEF Safe
<1> QED
  BY <1>1, <1>2

\* The parts of the commit invariant over a step that forgets no backer:
\* the commit indices,
LEMMA CommitsNext ==
  ASSUME Typed, Typed', CommitIsSafe, Remembers, NEW n \in Node, Only(n),
         NEW log, NEW k, NEW t, log = node'[n].log, k = node'[n].commit,
         t = node'[n].term, Safe(log, k, t)
  PROVE  CommitIsSafe'
<1> SUFFICES ASSUME NEW q \in Node, NEW l, NEW c, NEW u, l = node'[q].log,
                    c = node'[q].commit, u = node'[q].term
             PROVE  Safe(l, c, u)'
  BY DEF CommitIsSafe, Safe
<1>1. u \in Nat
  BY DEF Typed, State
<1>2. Safe(l, c, u)
  <2>1. CASE q = n
    BY <2>1
  <2>2. CASE q # n
    BY <2>2 DEF Only, CommitIsSafe
  <2> QED
    BY <2>1, <2>2
<1> QED
  BY <1>1, <1>2, SafeStays

\* What RequestIsSafe says of one request.
SafeRequest(m) ==
  IF m.entries # <<>> THEN Safe(m.entries, m.commit, m.term)
  ELSE \E w \in Written : /\ Len(w) = m.prevIndex
                          /\ LastTerm(w) = m.prevTerm
                          /\ Safe(w, m.commit, m.term)

\* the requests under way,
LEMMA RequestsNext ==
  ASSUME Typed, Typed', RequestIsSafe, Remembers,
         \A m \in appendRequests' : m \in appendRequests \/ SafeRequest(m)
  PROVE  RequestIsSafe'
<1> SUFFICES ASSUME NEW m \in appendRequests'
             PROVE  IF m.entries # <<>> THEN Safe(m.entries, m.commit, m.term)'
                    ELSE \E w \in Written' : /\ Len(w) = m.prevIndex
                                             /\ LastTerm(w) = m.prevTerm
                                             /\ Safe(w, m.commit, m.term)'
  BY DEF RequestIsSafe
<1>1. SafeRequest(m) /\ m.term \in Nat
  BY DEF RequestIsSafe, SafeRequest, Typed, AppendRequests
<1>2. CASE m.entries # <<>>
  BY <1>1, <1>2, SafeStays DEF SafeRequest
<1>3. CASE m.entries = <<>>
  <2>1. PICK w \in Written : /\ Len(w) = m.prevIndex
                             /\ LastTerm(w) = m.prevTerm
                             /\ Safe(w, m.commit, m.term)
    BY <1>1, <1>3 DEF SafeRequest
  <2>2. w \in Written' /\ Safe(w, m.commit, m.term)'
    BY <1>1, <2>1, SafeStays DEF Remembers
  <2> QED
    BY <1>3, <2>1, <2>2
<1> QED
  BY <1>2, <1>3

\* the proposals,
LEMMA ProposalsNext ==
  ASSUME ProposalIsWritten, Remembers,
         \A n \in Node : proposal'[n] = proposal[n] \/ ~proposal'[n].active
  PROVE  ProposalIsWritten'
<1>1. \A v : Backers(v) \subseteq Backers(v)'
  BY DEF Remembers, Backers
<1> SUFFICES ASSUME NEW n \in Node, proposal'[n].active,
                    NEW v, v = proposal'[n].request.entries
             PROVE  /\ v \in Written' /\ proposal'[n].request.leader = n
                    /\ proposal'[n].index = Len(v)
                    /\ proposal'[n].entry = v[Len(v)]
                    /\ n \in proposal'[n].acks
                    /\ proposal'[n].acks \subseteq Backers(v)'
  BY DEF ProposalIsWritten, Backers
<1> QED
  BY <1>1 DEF ProposalIsWritten, Remembers

\* what clients were told,
LEMMA AcknowledgedNext ==
  ASSUME AcknowledgedIsChosen, Remembers, acknowledged' = acknowledged
  PROVE  AcknowledgedIsChosen'
<1> SUFFICES ASSUME NEW a \in acknowledged
             PROVE  \E v \in Written' : /\ Majority(Backers(v))' /\ a.index = Len(v)
                                        /\ a.entry = v[Len(v)]
  BY DEF AcknowledgedIsChosen
<1>1. PICK v \in Written : /\ Majority(Backers(v)) /\ a.index = Len(v)
                           /\ a.entry = v[Len(v)]
  BY DEF AcknowledgedIsChosen
<1>2. v \in Written' /\ Majority(Backers(v))'
  BY <1>1, ChosenStays DEF Remembers
<1> QED
  BY <1>1, <1>2

\* and what the machines have applied.
LEMMA AppliedNext ==
  ASSUME AppliedIsLog, NEW n \in Node, Only(n),
         node'[n].applied = SubSeq(node'[n].log, 1, node'[n].commit)
  PROVE  AppliedIsLog'
  BY DEF AppliedIsLog, Only

\* A step of a node that keeps its log, and says and confirms nothing new.
LEMMA CommitStays ==
  ASSUME Typed, Typed', CommitInv, NEW n \in Node, Only(n), Written' = Written,
         node'[n].term >= node[n].term, node'[n].log = node[n].log,
         node'[n].commit = node[n].commit,
         node'[n].applied = SubSeq(node'[n].log, 1, node'[n].commit),
         \A q \in Node : proposal'[q] = proposal[q] \/ ~proposal'[q].active,
         UNCHANGED <<appendRequests, accepted, acknowledged>>
  PROVE  CommitInv'
<1>1. Remembers
  BY StateIs DEF Remembers, Only
<1>2. CommitIsSafe'
  <2> DEFINE log == node[n].log
             k == node[n].commit
             t == node[n].term
  <2>1. PICK u \in Nat : u = node'[n].term
    BY DEF Typed, State
  <2>2. /\ Safe(log, k, t) /\ k \in Nat /\ t \in Nat /\ k <= Len(log)
        /\ t <= u /\ k <= k
    BY <2>1, StateIs DEF CommitInv, CommitIsSafe, Safe
  <2> HIDE DEF log, k, t
  <2>3. Safe(log, k, u)
    BY <2>2, SafeElsewhere
  <2> QED
    BY <1>1, <2>1, <2>3, CommitsNext DEF CommitInv, log, k
<1>3. RequestIsSafe'
  BY <1>1, RequestsNext DEF CommitInv
<1>4. ProposalIsWritten' /\ AcknowledgedIsChosen' /\ AppliedIsLog'
  BY <1>1, ProposalsNext, AcknowledgedNext, AppliedNext DEF CommitInv
<1> QED
  BY <1>2, <1>3, <1>4 DEF CommitInv

\* Elections, and crashes that leave the log alone.
LEMMA CommitOthers ==
  ASSUME Typed, LogInv, CommitInv, NEW n \in Node, UNCHANGED bounds,
         \/ StartElection(n) \/ FinishElection(n)
         \/ Restart(n) \/ CrashInTermChange(n)
         \/ \E m \in voteRequests : HandleVoteRequest(n, m)
  PROVE  CommitInv'
<1> DEFINE same == /\ Typed' /\ Only(n) /\ node'[n].term >= node[n].term
                   /\ node'[n].log = node[n].log /\ node'[n].commit = node[n].commit
                   /\ node'[n].applied = SubSeq(node[n].log, 1, node[n].commit)
                   /\ \/ UNCHANGED proposal
                      \/ proposal' = [proposal EXCEPT ![n] = Idle]
                   /\ UNCHANGED <<appendRequests, accepted, acknowledged>>
<1>1. /\ node[n].applied = SubSeq(node[n].log, 1, node[n].commit)
      /\ node[n].commit <= Len(node[n].log)
  BY DEF CommitInv, AppliedIsLog, CommitIsSafe, Safe
<1>2. ASSUME StartElection(n) PROVE same
  <2>1. /\ Typed' /\ Only(n) /\ KeepsLog(n) /\ node'[n].term = node[n].term + 1
        /\ UNCHANGED <<proposal, appendRequests, acknowledged, accepted>>
    BY <1>2, StartElectionDoes
  <2> QED
    BY <1>1, <2>1, StateIs DEF KeepsLog
<1>3. ASSUME FinishElection(n) PROVE same
  <2>1. /\ Typed' /\ Only(n) /\ KeepsLog(n)
        /\ node'[n].term = node[n].term \/ node'[n].term >= node[n].term
        /\ UNCHANGED <<proposal, appendRequests, acknowledged, accepted>>
    BY <1>3, FinishElectionDoes
  <2> QED
    BY <1>1, <2>1, StateIs DEF KeepsLog
<1>4. ASSUME Restart(n) \/ CrashInTermChange(n) PROVE same
  BY <1>1, <1>4, CrashDoes
<1>5. ASSUME NEW m \in voteRequests, HandleVoteRequest(n, m) PROVE same
  <2>1. /\ Typed' /\ Only(n) /\ KeepsLog(n) /\ m.term \in Nat
        /\ m.term > node[n].term => node'[n].term = m.term
        /\ ~(m.term > node[n].term) => node'[n].term = node[n].term
        /\ UNCHANGED <<proposal, appendRequests, acknowledged, accepted>>
    BY <1>5, HandleVoteRequestDoes
  <2> QED
    BY <1>1, <2>1, StateIs DEF KeepsLog
<1>6. same
  BY <1>2, <1>3, <1>4, <1>5
<1> HIDE DEF same
<1>7. Written' = Written
  BY <1>6 DEF same, Written
<1>8. \A q \in Node : proposal'[q] = proposal[q] \/ ~proposal'[q].active
  BY <1>6 DEF same, Typed, Idle
<1> QED
  BY <1>6, <1>7, <1>8, CommitStays DEF same

\* A proposal commits nothing.
LEMMA CommitPropose ==
  ASSUME Typed, VoteInv, LogInv, ChoiceInv, CommitInv, NEW n \in Node,
         NEW cmd \in Offers[n], Propose(n, cmd), UNCHANGED bounds
  PROVE  CommitInv'
<1>1. PICK t \in Nat, w \in Seq(Entry), c \in Nat :
        t = node[n].term /\ w = node'[n].log /\ c = node[n].commit
  <2>1. node'[n].log \in Seq(Entry)
    BY ProposeDoes
  <2> QED
    BY <2>1, StateIs
<1> DEFINE e == [term |-> t, cmd |-> cmd]
           m == [term |-> t, leader |-> n, prevIndex |-> 0, prevTerm |-> 0,
                 entries |-> w, commit |-> c]
           prop == [active |-> TRUE, index |-> Len(w), entry |-> e,
                    request |-> m, acks |-> {n}]
<1>2. /\ Typed' /\ Only(n) /\ node'[n].term = t /\ node'[n].commit = c
      /\ node'[n].applied = node[n].applied
      /\ w # <<>> /\ w[Len(w)] = e /\ Begins(node[n].log, w)
      /\ appendRequests' = appendRequests \cup {m}
      /\ proposal' = [proposal EXCEPT ![n] = prop]
      /\ Accept(n, w)
      /\ UNCHANGED acknowledged
  <2>1. /\ Typed' /\ Only(n) /\ node'[n].term = node[n].term
        /\ node'[n].commit = node[n].commit
        /\ node'[n].applied = node[n].applied
        /\ node'[n].log # <<>>
        /\ node'[n].log[Len(node'[n].log)] = [term |-> node[n].term, cmd |-> cmd]
        /\ Begins(node[n].log, node'[n].log)
        /\ Accept(n, node'[n].log)
        /\ UNCHANGED acknowledged
    BY ProposeDoes
  <2>2. /\ appendRequests' = appendRequests \cup
             {[term |-> node[n].term, leader |-> n, prevIndex |-> 0, prevTerm |-> 0,
               entries |-> node'[n].log, commit |-> node[n].commit]}
        /\ proposal' = [proposal EXCEPT ![n] =
             [active |-> TRUE, index |-> Len(node'[n].log),
              entry |-> [term |-> node[n].term, cmd |-> cmd],
              request |-> [term |-> node[n].term, leader |-> n, prevIndex |-> 0,
                           prevTerm |-> 0, entries |-> node'[n].log,
                           commit |-> node[n].commit],
              acks |-> {n}]]
    BY ProposeDoes
  <2>3. /\ appendRequests' = appendRequests \cup {m}
        /\ proposal' = [proposal EXCEPT ![n] = prop]
    BY <1>1, <2>2
  <2>4. /\ node'[n].term = t /\ node'[n].commit = c
        /\ w # <<>> /\ w[Len(w)] = e /\ Begins(node[n].log, w) /\ Accept(n, w)
    BY <1>1, <2>1
  <2> HIDE DEF m, prop, e
  <2> QED
    BY <2>1, <2>3, <2>4
<1>3. m.entries = w /\ m.commit = c /\ m.term = t /\ m.leader = n
  OBVIOUS
<1>4. /\ prop.request = m /\ prop.index = Len(w) /\ prop.entry = e
      /\ prop.acks = {n} /\ prop.active
  OBVIOUS
<1> HIDE DEF m, prop, e
<1>5. Written' = Written \cup {w}
  BY <1>1, LogsPropose
<1>6. Remembers
  BY <1>1, <1>2, <1>5, StateIs DEF Remembers, Accept, Only
<1>7. /\ Safe(w, c, t) /\ node'[n].applied = SubSeq(w, 1, c)
  <2> DEFINE log == node[n].log
  <2>1. /\ Safe(log, c, t) /\ c <= Len(log) /\ c \in 0 .. Len(log)
        /\ log \in Seq(Entry) /\ Len(log) \in Nat
        /\ node[n].applied = SubSeq(log, 1, c)
    <3>1. log \in Seq(Entry) /\ Len(log) \in Nat /\ c \in Nat
      BY <1>1, StateIs, LenProperties
    <3>2. Safe(log, c, t)
      BY <1>1 DEF CommitInv, CommitIsSafe
    <3>3. c <= Len(log)
      BY <3>2 DEF Safe
    <3>4. node[n].applied = SubSeq(log, 1, c)
      BY <1>1 DEF CommitInv, AppliedIsLog
    <3> HIDE DEF log
    <3> QED
      BY <3>1, <3>2, <3>3, <3>4
  <2>2. /\ c <= Len(w) /\ \A i \in 1 .. c : w[i] = log[i]
        /\ SubSeq(log, 1, c) = SubSeq(w, 1, c)
    <3>1. Begins(log, w)
      BY <1>2
    <3> HIDE DEF log
    <3>2. Len(w) \in Nat
      BY LenProperties
    <3> QED
      BY <2>1, <3>1, <3>2, CutBegins DEF Begins
  <2>3. Safe(w, c, t)
    <3>1. c <= c /\ t <= t
      BY <1>1
    <3> HIDE DEF log
    <3> QED
      BY <2>1, <2>2, <3>1, SafeElsewhere
  <2> QED
    BY <1>2, <2>1, <2>2, <2>3
<1>8. CommitIsSafe'
  BY <1>1, <1>2, <1>6, <1>7, CommitsNext DEF CommitInv
<1>9. RequestIsSafe'
  <2>1. SafeRequest(m)
    BY <1>2, <1>3, <1>7 DEF SafeRequest
  <2> QED
    BY <1>2, <1>6, <2>1, RequestsNext DEF CommitInv
<1>10. ProposalIsWritten'
  <2> SUFFICES ASSUME NEW q \in Node, proposal'[q].active,
                      NEW v, v = proposal'[q].request.entries
               PROVE  /\ v \in Written' /\ proposal'[q].request.leader = q
                      /\ proposal'[q].index = Len(v)
                      /\ proposal'[q].entry = v[Len(v)]
                      /\ q \in proposal'[q].acks
                      /\ proposal'[q].acks \subseteq Backers(v)'
    BY DEF ProposalIsWritten, Backers
  <2>1. CASE q = n
    <3>1. proposal'[n] = prop
      BY <1>2 DEF Typed
    <3>2. v = w /\ n \in Backers(w)'
      BY <1>2, <1>3, <1>4, <2>1, <3>1 DEF Backers, Accept
    <3> QED
      BY <1>2, <1>3, <1>4, <1>5, <2>1, <3>1, <3>2
  <2>2. CASE q # n
    <3>1. proposal'[q] = proposal[q]
      BY <1>2, <2>2 DEF Typed
    <3>2. Backers(v) \subseteq Backers(v)'
      BY <1>6 DEF Remembers, Backers
    <3> QED
      BY <1>5, <3>1, <3>2 DEF CommitInv, ProposalIsWritten
  <2> QED
    BY <2>1, <2>2
<1>11. AcknowledgedIsChosen' /\ AppliedIsLog'
  BY <1>1, <1>2, <1>6, <1>7, AcknowledgedNext, AppliedNext DEF CommitInv
<1> QED
  BY <1>8, <1>9, <1>10, <1>11 DEF CommitInv

\* With a majority the proposal is chosen, and the node that finishes it has
\* it still, whoever leads by then (raft_node.cpp:113).
LEMMA CommitFinishProposal ==
  ASSUME Typed, LogInv, ChoiceInv, CommitInv, NEW n \in Node,
         FinishProposal(n), UNCHANGED bounds
  PROVE  CommitInv'
<1> DEFINE c == proposal[n]
           v == c.request.entries
           log == node[n].log
           old == node[n].commit
<1>1. /\ Typed' /\ Only(n) /\ c.active
      /\ proposal' = [proposal EXCEPT ![n] = Idle]
      /\ node'[n].term = node[n].term /\ node'[n].log = log
      /\ UNCHANGED accepted
      /\ \/ /\ Majority(c.acks)
            /\ Moved(log, old, node[n].applied,
                     node'[n].commit, node'[n].applied, c.index)
            /\ acknowledged' = acknowledged \cup
                                 {[index |-> c.index, entry |-> c.entry]}
            /\ appendRequests' = appendRequests \cup
                 {[term |-> node[n].term, leader |-> n,
                   prevIndex |-> Len(log), prevTerm |-> LastTerm(log),
                   entries |-> <<>>, commit |-> node'[n].commit]}
         \/ UNCHANGED <<node, acknowledged, appendRequests>>
  BY FinishProposalDoes
<1>2. Written' = Written
  BY LogsOthers DEF KeepsLogs
<1>3. Remembers
  BY <1>1, <1>2, StateIs DEF Remembers, Only
<1>4. \A q \in Node : proposal'[q] = proposal[q] \/ ~proposal'[q].active
  BY <1>1 DEF Typed, Idle
<1>5. /\ v \in Written /\ c.index = Len(v) /\ c.entry = v[Len(v)]
      /\ n \in c.acks /\ c.acks \subseteq Backers(v)
  BY <1>1 DEF CommitInv, ProposalIsWritten
<1>6. /\ Safe(log, old, node[n].term) /\ old <= Len(log)
      /\ node[n].applied = SubSeq(log, 1, old)
  BY DEF CommitInv, CommitIsSafe, Safe, AppliedIsLog
<1>7. /\ log \in Seq(Entry) /\ old \in Nat /\ node[n].term \in Nat
      /\ Len(log) \in Nat
  BY StateIs, LenProperties
<1> HIDE DEF c, v, log, old
<1>8. CASE UNCHANGED <<node, acknowledged, appendRequests>>
  BY <1>1, <1>2, <1>4, <1>6, <1>7, <1>8, CommitStays DEF log, old
<1>9. ASSUME Majority(c.acks),
             NEW k \in Nat, k = node'[n].commit,
             Moved(log, old, node[n].applied, k, node'[n].applied, c.index),
             acknowledged' = acknowledged \cup
                               {[index |-> c.index, entry |-> c.entry]},
             NEW m, m = [term |-> node[n].term, leader |-> n,
                         prevIndex |-> Len(log), prevTerm |-> LastTerm(log),
                         entries |-> <<>>, commit |-> k],
             appendRequests' = appendRequests \cup {m}
      PROVE  CommitInv'
  <2>1. Majority(Backers(v))
    <3> DEFINE P == c.acks
               Q == Backers(v)
    <3>1. P \subseteq Q /\ Q \in SUBSET Node /\ Majority(P)
      BY <1>5, <1>9 DEF Backers
    <3> HIDE DEF P, Q
    <3> QED
      BY <3>1, MajorityGrows DEF Q
  <2>2. Begins(v, log) /\ LastTerm(v) <= node[n].term
    BY <1>5, <2>1, ChosenIsReachable DEF ChoiceInv, BackersKeepIt, log
  <2>3. Len(v) \in Nat /\ Len(v) >= 1 /\ LastTerm(v) \in Nat
    BY <1>5, WrittenIs
  <2>4. Safe(log, k, node[n].term)
    <3>1. CASE k = old
      BY <1>6, <3>1
    <3>2. CASE k > old /\ k <= Len(log) /\ k <= c.index
      <4>1. k <= Len(v) /\ \A i \in 1 .. k : log[i] = v[i]
        BY <1>5, <2>2, <2>3, <3>2 DEF Begins
      <4> QED
        BY <1>5, <2>1, <2>2, <3>2, <4>1 DEF Safe
    <3> QED
      BY <1>9, <3>1, <3>2 DEF Moved
  <2>5. CommitIsSafe'
    BY <1>1, <1>3, <1>9, <2>4, CommitsNext DEF CommitInv
  <2>6. RequestIsSafe'
    <3>1. log \in Written
      <4>1. Len(log) >= 1
        BY <1>7, <2>2, <2>3 DEF Begins
      <4>2. log # <<>>
        BY <4>1, EmptySeq
      <4> QED
        BY <4>2 DEF LogInv, LogsWritten, log
    <3>2. /\ m.entries = <<>> /\ m.prevIndex = Len(log) /\ m.prevTerm = LastTerm(log)
          /\ m.commit = k /\ m.term = node[n].term
      BY <1>9
    <3>3. SafeRequest(m)
      BY <2>4, <3>1, <3>2 DEF SafeRequest
    <3> QED
      BY <1>1, <1>3, <1>9, <3>3, RequestsNext DEF CommitInv
  <2>7. AcknowledgedIsChosen'
    <3> SUFFICES ASSUME NEW a \in acknowledged'
                 PROVE  \E w \in Written' : /\ Majority(Backers(w))' /\ a.index = Len(w)
                                            /\ a.entry = w[Len(w)]
      BY DEF AcknowledgedIsChosen
    <3>1. PICK w \in Written : /\ Majority(Backers(w)) /\ a.index = Len(w)
                               /\ a.entry = w[Len(w)]
      <4>1. CASE a \in acknowledged
        BY <4>1 DEF CommitInv, AcknowledgedIsChosen
      <4>2. CASE a = [index |-> c.index, entry |-> c.entry]
        BY <1>5, <2>1, <4>2
      <4> QED
        BY <1>9, <4>1, <4>2
    <3>2. w \in Written' /\ Majority(Backers(w))'
      BY <1>3, <3>1, ChosenStays DEF Remembers
    <3> QED
      BY <3>1, <3>2
  <2>8. AppliedIsLog'
    <3>1. node'[n].applied = SubSeq(log, 1, k)
      BY <1>6, <1>9 DEF Moved
    <3> QED
      BY <1>1, <1>9, <3>1, AppliedNext DEF CommitInv
  <2> QED
    BY <1>3, <1>4, <2>5, <2>6, <2>7, <2>8, ProposalsNext DEF CommitInv
<1> QED
  BY <1>1, <1>8, <1>9 DEF Moved

\* What is committed begins every log the node passes through in a merge, so
\* no cut reaches it (log_store.cpp:203).
LEMMA CommitIsKept ==
  ASSUME Typed, LogInv, ChoiceInv, CommitIsSafe, NEW p \in Node, NEW m, Takes(p, m),
         NEW c, c = node[p].commit, NEW new, new = node'[p].log
  PROVE  /\ new \in Seq(Entry) /\ c \in Nat /\ c <= Len(new)
         /\ \A i \in 1 .. c : new[i] = node[p].log[i]
         /\ SubSeq(new, 1, c) = SubSeq(node[p].log, 1, c)
         /\ WithLog(Observed(node[p], m.term), new).commit = c
         /\ Safe(new, c, m.term)
<1> DEFINE log == node[p].log
           es == m.entries
           u == SubSeq(log, 1, c)
           t == node[p].term
<1>1. /\ log \in Seq(Entry) /\ c \in Nat /\ node[p] \in State /\ t \in Nat
      /\ Len(log) \in Nat
  BY StateIs, LenProperties
<1>2. /\ new \in Seq(Entry) /\ Len(new) \in Nat
      /\ new \in DuringMerge(log, es) /\ m \in appendRequests
      /\ t <= m.term
  <2>1. new \in Seq(Entry)
    BY DEF Takes, Typed, State
  <2> QED
    BY <2>1, LenProperties DEF Takes
<1>3. /\ es \in Written \/ es = <<>>
      /\ es \in Seq(Entry) /\ m.term \in Nat /\ Len(es) \in Nat
      /\ es # <<>> => LastTerm(es) = m.term
  BY <1>2, RequestEntriesAre, LenProperties DEF LogInv, RequestsWritten
<1>4. Match(log, es)
  BY TakesIs
<1>5. Safe(log, c, t) /\ c <= Len(log)
  BY DEF CommitIsSafe, Safe
<1>6. /\ u \in Seq(Entry) /\ Len(u) = c /\ Begins(u, log)
      /\ \A i \in 1 .. c : u[i] = log[i]
  BY <1>1, <1>5, CutIs, CutBegins
<1> HIDE DEF log, es, u, t
<1>7. Begins(u, es) \/ Begins(es, u)
  <2>1. CASE es = <<>>
    BY <1>1, <1>6, <2>1, EmptySeq DEF Begins
  <2>2. CASE c = 0
    BY <1>3, <1>6, <2>2 DEF Begins
  <2>3. CASE es # <<>> /\ c # 0
    <3>1. PICK v \in Written : /\ Majority(Backers(v)) /\ LastTerm(v) <= t
                               /\ c <= Len(v) /\ \A i \in 1 .. c : log[i] = v[i]
      BY <1>5, <2>3 DEF Safe
    <3>2. v \in Seq(Entry) /\ Len(v) \in Nat /\ LastTerm(v) \in Nat
      BY WrittenIs
    <3>3. Begins(u, v)
      BY <1>6, <3>1 DEF Begins
    <3>4. LastTerm(v) <= LastTerm(es) /\ es \in Written
      BY <1>1, <1>2, <1>3, <2>3, <3>1, <3>2
    <3>5. Begins(v, es) \/ Begins(es, v)
      BY <3>1, <3>4, ChosenIsReachable, ReachableIsOnLine DEF ChoiceInv
    <3>6. CASE Begins(v, es)
      BY <1>3, <1>6, <3>2, <3>3, <3>6, BeginsAgain
    <3>7. CASE Begins(es, v) /\ Len(es) <= Len(u)
      BY <1>3, <1>6, <3>2, <3>3, <3>7, BeginsAgain
    <3>8. CASE Begins(es, v) /\ Len(u) <= Len(es)
      BY <1>3, <1>6, <3>2, <3>3, <3>8, BeginsAgain
    <3> QED
      BY <1>1, <1>3, <1>6, <3>5, <3>6, <3>7, <3>8
  <2> QED
    BY <2>1, <2>2, <2>3
<1>8. Begins(u, new)
  BY <1>1, <1>2, <1>3, <1>4, <1>6, <1>7, KeepsBeginning
<1>9. c <= Len(new) /\ \A i \in 1 .. c : new[i] = log[i]
  BY <1>6, <1>8 DEF Begins
<1>10. SubSeq(new, 1, c) = u
  BY <1>2, <1>6, <1>8, BeginsIsCut
<1>11. WithLog(Observed(node[p], m.term), new).commit = c
  <2> DEFINE o == Observed(node[p], m.term)
  <2>1. o \in State /\ o.log = log /\ o.commit = c
    BY <1>1, <1>3, ObservedIs DEF log
  <2> HIDE DEF o
  <2>2. WithLog(o, new).commit = o.commit
    BY <1>2, <1>5, <1>9, <2>1, WithLogIs
  <2> QED
    BY <2>1, <2>2 DEF o
<1>12. Safe(new, c, m.term)
  <2>1. CASE c = 0
    BY <1>9, <2>1 DEF Safe
  <2>2. CASE c # 0
    <3>1. PICK v \in Written : /\ Majority(Backers(v)) /\ LastTerm(v) <= t
                               /\ c <= Len(v) /\ \A i \in 1 .. c : log[i] = v[i]
      BY <1>5, <2>2 DEF Safe
    <3>2. LastTerm(v) <= m.term
      BY <1>1, <1>2, <1>3, <3>1, WrittenIs
    <3>3. \A i \in 1 .. c : new[i] = v[i]
      BY <1>9, <3>1
    <3> QED
      BY <1>9, <3>1, <3>2, <3>3 DEF Safe
  <2> QED
    BY <2>1, <2>2
<1> QED
  BY <1>1, <1>2, <1>9, <1>10, <1>11, <1>12 DEF log, u

\* A crash in the handler leaves no commit index that is not safe.
LEMMA CommitCrashInAppend ==
  ASSUME Typed, LogInv, ChoiceInv, CommitInv, NEW n \in Node,
         NEW m \in appendRequests, CrashInAppend(n, m), UNCHANGED bounds
  PROVE  CommitInv'
<1>1. /\ Takes(n, m) /\ Typed' /\ Only(n) /\ UNCHANGED <<accepted, acknowledged>>
      /\ node[n].term <= m.term /\ node'[n].term = m.term /\ m.term \in Nat
      /\ node'[n].commit = WithLog(Observed(node[n], m.term), node'[n].log).commit
      /\ node'[n].commit <= Len(node'[n].log)
           => node'[n].applied = SubSeq(node'[n].log, 1, node'[n].commit)
      /\ proposal' = [proposal EXCEPT ![n] = Idle]
      /\ UNCHANGED appendRequests
  <2>1. Takes(n, m) /\ UNCHANGED <<accepted, acknowledged, appendRequests>>
    BY CrashInAppendTakes DEF Takes
  <2>2. /\ Typed' /\ Only(n) /\ m \in AppendRequests
        /\ node[n].term <= m.term /\ node'[n].term = m.term
        /\ node'[n].commit = WithLog(Observed(node[n], m.term), node'[n].log).commit
        /\ node'[n].commit <= Len(node'[n].log)
             => node'[n].applied = SubSeq(node'[n].log, 1, node'[n].commit)
        /\ proposal' = [proposal EXCEPT ![n] = Idle]
    BY CrashInAppendDoes
  <2>3. m.term \in Nat
    BY <2>2 DEF AppendRequests
  <2> QED
    BY <2>1, <2>2, <2>3
<1>2. PICK new \in Seq(Entry), c \in Nat : new = node'[n].log /\ c = node[n].commit
  BY <1>1, StateIs DEF Typed, State
<1>3. c <= Len(new) /\ node'[n].commit = c /\ Safe(new, c, m.term)
  BY <1>1, <1>2, CommitIsKept DEF CommitInv
<1>4. Written' = Written
  BY <1>1, LogsTake
<1>5. Remembers
  BY <1>1, <1>4, StateIs DEF Remembers, Only
<1>6. CommitIsSafe'
  BY <1>1, <1>2, <1>3, <1>5, CommitsNext DEF CommitInv
<1>7. RequestIsSafe'
  BY <1>1, <1>5, RequestsNext DEF CommitInv
<1>8. \A q \in Node : proposal'[q] = proposal[q] \/ ~proposal'[q].active
  BY <1>1 DEF Typed, Idle
<1>9. ProposalIsWritten' /\ AcknowledgedIsChosen' /\ AppliedIsLog'
  BY <1>1, <1>2, <1>3, <1>5, <1>8, ProposalsNext, AcknowledgedNext, AppliedNext
     DEF CommitInv
<1> QED
  BY <1>6, <1>7, <1>9 DEF CommitInv

\* What the leader has committed is safe to commit where its entries, or its
\* previous entry, have been found.
LEMMA CommitHandleAppendEntries ==
  ASSUME Typed, LogInv, ChoiceInv, CommitInv, NEW p \in Node,
         NEW m \in appendRequests, HandleAppendEntries(p, m), UNCHANGED bounds
  PROVE  CommitInv'
<1> DEFINE log == node[p].log
           merges == /\ PreviousMatches(log, m.prevIndex, m.prevTerm)
                     /\ node'[p].log = Merged(log, m.entries)
                     /\ LET s == WithLog(Observed(node[p], m.term), node'[p].log) IN
                        Moved(node'[p].log, s.commit, node[p].applied,
                              node'[p].commit, node'[p].applied, m.commit)
                     /\ Accept(p, m.entries)
                     /\ \/ /\ proposal[m.leader].active
                           /\ proposal[m.leader].request = m
                           /\ proposal' = [proposal EXCEPT ![m.leader].acks = @ \cup {p}]
                        \/ UNCHANGED proposal
<1>1. /\ Takes(p, m) /\ Typed' /\ Only(p) /\ m \in AppendRequests
      /\ node[p].term <= m.term /\ node'[p].term = m.term
      /\ merges \/ (KeepsLog(p) /\ UNCHANGED <<accepted, proposal>>)
      /\ UNCHANGED <<appendRequests, acknowledged>>
  <2>1. Takes(p, m)
    BY HandleAppendEntriesTakes
  <2>2. /\ Typed' /\ Only(p) /\ m \in AppendRequests
        /\ node[p].term <= m.term /\ node'[p].term = m.term
        /\ merges \/ (KeepsLog(p) /\ UNCHANGED <<accepted, proposal>>)
        /\ UNCHANGED <<appendRequests, acknowledged>>
    BY HandleAppendEntriesDoes
  <2> QED
    BY <2>1, <2>2
<1> HIDE DEF merges
<1>2. m.term \in Nat /\ m.commit \in Nat /\ m.leader \in Node
  BY <1>1 DEF AppendRequests
<1>3. PICK new \in Seq(Entry), c \in Nat, k \in Nat :
        new = node'[p].log /\ c = node[p].commit /\ k = node'[p].commit
  <2>1. node'[p] \in State
    BY <1>1 DEF Typed
  <2>2. node'[p].commit \in Nat /\ node'[p].log \in Seq(Entry)
    BY <2>1 DEF State
  <2> QED
    BY <2>2, StateIs
<1>4. /\ new \in Seq(Entry) /\ Len(new) \in Nat /\ c <= Len(new)
      /\ SubSeq(new, 1, c) = SubSeq(log, 1, c)
      /\ WithLog(Observed(node[p], m.term), new).commit = c
      /\ Safe(new, c, m.term)
  <2>1. CommitIsSafe
    BY DEF CommitInv
  <2> QED
    BY <1>1, <1>3, <2>1, CommitIsKept, LenProperties
<1>5. node[p].applied = SubSeq(log, 1, c)
  BY <1>3 DEF CommitInv, AppliedIsLog
<1>6. Written' = Written
  BY <1>1, LogsTake
<1>7. Remembers
  <2>1. accepted \subseteq accepted'
    BY <1>1 DEF merges, Accept
  <2>2. \A q \in Node : node'[q].term >= node[q].term
    BY <1>1, <1>2, StateIs DEF Only
  <2> QED
    BY <1>6, <2>1, <2>2 DEF Remembers
<1>8. /\ m.entries \in Written \/ m.entries = <<>>
      /\ m.entries \in Seq(Entry) /\ Len(m.entries) \in Nat
      /\ log \in Written \/ log = <<>>
      /\ log \in Seq(Entry) /\ Len(log) \in Nat
  BY RequestEntriesAre, StateIs, LenProperties DEF LogInv, LogsWritten
<1>9. CASE KeepsLog(p) /\ UNCHANGED <<accepted, proposal>>
  <2>1. node'[p].applied = SubSeq(node'[p].log, 1, node'[p].commit)
    BY <1>3, <1>5, <1>9 DEF KeepsLog
  <2>2. node'[p].term >= node[p].term
    BY <1>1, <1>2, StateIs
  <2> QED
    BY <1>1, <1>6, <1>9, <2>1, <2>2, CommitStays DEF KeepsLog
<1>10. CASE merges
  <2>1. /\ Moved(new, c, node[p].applied, k, node'[p].applied, m.commit)
        /\ new = Merged(log, m.entries)
        /\ PreviousMatches(log, m.prevIndex, m.prevTerm)
    BY <1>3, <1>4, <1>10 DEF merges
  <2>2. Match(log, m.entries)
    BY <1>8, WrittenMatch
  <2>3. ASSUME k > c, k <= Len(new), k <= m.commit
        PROVE  Safe(new, k, m.term)
    <3>1. CASE m.entries # <<>>
      <4>1. Safe(m.entries, m.commit, m.term) /\ m.commit <= Len(m.entries)
        BY <3>1 DEF CommitInv, RequestIsSafe, Safe
      <4>2. Begins(m.entries, new)
        BY <1>8, <2>1, <2>2, MergedBegins
      <4>3. \A i \in 1 .. k : new[i] = m.entries[i]
        BY <1>2, <1>8, <2>3, <4>1, <4>2 DEF Begins
      <4>4. m.term <= m.term
        BY <1>2
      <4> QED
        BY <1>2, <2>3, <4>1, <4>3, <4>4, SafeElsewhere
    <3>2. CASE m.entries = <<>>
      <4>1. PICK w \in Written : /\ Len(w) = m.prevIndex /\ LastTerm(w) = m.prevTerm
                                 /\ Safe(w, m.commit, m.term) /\ m.commit <= Len(w)
        BY <3>2 DEF CommitInv, RequestIsSafe, Safe
      <4>2. Len(w) \in Nat /\ Len(w) >= 1 /\ LastTerm(w) = w[Len(w)].term
        BY WrittenIs
      <4>3. new = log
        <5>1. node'[p].log \in DuringMerge(log, m.entries)
          BY <1>1 DEF Takes
        <5>2. ~ \E j \in 0 .. Len(m.entries) :
                  /\ FirstConflict(log, m.entries) <= Len(m.entries)
                  /\ FirstConflict(log, m.entries) - 1 <= j
                  /\ node'[p].log = SubSeq(m.entries, 1, j)
          <6>1. FirstConflict(log, m.entries) \in 1 .. Len(log) + 1
            BY <1>8, FirstConflictIs
          <6>2. Len(m.entries) = 0
            BY <3>2, EmptySeq
          <6> QED
            BY <1>8, <6>1, <6>2
        <5> QED
          BY <1>1, <1>3, <5>2, TakesIs
      <4>4. Holds(log, m.prevIndex, m.prevTerm)
        BY <2>1, <4>1, <4>2 DEF PreviousMatches
      <4>5. Len(w) \in 1 .. Len(log) /\ log[Len(w)].term = w[Len(w)].term
        <5>1. DOMAIN log = 1 .. Len(log)
          BY <1>8, LenProperties
        <5> QED
          BY <4>1, <4>2, <4>4, <5>1 DEF Holds
      <4>6. \A j \in 1 .. Len(w) : log[j] = w[j]
        <5>1. Match(log, w)
          BY <1>8, WrittenMatch
        <5>2. Len(w) <= Len(w)
          BY <4>2
        <5> QED
          BY <4>5, <5>1, <5>2 DEF Match
      <4>7. \A i \in 1 .. k : new[i] = w[i]
        BY <1>2, <2>3, <4>1, <4>2, <4>3, <4>6
      <4>8. m.term <= m.term
        BY <1>2
      <4> QED
        BY <1>2, <2>3, <4>1, <4>7, <4>8, SafeElsewhere
    <3> QED
      BY <3>1, <3>2
  <2>4. Safe(new, k, m.term)
    BY <1>4, <2>1, <2>3 DEF Moved
  <2>5. CommitIsSafe'
    BY <1>1, <1>3, <1>7, <2>4, CommitsNext DEF CommitInv
  <2>6. RequestIsSafe'
    BY <1>1, <1>7, RequestsNext DEF CommitInv
  <2>7. AcknowledgedIsChosen'
    BY <1>1, <1>7, AcknowledgedNext DEF CommitInv
  <2>8. AppliedIsLog'
    <3>1. node'[p].applied = SubSeq(new, 1, k)
      BY <1>4, <1>5, <2>1 DEF Moved
    <3> QED
      BY <1>1, <1>3, <3>1, AppliedNext DEF CommitInv
  <2>9. CASE UNCHANGED proposal
    BY <1>7, <2>5, <2>6, <2>7, <2>8, <2>9, ProposalsNext DEF CommitInv
  <2>10. CASE /\ proposal[m.leader].active /\ proposal[m.leader].request = m
              /\ proposal' = [proposal EXCEPT ![m.leader].acks = @ \cup {p}]
    <3>1. PICK l \in Node : l = m.leader
      BY <1>2
    <3>2. proposal[l] \in Proposals
      BY <2>10, <3>1 DEF Typed, Idle
    <3>3. /\ proposal'[l].request = m /\ proposal[l].request = m
          /\ proposal'[l].index = proposal[l].index
          /\ proposal'[l].entry = proposal[l].entry
          /\ proposal'[l].acks = proposal[l].acks \cup {p}
      BY <2>10, <3>1, <3>2 DEF Typed, Proposals
    <3>4. /\ m.entries \in Written /\ m.leader = l
          /\ proposal[l].index = Len(m.entries)
          /\ proposal[l].entry = m.entries[Len(m.entries)]
          /\ l \in proposal[l].acks /\ proposal[l].acks \subseteq Backers(m.entries)
      BY <2>10, <3>1, <3>3 DEF CommitInv, ProposalIsWritten
    <3>5. \A v : Backers(v) \subseteq Backers(v)'
      BY <1>7 DEF Remembers, Backers
    <3>6. p \in Backers(m.entries)'
      BY <1>10 DEF merges, Accept, Backers
    <3>7. ProposalIsWritten'
      <4> SUFFICES ASSUME NEW q \in Node, proposal'[q].active,
                          NEW v, v = proposal'[q].request.entries
                   PROVE  /\ v \in Written' /\ proposal'[q].request.leader = q
                          /\ proposal'[q].index = Len(v)
                          /\ proposal'[q].entry = v[Len(v)]
                          /\ q \in proposal'[q].acks
                          /\ proposal'[q].acks \subseteq Backers(v)'
        BY DEF ProposalIsWritten, Backers
      <4>1. CASE q = l
        <5>1. v = m.entries
          BY <3>3, <4>1
        <5>2. proposal'[l].acks \subseteq Backers(m.entries)'
          BY <3>3, <3>4, <3>5, <3>6
        <5>3. Backers(v)' = Backers(m.entries)'
          BY <5>1 DEF Backers
        <5> QED
          BY <1>6, <3>3, <3>4, <4>1, <5>1, <5>2, <5>3
      <4>2. CASE q # l
        <5>1. proposal'[q] = proposal[q]
          BY <2>10, <3>1, <4>2 DEF Typed
        <5> QED
          BY <1>6, <3>5, <5>1 DEF CommitInv, ProposalIsWritten
      <4> QED
        BY <4>1, <4>2
    <3> QED
      BY <2>5, <2>6, <2>7, <2>8, <3>7 DEF CommitInv
  <2> QED
    BY <1>10, <2>9, <2>10 DEF merges
<1> QED
  BY <1>1, <1>9, <1>10

-----------------------------------------------------------------------------
\* The four layers together are inductive.
Inv == Typed /\ VoteInv /\ LogInv /\ ChoiceInv /\ CommitInv

\* The invariant holds at the start.
LEMMA InvInit == Init => Inv
<1> SUFFICES ASSUME Init PROVE Inv
  OBVIOUS
<1>1. Typed /\ VoteInv
  BY TypedInit, VoteInit
<1>2. /\ \A n \in Node : /\ node[n].log = <<>> /\ node[n].applied = <<>>
                         /\ node[n].commit = 0 /\ node[n].role = Follower
                         /\ node[n].term = 0 /\ ~proposal[n].active
      /\ Written = {} /\ appendRequests = {} /\ voteRequests = {}
      /\ acknowledged = {} /\ ballots = {} /\ accepted = {}
  BY DEF Init, Initial, Idle, Written
<1>3. LogInv
  <2>1. LogsWritten
    BY <1>2 DEF LogsWritten, LastTerm
  <2> QED
    BY <1>2, <2>1 DEF LogInv, WrittenIsClosed, OneLine, Ordered, WrittenByWinner,
                      RequestsWritten, LeaderHasAll
<1>4. ChoiceInv
  BY <1>2 DEF ChoiceInv, LaterLogsHaveIt, LaterLeadersHaveIt, BackersKeepIt,
              CandidatesHaveIt, RequestIsCurrent, BallotsAreAsked, AcceptedIsWritten
<1>5. CommitInv
  <2>1. CommitIsSafe
    <3>1. \A n \in Node : Len(node[n].log) = 0
      BY <1>2, EmptySeq
    <3> QED
      BY <1>2, <3>1 DEF CommitIsSafe, Safe
  <2>2. AppliedIsLog
    <3>1. SubSeq(<<>>, 1, 0) = <<>>
      BY EmptySeq, SubSeqEmpty
    <3> QED
      BY <1>2, <3>1 DEF AppliedIsLog
  <2> QED
    BY <1>2, <2>1, <2>2 DEF CommitInv, RequestIsSafe, ProposalIsWritten,
                            AcknowledgedIsChosen
<1> QED
  BY <1>1, <1>3, <1>4, <1>5 DEF Inv

\* Every action keeps the invariant, part by part.
LEMMA InvNext == Inv /\ [Next]_vars => Inv'
<1> SUFFICES ASSUME Inv, [Next]_vars PROVE Inv'
  OBVIOUS
<1> USE DEF Inv
<1>1. ASSUME UNCHANGED bounds, NEW n \in Node, StartElection(n) PROVE Inv'
  <2>1. Typed' /\ VoteInv'
    BY <1>1, StartElectionDoes, VotesStartElection
  <2>2. LogInv' /\ ChoiceInv' /\ CommitInv'
    BY <1>1, LogsOthers, ChoiceStartElection, CommitOthers
  <2> QED
    BY <2>1, <2>2
<1>2. ASSUME UNCHANGED bounds, NEW n \in Node, FinishElection(n) PROVE Inv'
  <2>1. Typed' /\ VoteInv'
    BY <1>2, FinishElectionDoes, VotesFinishElection
  <2>2. LogInv' /\ ChoiceInv' /\ CommitInv'
    BY <1>2, <2>1, LogsFinishElection, ChoiceFinishElection, CommitOthers
  <2> QED
    BY <2>1, <2>2
<1>3. ASSUME UNCHANGED bounds, NEW n \in Node, NEW cmd \in Offers[n], Propose(n, cmd)
      PROVE  Inv'
  <2>1. Typed' /\ VoteInv'
    BY <1>3, ProposeDoes, VotesOthers
  <2>2. LogInv' /\ ChoiceInv' /\ CommitInv'
    BY <1>3, LogsPropose, ChoicePropose, CommitPropose
  <2> QED
    BY <2>1, <2>2
<1>4. ASSUME UNCHANGED bounds, NEW n \in Node, FinishProposal(n) PROVE Inv'
  <2>1. Typed' /\ VoteInv'
    BY <1>4, FinishProposalDoes, VotesOthers
  <2>2. LogInv' /\ ChoiceInv' /\ CommitInv'
    BY <1>4, LogsOthers, ChoiceOthers, CommitFinishProposal
  <2> QED
    BY <2>1, <2>2
<1>5. ASSUME UNCHANGED bounds, NEW n \in Node, NEW m \in voteRequests,
             HandleVoteRequest(n, m)
      PROVE  Inv'
  <2>1. Typed' /\ VoteInv'
    BY <1>5, HandleVoteRequestDoes, VotesHandleVoteRequest
  <2>2. LogInv' /\ ChoiceInv' /\ CommitInv'
    BY <1>5, LogsOthers, ChoiceHandleVoteRequest, CommitOthers
  <2> QED
    BY <2>1, <2>2
<1>6. ASSUME UNCHANGED bounds, NEW n \in Node, NEW m \in appendRequests,
             HandleAppendEntries(n, m)
      PROVE  Inv'
  <2>1. Typed' /\ VoteInv'
    BY <1>6, HandleAppendEntriesDoes, VotesOthers
  <2>2. /\ Takes(n, m)
        /\ \/ UNCHANGED accepted
           \/ /\ node'[n].log = Merged(node[n].log, m.entries)
              /\ Accept(n, m.entries)
    BY <1>6, HandleAppendEntriesTakes
  <2>3. LogInv' /\ ChoiceInv' /\ CommitInv'
    BY <1>6, <2>2, LogsTake, ChoiceTake, CommitHandleAppendEntries
  <2> QED
    BY <2>1, <2>3
<1>7. ASSUME UNCHANGED bounds, NEW n \in Node, Restart(n) \/ CrashInTermChange(n)
      PROVE  Inv'
  <2>1. Typed' /\ VoteInv'
    BY <1>7, CrashDoes, VotesOthers
  <2>2. LogInv' /\ ChoiceInv' /\ CommitInv'
    BY <1>7, LogsOthers, ChoiceOthers, CommitOthers
  <2> QED
    BY <2>1, <2>2
<1>8. ASSUME UNCHANGED bounds, NEW n \in Node, NEW m \in appendRequests,
             CrashInAppend(n, m)
      PROVE  Inv'
  <2>1. Typed' /\ VoteInv'
    BY <1>8, CrashInAppendDoes, VotesOthers
  <2>2. Takes(n, m) /\ UNCHANGED accepted
    BY <1>8, CrashInAppendTakes
  <2>3. LogInv' /\ ChoiceInv' /\ CommitInv'
    BY <1>8, <2>2, LogsTake, ChoiceTake, CommitCrashInAppend
  <2> QED
    BY <2>1, <2>3
<1>9. ASSUME UNCHANGED vars PROVE Inv'
  <2>1. Written' = Written
    BY <1>9 DEF vars, history, Written
  <2>2. Typed'
    BY <1>9 DEF vars, history, Typed
  <2>3. VoteInv'
    BY <1>9 DEF vars, history, VoteInv, BallotsRecorded, VoteOnce, VotesGranted,
                WinnersHaveWon, LeadersHaveWon, Voters, Majority
  <2>4. LogInv'
    BY <1>9, <2>1 DEF vars, history, LogInv, WrittenIsClosed, OneLine, Ordered,
                WrittenByWinner, RequestsWritten, LogsWritten, LeaderHasAll
  <2>5. ChoiceInv'
    <3> USE <1>9, <2>1 DEF vars, history, ChoiceInv
    <3>1. \A v : Backers(v)' = Backers(v) /\ Reachable(v)' = Reachable(v)
      BY DEF Backers, Reachable
    <3>2. LaterLogsHaveIt'
      BY <3>1 DEF LaterLogsHaveIt, Majority
    <3>3. LaterLeadersHaveIt'
      BY <3>1 DEF LaterLeadersHaveIt, Majority
    <3>4. BackersKeepIt'
      BY <3>1 DEF BackersKeepIt, Majority
    <3>5. CandidatesHaveIt'
      BY <3>1 DEF CandidatesHaveIt, Majority, Voters
    <3>6. RequestIsCurrent'
      BY DEF RequestIsCurrent
    <3>7. BallotsAreAsked'
      BY DEF BallotsAreAsked
    <3>8. AcceptedIsWritten'
      BY DEF AcceptedIsWritten
    <3> QED
      BY <3>2, <3>3, <3>4, <3>5, <3>6, <3>7, <3>8
  <2>6. CommitInv'
    <3>1. /\ node' = node /\ proposal' = proposal
          /\ UNCHANGED <<appendRequests, accepted, acknowledged>>
      BY <1>9 DEF vars, history
    <3>2. Typed /\ CommitInv
      OBVIOUS
    <3> HIDE DEF Inv
    <3>3. Remembers
      BY <2>1, <3>1, <3>2, StateIs DEF Remembers
    <3>4. ASSUME NEW n \in Node, NEW log, NEW k, NEW t, log = node'[n].log,
                 k = node'[n].commit, t = node'[n].term
          PROVE  Safe(log, k, t)'
      <4>1. t \in Nat /\ t <= t /\ Safe(log, k, t)
        BY <3>1, <3>2, <3>4, StateIs DEF CommitInv, CommitIsSafe
      <4> QED
        BY <3>2, <3>3, <4>1, SafeStays
    <3>5. CommitIsSafe'
      BY <3>4 DEF CommitIsSafe, Safe
    <3>6. RequestIsSafe'
      BY <2>2, <3>1, <3>2, <3>3, RequestsNext DEF CommitInv
    <3>7. ProposalIsWritten' /\ AcknowledgedIsChosen'
      BY <3>1, <3>2, <3>3, ProposalsNext, AcknowledgedNext DEF CommitInv
    <3>8. AppliedIsLog'
      BY <3>1, <3>2 DEF CommitInv, AppliedIsLog
    <3> QED
      BY <3>5, <3>6, <3>7, <3>8 DEF CommitInv
  <2> QED
    BY <2>2, <2>3, <2>4, <2>5, <2>6
<1> HIDE DEF Inv
<1> QED
  BY <1>1, <1>2, <1>3, <1>4, <1>5, <1>6, <1>7, <1>8, <1>9 DEF Next, Calls, Crashes

\* All four layers hold in every reachable state: votes and winners, the logs
\* that winners wrote, the choice no election can undo, and what commit
\* indexes, requests and answers say of it (raft_node.cpp:57-137,
\* election_manager.cpp, log_replicator.cpp).
THEOREM Safety == Spec => []Inv
<1>1. Init => Inv
  BY InvInit
<1>2. Inv /\ [Next]_vars => Inv'
  BY InvNext
<1> QED
  BY <1>1, <1>2, PTL DEF Spec

-----------------------------------------------------------------------------
\* What the invariant says of the properties.
LEMMA LogsMatch == Typed /\ LogInv => LogMatching
<1> SUFFICES ASSUME Typed, LogInv, NEW m \in Node, NEW n \in Node,
                    NEW i \in DOMAIN node[m].log \cap DOMAIN node[n].log,
                    node[m].log[i].term = node[n].log[i].term
             PROVE  SubSeq(node[m].log, 1, i) = SubSeq(node[n].log, 1, i)
  BY DEF LogMatching
<1> DEFINE u == node[m].log
           w == node[n].log
<1>1. /\ u \in Seq(Entry) /\ Len(u) \in Nat /\ DOMAIN u = 1 .. Len(u)
      /\ w \in Seq(Entry) /\ Len(w) \in Nat /\ DOMAIN w = 1 .. Len(w)
  BY StateIs, LenProperties
<1>2. (u \in Written \/ u = <<>>) /\ (w \in Written \/ w = <<>>)
  BY DEF LogInv, LogsWritten
<1>3. Match(u, w)
  BY <1>2, WrittenMatch
<1> HIDE DEF u, w
<1>4. i \in 1 .. Len(u) /\ i <= Len(w) /\ i \in 0 .. Len(u) /\ i \in 0 .. Len(w)
  <2>1. i \in DOMAIN u /\ i \in DOMAIN w
    BY DEF u, w
  <2> QED
    BY <1>1, <2>1
<1>5. \A j \in 1 .. i : u[j] = w[j]
  BY <1>3, <1>4 DEF Match, u, w
<1>6. /\ SubSeq(u, 1, i) \in Seq(Entry) /\ Len(SubSeq(u, 1, i)) = i
      /\ SubSeq(w, 1, i) \in Seq(Entry) /\ Len(SubSeq(w, 1, i)) = i
      /\ \A j \in 1 .. i : SubSeq(u, 1, i)[j] = SubSeq(w, 1, i)[j]
  BY <1>1, <1>4, <1>5, CutIs
<1> QED
  BY <1>6, SeqEqual DEF u, w

\* What the invariant says of the properties: a leader has what is chosen,
LEMMA LeadersAreComplete == Inv => LeaderCompleteness
<1> SUFFICES ASSUME Inv, NEW a \in acknowledged, NEW n \in Node,
                    node[n].role = Leader, node[n].term >= a.entry.term
             PROVE  a.index \in DOMAIN node[n].log /\ node[n].log[a.index] = a.entry
  BY DEF LeaderCompleteness
<1> USE DEF Inv
<1>1. PICK v \in Written : /\ Majority(Backers(v)) /\ a.index = Len(v)
                           /\ a.entry = v[Len(v)]
  BY DEF CommitInv, AcknowledgedIsChosen
<1>2. /\ v \in Seq(Entry) /\ Len(v) \in Nat /\ Len(v) >= 1
      /\ LastTerm(v) \in Nat /\ LastTerm(v) = a.entry.term
      /\ node[n].log \in Seq(Entry) /\ node[n].term \in Nat
  BY <1>1, WrittenIs, StateIs
<1>3. Majority(Reachable(v))
  BY <1>1, ChosenIsReachable
<1>4. Begins(v, node[n].log)
  <2>1. CASE LastTerm(v) = node[n].term
    BY <2>1 DEF LogInv, LeaderHasAll
  <2>2. CASE LastTerm(v) < node[n].term
    BY <1>3, <2>2 DEF ChoiceInv, LaterLeadersHaveIt
  <2> QED
    BY <1>2, <2>1, <2>2
<1>5. DOMAIN node[n].log = 1 .. Len(node[n].log) /\ Len(node[n].log) \in Nat
  BY <1>2, LenProperties
<1> QED
  BY <1>1, <1>2, <1>4, <1>5 DEF Begins

\* what a client was told is in a majority's logs,
LEMMA ChoiceIsDurable == Inv => AcknowledgedIsDurable
<1> SUFFICES ASSUME Inv, NEW a \in acknowledged
             PROVE  Majority({n \in Node : /\ a.index \in DOMAIN node[n].log
                                           /\ node[n].log[a.index] = a.entry})
  BY DEF AcknowledgedIsDurable, Majority
<1> USE DEF Inv
<1> DEFINE Q == {n \in Node : /\ a.index \in DOMAIN node[n].log
                              /\ node[n].log[a.index] = a.entry}
<1>1. PICK v \in Written : /\ Majority(Backers(v)) /\ a.index = Len(v)
                           /\ a.entry = v[Len(v)]
  BY DEF CommitInv, AcknowledgedIsChosen
<1>2. v \in Seq(Entry) /\ Len(v) \in Nat /\ Len(v) >= 1
  BY <1>1, WrittenIs
<1>3. Majority(Reachable(v))
  BY <1>1, ChosenIsReachable
<1>4. ASSUME NEW q \in Backers(v) PROVE q \in Q
  <2>1. q \in Node /\ Begins(v, node[q].log)
    BY <1>3, <1>4 DEF Backers, ChoiceInv, BackersKeepIt
  <2>2. DOMAIN node[q].log = 1 .. Len(node[q].log) /\ Len(node[q].log) \in Nat
    BY <2>1, StateIs, LenProperties
  <2> QED
    BY <1>1, <1>2, <2>1, <2>2 DEF Begins
<1> DEFINE P == Backers(v)
<1>5. P \subseteq Q /\ Q \in SUBSET Node /\ Majority(P)
  BY <1>1, <1>4
<1> HIDE DEF P, Q
<1>6. Majority(Q)
  BY <1>5, MajorityGrows
<1> QED
  BY <1>6 DEF Q

\* what is applied is the committed prefix,
LEMMA AppliedIsTyped == Inv => AppliedIsCommitted
<1> SUFFICES ASSUME Inv PROVE AppliedIsCommitted
  OBVIOUS
<1> USE DEF Inv
<1>1. node \in [Node -> State] /\ \A m \in appendRequests : m.entries \in Seq(Entry)
  BY DEF Typed, AppendRequests
<1>2. ASSUME NEW n \in Node
      PROVE  campaign[n].active => /\ campaign[n].term \in Nat
                                   /\ campaign[n].votes \subseteq Node
  <2>1. campaign[n].active => campaign[n] \in Campaigns
    BY DEF Typed, Idle
  <2> QED
    BY <2>1 DEF Campaigns
<1>3. ASSUME NEW n \in Node
      PROVE  proposal[n].active => /\ proposal[n].entry \in Entry
                                   /\ proposal[n].acks \subseteq Node
  <2>1. proposal[n].active => proposal[n] \in Proposals
    BY DEF Typed, Idle
  <2> QED
    BY <2>1 DEF Proposals
<1> QED
  BY <1>1, <1>2, <1>3 DEF AppliedIsCommitted, TypeOK, CommitInv, AppliedIsLog

-----------------------------------------------------------------------------
\* Two state machines never disagree: what either shows begins what is chosen,
\* and what is chosen is on one line.
LEMMA ChosenAgree ==
  ASSUME Inv, NEW v \in Written, Majority(Backers(v)),
         NEW w \in Written, Majority(Backers(w))
  PROVE  Begins(v, w) \/ Begins(w, v)
<1>1. Typed /\ LogInv /\ LaterLogsHaveIt
  BY DEF Inv, ChoiceInv
<1>2. Majority(Reachable(v)) /\ Majority(Reachable(w))
  BY ChosenIsReachable
<1>3. LastTerm(v) <= LastTerm(w) \/ LastTerm(w) <= LastTerm(v)
  BY <1>1, WrittenIs
<1> QED
  BY <1>1, <1>2, <1>3, ReachableIsOnLine

\* of a log of which a majority backs as much,
LEMMA AppliedIs ==
  ASSUME Inv, NEW n \in Node, NEW k, k = node[n].commit
  PROVE  /\ k \in Nat /\ k <= Len(node[n].log) /\ node[n].log \in Seq(Entry)
         /\ node[n].applied = SubSeq(node[n].log, 1, k)
         /\ node[n].applied \in Seq(Entry) /\ Len(node[n].applied) = k
         /\ \A i \in 1 .. k : node[n].applied[i] = node[n].log[i]
         /\ \/ k = 0
            \/ \E v \in Written : Majority(Backers(v)) /\ Begins(node[n].applied, v)
<1> DEFINE log == node[n].log
           a == node[n].applied
<1>1. /\ k \in Nat /\ log \in Seq(Entry) /\ Len(log) \in Nat
      /\ a = SubSeq(log, 1, k) /\ Safe(log, k, node[n].term)
  BY StateIs, LenProperties DEF Inv, CommitInv, AppliedIsLog, CommitIsSafe
<1>2. k \in 0 .. Len(log)
  BY <1>1 DEF Safe
<1>3. a \in Seq(Entry) /\ Len(a) = k /\ \A i \in 1 .. k : a[i] = log[i]
  BY <1>1, <1>2, CutIs
<1>4. ASSUME k # 0
      PROVE  \E v \in Written : Majority(Backers(v)) /\ Begins(a, v)
  <2>1. PICK v \in Written : /\ Majority(Backers(v)) /\ k <= Len(v)
                             /\ \A i \in 1 .. k : log[i] = v[i]
    BY <1>1, <1>4 DEF Safe
  <2> HIDE DEF a, log
  <2>2. Begins(a, v)
    BY <1>3, <2>1 DEF Begins
  <2> QED
    BY <2>1, <2>2
<1>5. k <= Len(log)
  BY <1>1 DEF Safe
<1> HIDE DEF a, log
<1>6. /\ k \in Nat /\ k <= Len(log) /\ log \in Seq(Entry) /\ a = SubSeq(log, 1, k)
      /\ a \in Seq(Entry) /\ Len(a) = k /\ \A i \in 1 .. k : a[i] = log[i]
      /\ k = 0 \/ \E v \in Written : Majority(Backers(v)) /\ Begins(a, v)
  BY <1>1, <1>3, <1>4, <1>5
<1> QED
  BY <1>6 DEF a, log

MachinesAgree ==
  \A m, n \in Node : \/ Begins(node[m].applied, node[n].applied)
                     \/ Begins(node[n].applied, node[m].applied)

\* so that no two machines differ,
LEMMA AppliedAgree == Inv => MachinesAgree
<1> SUFFICES ASSUME Inv, NEW m \in Node, NEW n \in Node,
                    NEW a, NEW b, a = node[m].applied, b = node[n].applied
             PROVE  Begins(a, b) \/ Begins(b, a)
  BY DEF MachinesAgree
<1>1. /\ a \in Seq(Entry) /\ Len(a) \in Nat
      /\ Len(a) = 0 \/ \E v \in Written : Majority(Backers(v)) /\ Begins(a, v)
  BY AppliedIs
<1>2. /\ b \in Seq(Entry) /\ Len(b) \in Nat
      /\ Len(b) = 0 \/ \E v \in Written : Majority(Backers(v)) /\ Begins(b, v)
  BY AppliedIs
<1>3. CASE Len(a) = 0 \/ Len(b) = 0
  BY <1>1, <1>2, <1>3 DEF Begins
<1>4. CASE Len(a) # 0 /\ Len(b) # 0
  <2>1. PICK v \in Written : Majority(Backers(v)) /\ Begins(a, v)
    BY <1>1, <1>4
  <2>2. PICK w \in Written : Majority(Backers(w)) /\ Begins(b, w)
    BY <1>2, <1>4
  <2>3. v \in Seq(Entry) /\ w \in Seq(Entry)
    BY WrittenIs DEF Inv
  <2>4. PICK u \in Seq(Entry) : Begins(a, u) /\ Begins(b, u)
    BY <1>1, <1>2, <2>1, <2>2, <2>3, ChosenAgree, BeginsAgain
  <2> QED
    BY <1>1, <1>2, <2>4, BeginsAgain
<1> QED
  BY <1>3, <1>4

\* in the next state either.
LEMMA AppliedAgreeNext == Inv' => MachinesAgree'
  BY AppliedAgree, PTL

-----------------------------------------------------------------------------
\* Nothing committed is taken back: the commit index of a node never falls,
\* and no step, of a handler or of a crash, changes the log below it.
CommitGrows(q) ==
  /\ node[q].commit <= node'[q].commit
  /\ SubSeq(node'[q].log, 1, node[q].commit)
       = SubSeq(node[q].log, 1, node[q].commit)

\* No action makes a commit index fall or changes the log below it.
LEMMA CommitGrowsNext ==
  ASSUME Inv, Next, NEW q \in Node
  PROVE  CommitGrows(q)
<1> USE DEF Inv
<1>1. node[q].commit \in Nat /\ node[q].log \in Seq(Entry)
  BY StateIs
<1>2. ASSUME node'[q] = node[q] PROVE CommitGrows(q)
  BY <1>1, <1>2 DEF CommitGrows
<1>3. ASSUME KeepsLog(q) PROVE CommitGrows(q)
  BY <1>1, <1>3 DEF KeepsLog, CommitGrows
<1>4. ASSUME UNCHANGED bounds, NEW n \in Node, StartElection(n) PROVE CommitGrows(q)
  <2>1. Only(n) /\ KeepsLog(n)
    BY <1>4, StartElectionDoes
  <2> QED
    BY <1>2, <1>3, <2>1 DEF Only
<1>5. ASSUME UNCHANGED bounds, NEW n \in Node, FinishElection(n) PROVE CommitGrows(q)
  <2>1. Only(n) /\ KeepsLog(n)
    BY <1>5, FinishElectionDoes
  <2> QED
    BY <1>2, <1>3, <2>1 DEF Only
<1>6. ASSUME UNCHANGED bounds, NEW n \in Node, NEW cmd \in Offers[n], Propose(n, cmd)
      PROVE  CommitGrows(q)
  <2> DEFINE log == node[n].log
             w == node'[n].log
             c == node[n].commit
  <2>1. /\ Only(n) /\ w \in Seq(Entry) /\ Begins(log, w) /\ node'[n].commit = c
    BY <1>6, ProposeDoes
  <2>2. c \in Nat /\ log \in Seq(Entry) /\ c <= Len(log)
    BY StateIs DEF CommitInv, CommitIsSafe, Safe
  <2>3. c \in 0 .. Len(log)
    BY <2>2, LenProperties
  <2>4. SubSeq(log, 1, c) = SubSeq(w, 1, c)
    BY <2>1, <2>2, <2>3, CutBegins
  <2>5. CommitGrows(n)
    BY <2>1, <2>2, <2>4 DEF CommitGrows
  <2> QED
    BY <1>2, <2>1, <2>5 DEF Only
<1>7. ASSUME UNCHANGED bounds, NEW n \in Node, FinishProposal(n) PROVE CommitGrows(q)
  <2>1. /\ Only(n)
        /\ \/ /\ node'[n].log = node[n].log
              /\ Moved(node[n].log, node[n].commit, node[n].applied,
                       node'[n].commit, node'[n].applied, proposal[n].index)
           \/ node' = node
    BY <1>7, FinishProposalDoes
  <2>2. ASSUME q = n, node' # node PROVE CommitGrows(q)
    BY <1>1, <2>1, <2>2 DEF Moved, CommitGrows
  <2> QED
    BY <1>2, <2>1, <2>2 DEF Only
<1>8. ASSUME UNCHANGED bounds, NEW n \in Node, NEW m \in voteRequests,
             HandleVoteRequest(n, m)
      PROVE  CommitGrows(q)
  <2>1. Only(n) /\ KeepsLog(n)
    BY <1>8, HandleVoteRequestDoes
  <2> QED
    BY <1>2, <1>3, <2>1 DEF Only
<1>9. ASSUME UNCHANGED bounds, NEW n \in Node, NEW m \in appendRequests,
             HandleAppendEntries(n, m)
      PROVE  CommitGrows(q)
  <2>1. Only(n) /\ Takes(n, m)
    BY <1>9, HandleAppendEntriesTakes DEF Takes
  <2>2. \/ LET s == WithLog(Observed(node[n], m.term), node'[n].log) IN
           Moved(node'[n].log, s.commit, node[n].applied,
                 node'[n].commit, node'[n].applied, m.commit)
        \/ KeepsLog(n)
    BY <1>9, HandleAppendEntriesDoes
  <2>3. PICK c, new : c = node[n].commit /\ new = node'[n].log
    OBVIOUS
  <2>4. /\ c \in Nat /\ SubSeq(new, 1, c) = SubSeq(node[n].log, 1, c)
        /\ WithLog(Observed(node[n], m.term), new).commit = c
    BY <2>1, <2>3, CommitIsKept DEF CommitInv
  <2>5. ASSUME q = n, ~KeepsLog(n) PROVE CommitGrows(q)
    BY <2>2, <2>3, <2>4, <2>5 DEF Moved, CommitGrows
  <2> QED
    BY <1>2, <1>3, <2>1, <2>5 DEF Only
<1>10. ASSUME UNCHANGED bounds, NEW n \in Node, Restart(n) \/ CrashInTermChange(n)
       PROVE  CommitGrows(q)
  <2>1. Only(n) /\ node'[n].log = node[n].log /\ node'[n].commit = node[n].commit
    BY <1>10, CrashDoes
  <2>2. ASSUME q = n PROVE CommitGrows(q)
    BY <1>1, <2>1, <2>2 DEF CommitGrows
  <2> QED
    BY <1>2, <2>1, <2>2 DEF Only
<1>11. ASSUME UNCHANGED bounds, NEW n \in Node, NEW m \in appendRequests,
              CrashInAppend(n, m)
       PROVE  CommitGrows(q)
  <2>1. Only(n) /\ Takes(n, m)
    BY <1>11, CrashInAppendTakes DEF Takes
  <2>2. node'[n].commit = WithLog(Observed(node[n], m.term), node'[n].log).commit
    BY <1>11, CrashInAppendDoes
  <2>3. PICK c, new : c = node[n].commit /\ new = node'[n].log
    OBVIOUS
  <2>4. /\ c \in Nat /\ SubSeq(new, 1, c) = SubSeq(node[n].log, 1, c)
        /\ WithLog(Observed(node[n], m.term), new).commit = c
    BY <2>1, <2>3, CommitIsKept DEF CommitInv
  <2>5. ASSUME q = n PROVE CommitGrows(q)
    BY <2>2, <2>3, <2>4, <2>5 DEF CommitGrows
  <2> QED
    BY <1>2, <2>1, <2>5 DEF Only
<1> HIDE DEF Inv
<1> QED
  BY <1>4, <1>5, <1>6, <1>7, <1>8, <1>9, <1>10, <1>11 DEF Next, Calls, Crashes

\* What a machine has applied begins what it has applied later.
LEMMA AppliedGrows ==
  ASSUME Inv, Inv', Next, NEW q \in Node
  PROVE  Begins(node[q].applied, node'[q].applied)
<1> DEFINE c == node[q].commit
           d == node'[q].commit
           a == node[q].applied
           b == node'[q].applied
           log == node[q].log
           new == node'[q].log
<1>1. /\ c \in Nat /\ c <= Len(log) /\ log \in Seq(Entry) /\ a = SubSeq(log, 1, c)
      /\ Len(a) = c /\ \A i \in 1 .. c : a[i] = log[i]
  BY AppliedIs
<1>2. /\ d \in Nat /\ d <= Len(new) /\ new \in Seq(Entry) /\ b = SubSeq(new, 1, d)
  <2>1. d \in Nat /\ new \in Seq(Entry)
    BY DEF Inv, Typed, State
  <2> QED
    BY <2>1 DEF Inv, CommitInv, AppliedIsLog, CommitIsSafe, Safe
<1>3. c <= d /\ SubSeq(new, 1, c) = a
  BY <1>1, CommitGrowsNext DEF CommitGrows
<1> HIDE DEF a, b, c, d, log, new
<1>4. Len(new) \in Nat
  BY <1>2, LenProperties
<1>5. d \in 0 .. Len(new) /\ c \in 0 .. Len(new)
  BY <1>1, <1>2, <1>3, <1>4
<1>6. /\ Len(b) = d /\ \A i \in 1 .. d : b[i] = new[i]
      /\ \A i \in 1 .. c : a[i] = new[i]
  BY <1>2, <1>3, <1>5, CutIs
<1>7. \A i \in 1 .. c : b[i] = a[i]
  BY <1>1, <1>2, <1>3, <1>6
<1>8. Begins(a, b)
  BY <1>1, <1>3, <1>6, <1>7 DEF Begins
<1> QED
  BY <1>8 DEF a, b

-----------------------------------------------------------------------------
\* ReplicatedLog.  Every step of the cluster gives the state machines more of
\* one sequence, or nothing.
LEMMA BeginsIsPrefix ==
  ASSUME NEW u \in Seq(Entry), NEW w \in Seq(Entry), Begins(u, w)
  PROVE  Abstract!IsPrefix(u, w)
<1>1. Len(u) \in Nat /\ Len(u) \in 0 .. Len(u)
  BY LenProperties
<1>2. SubSeq(u, 1, Len(u)) = SubSeq(w, 1, Len(u))
  BY <1>1, CutBegins
<1> QED
  BY <1>2 DEF Begins, Abstract!IsPrefix

Learned == [n \in Node |-> node[n].applied]

\* Nothing is learned at the start, as ReplicatedLog has it.
LEMMA LearnedInit == Init => Abstract!LInit
<1> SUFFICES ASSUME Init PROVE Learned = [n \in Node |-> <<>>]
  BY DEF Abstract!LInit, Learned
<1> QED
  BY DEF Init, Initial, Learned

\* Every step is a step of ReplicatedLog, or none.
LEMMA LearnedNext ==
  Inv /\ Inv' /\ [Next]_vars => [Abstract!Quiet \/ Abstract!Learn]_Learned
<1> SUFFICES ASSUME Inv, Inv', [Next]_vars
             PROVE  Abstract!Quiet \/ Abstract!Learn
  BY DEF Learned
<1>1. CASE UNCHANGED vars
  BY <1>1 DEF vars, Abstract!Quiet
<1>2. CASE Next
  <2>1. ASSUME NEW n \in Node
        PROVE  /\ Abstract!IsPrefix(Learned[n], Learned'[n])
               /\ Learned[n] \in Seq(Entry) /\ Learned'[n] \in Seq(Entry)
    <3>1. node[n].applied \in Seq(Entry) /\ node'[n].applied \in Seq(Entry)
      BY DEF Inv, Typed, State
    <3>2. Begins(node[n].applied, node'[n].applied)
      BY <1>2, AppliedGrows
    <3> QED
      BY <3>1, <3>2, BeginsIsPrefix DEF Learned
  <2>2. ASSUME NEW m \in Node, NEW n \in Node
        PROVE  \/ Abstract!IsPrefix(Learned'[m], Learned'[n])
               \/ Abstract!IsPrefix(Learned'[n], Learned'[m])
    <3>1. \/ Begins(Learned'[m], Learned'[n])
          \/ Begins(Learned'[n], Learned'[m])
      BY AppliedAgreeNext DEF MachinesAgree, Learned
    <3> QED
      BY <2>1, <3>1, BeginsIsPrefix
  <2> QED
    BY <2>1, <2>2 DEF Abstract!Learn, Learned
<1> QED
  BY <1>1, <1>2

-----------------------------------------------------------------------------
\* A state machine shows exactly the committed part of its node's log, through
\* truncations and restarts (commit_manager.cpp:18,28,52-53); with the types.
THEOREM AppliedStaysCommitted == Spec => []AppliedIsCommitted
  BY Safety, AppliedIsTyped, PTL

\* Logs that hold an entry of the same index and term are equal up to it, so
\* comparing terms alone, as the merge loop does, never keeps a wrong command
\* (log_replicator.cpp:16).
THEOREM LogsStayMatched == Spec => []LogMatching
<1>1. Inv => LogMatching
  BY LogsMatch DEF Inv
<1> QED
  BY <1>1, Safety, PTL

\* What a client was told is committed is in the log of every leader of that
\* term or a later one (raft_node.cpp:113).
THEOREM LeadersStayComplete == Spec => []LeaderCompleteness
  BY Safety, LeadersAreComplete, PTL

\* What a client was told is committed stays on the disks of a majority,
\* whatever is cut, deposed or restarted (raft_node.cpp:105-113).
THEOREM AcknowledgedStaysDurable == Spec => []AcknowledgedIsDurable
  BY Safety, ChoiceIsDurable, PTL

\* No step lowers a commit index, or changes a log below it
\* (commit_manager.cpp:18, log_store.cpp:206).
THEOREM CommitNeverFalls == Spec => [][\A q \in Node : CommitGrows(q)]_vars
<1>1. Inv /\ [Next]_vars => [\A q \in Node : CommitGrows(q)]_vars
  BY CommitGrowsNext
<1> QED
  BY <1>1, Safety, PTL DEF Spec

\* The cluster implements ReplicatedLog: clients of all nodes see one growing
\* sequence of commands.
THEOREM Refinement == Spec => ImplementsReplicatedLog
<1>1. Spec => Abstract!LInit
  BY LearnedInit DEF Spec
<1>2. Inv /\ Inv' /\ [Next]_vars => [Abstract!Quiet \/ Abstract!Learn]_Learned
  BY LearnedNext
<1>3. Spec => [][Abstract!Quiet \/ Abstract!Learn]_Learned
  BY <1>2, Safety, PTL DEF Spec
<1> QED
  BY <1>1, <1>3, PTL DEF ImplementsReplicatedLog, Abstract!LSpec, Learned

-----------------------------------------------------------------------------
(* One winner per term in RaftThreads *)

\* The gaps that let two nodes win one term: two elections on one node, a vote
\* that is not saved, and a disk that is lost.
VoteGaps == {"election", "save", "rename"}

\* Types of what the threads hold; no second election is under way.
ThreadsTyped ==
  /\ inHand \in [Node -> {Idle} \cup [active : {TRUE}, request : AppendRequests]]
  /\ draft \in [Node -> {Idle} \cup [active : {TRUE}, cmd : Command, index : Nat]]
  /\ earlier \in [Node -> {Idle} \cup Proposals]
  /\ older = [n \in Node |-> Idle]

\* The disk may lag behind the memory in terms and entries, never in a vote:
\* the term of a node that has voted, campaigns or leads is on its disk, with
\* the vote, and so is every vote that was ever given.
TermOnDisk(n) == /\ disk[n].term <= node[n].term
                 /\ node[n].vote # None \/ node[n].role # Follower
                      => disk[n].term = node[n].term /\ disk[n].vote = node[n].vote

VotesOnDisk ==
  /\ disk \in [Node -> State]
  /\ \A n \in Node : TermOnDisk(n)
  /\ \A b \in ballots : /\ b.term <= disk[b.voter].term
                        /\ b.term = disk[b.voter].term => disk[b.voter].vote = b.cand
  /\ \A e \in elected : e.term <= disk[e.leader].term

ThreadsInv == /\ Typed /\ VoteInv /\ ThreadsTyped /\ VotesOnDisk
              /\ gap \notin VoteGaps

\* What is durable of a node.
LEMMA DurableIs ==
  ASSUME NEW s \in State
  PROVE  /\ Durable(s) \in State
         /\ Durable(s).term = s.term /\ Durable(s).vote = s.vote
<1> DEFINE f == [s EXCEPT !.role = Follower]
           d == [f EXCEPT !.applied = <<>>]
<1>1. f \in State /\ f.term = s.term /\ f.vote = s.vote
  BY DEF State
<1> HIDE DEF f
<1>2. d \in State /\ d.term = s.term /\ d.vote = s.vote
  BY <1>1, EmptySeq DEF State
<1>3. Durable(s) = d
  BY DEF Durable, f
<1> QED
  BY <1>2, <1>3

\* A step that enters a role or gives a vote only in a term that is on the
\* disk already or is new to the node.
Votes ==
  /\ \A q \in Node : node'[q].role # Follower =>
       node[q].role # Follower \/ node'[q].term > node[q].term
  /\ \A b \in ballots' \ ballots : b.term = node'[b.voter].term
  /\ \A e \in elected' \ elected : /\ e.term = node'[e.leader].term
                                   /\ node[e.leader].role # Follower

\* When every change is saved, the votes stay on the disks.
LEMMA SavedVotes ==
  ASSUME Typed, Typed', VoteInv', VotesOnDisk, Saved, Votes
  PROVE  VotesOnDisk'
<1>1. ASSUME NEW q \in Node
      PROVE  \/ /\ disk'[q] = disk[q]
                /\ node'[q].term = node[q].term /\ node'[q].vote = node[q].vote
             \/ disk'[q].term = node'[q].term /\ disk'[q].vote = node'[q].vote
  <2>1. node[q] \in State /\ node'[q] \in State
    BY DEF Typed
  <2>2. disk'[q] = IF Durable(node'[q]) = Durable(node[q]) THEN disk[q]
                   ELSE Durable(node'[q])
    BY DEF Saved
  <2>3. /\ Durable(node[q]).term = node[q].term
        /\ Durable(node[q]).vote = node[q].vote
        /\ Durable(node'[q]).term = node'[q].term
        /\ Durable(node'[q]).vote = node'[q].vote
    BY <2>1, DurableIs
  <2> QED
    BY <2>2, <2>3
<1>2. ASSUME NEW q \in Node
      PROVE  /\ disk[q].term \in Nat /\ node[q].term \in Nat /\ node'[q].term \in Nat
             /\ TermOnDisk(q)
  BY DEF VotesOnDisk, Typed, State
<1>3. disk' \in [Node -> State]
  <2>1. \A q \in Node : Durable(node'[q]) \in State
    BY DurableIs DEF Typed
  <2> QED
    BY <2>1 DEF Saved, VotesOnDisk
<1>4. ASSUME NEW q \in Node PROVE TermOnDisk(q)'
  BY <1>1, <1>2 DEF TermOnDisk, Votes
<1>5. ASSUME NEW b \in ballots'
      PROVE  /\ b.term <= disk'[b.voter].term
             /\ b.term = disk'[b.voter].term => disk'[b.voter].vote = b.cand
  <2>1. /\ b.voter \in Node /\ b.term \in Nat /\ b.cand \in Node
        /\ b.term <= node'[b.voter].term
        /\ b.term = node'[b.voter].term => node'[b.voter].vote = b.cand
    BY DEF VoteInv, BallotsRecorded
  <2>2. CASE b \in ballots
    BY <1>1, <2>1, <2>2 DEF VotesOnDisk
  <2>3. CASE b \notin ballots
    <3>1. b.term = node'[b.voter].term /\ b.cand # None
      BY <2>1, <2>3, LocalAssumption DEF Votes
    <3> QED
      BY <1>1, <1>2, <2>1, <3>1 DEF TermOnDisk
  <2> QED
    BY <2>2, <2>3
<1>6. ASSUME NEW e \in elected' PROVE e.term <= disk'[e.leader].term
  <2>1. /\ e.leader \in Node /\ e.term \in Nat /\ e.term <= node'[e.leader].term
    BY DEF VoteInv, WinnersHaveWon
  <2>2. CASE e \in elected
    BY <1>1, <2>1, <2>2 DEF VotesOnDisk
  <2>3. CASE e \notin elected
    <3>1. e.term = node'[e.leader].term /\ node[e.leader].role # Follower
      BY <2>3 DEF Votes
    <3> QED
      BY <1>1, <1>2, <2>1, <3>1 DEF TermOnDisk
  <2> QED
    BY <2>2, <2>3
<1> QED
  BY <1>3, <1>4, <1>5, <1>6 DEF VotesOnDisk

\* A step of a thread that gives no vote keeps the order of the votes, and
\* their record if it is saved.
LEMMA ThreadSubsides ==
  ASSUME Typed, Typed', VoteInv, VotesOnDisk, NEW n \in Node, Only(n),
         node'[n].term >= node[n].term,
         node'[n].term = node[n].term => node'[n].vote = node[n].vote,
         node'[n].role # Follower => /\ node'[n].role = node[n].role
                                     /\ node'[n].term = node[n].term,
         UNCHANGED <<campaign, ballots, elected>>
  PROVE  VoteInv' /\ (Saved => VotesOnDisk')
<1>1. Subsides
  BY SubsidesIs
<1>2. VoteInv'
  BY <1>1, VotesSubside
<1>3. Votes
  BY <1>1 DEF Subsides, Votes
<1> QED
  BY <1>2, <1>3, SavedVotes

-----------------------------------------------------------------------------
\* A call that nothing interrupts.
LEMMA ThreadsCall ==
  ASSUME ThreadsInv, Calls, Saved, UNCHANGED threads, UNCHANGED <<bounds, gap>>
  PROVE  ThreadsInv'
<1>0. Typed /\ VoteInv /\ ThreadsTyped /\ VotesOnDisk /\ gap \notin VoteGaps
  BY DEF ThreadsInv
<1>1. ThreadsTyped' /\ gap' \notin VoteGaps
  BY <1>0 DEF ThreadsTyped, threads
<1>2. ASSUME NEW n \in Node, StartElection(n) PROVE ThreadsInv'
  <2>0. PICK t \in Nat : t = node[n].term + 1
    BY <1>0, StateIs
  <2>1. /\ Typed' /\ Only(n) /\ node'[n].term = t /\ Grant(n, t, n)
        /\ UNCHANGED elected
    BY <1>0, <1>2, <2>0, StartElectionDoes
  <2>2. VoteInv'
    BY <1>0, <1>2, VotesStartElection
  <2>3. \A b \in ballots' \ ballots : b.voter = n /\ b.term = t
    BY <2>1 DEF Grant
  <2>4. Votes
    BY <1>0, <2>0, <2>1, <2>3, StateIs DEF Votes, Only
  <2> QED
    BY <1>0, <1>1, <2>1, <2>2, <2>4, SavedVotes DEF ThreadsInv
<1>3. ASSUME NEW n \in Node, NEW m \in voteRequests, HandleVoteRequest(n, m)
      PROVE  ThreadsInv'
  <2>1. /\ Typed' /\ Only(n)
        /\ m.term > node[n].term => node'[n].term = m.term /\ node'[n].role = Follower
        /\ ~(m.term > node[n].term) => /\ node'[n].term = node[n].term
                                       /\ node'[n].role = node[n].role
        /\ \/ Grant(n, m.term, m.cand) /\ node'[n].term = m.term
           \/ UNCHANGED ballots
        /\ UNCHANGED elected
    BY <1>0, <1>3, HandleVoteRequestDoes
  <2>2. VoteInv'
    BY <1>0, <1>3, VotesHandleVoteRequest
  <2>3. \A b \in ballots' \ ballots : b.voter = n /\ b.term = node'[n].term
    BY <2>1 DEF Grant
  <2>4. Votes
    BY <2>1, <2>3 DEF Votes, Only
  <2> QED
    BY <1>0, <1>1, <2>1, <2>2, <2>4, SavedVotes DEF ThreadsInv
<1>4. ASSUME NEW n \in Node, FinishElection(n) PROVE ThreadsInv'
  <2>1. /\ Typed' /\ Only(n)
        /\ \/ /\ node[n].role = Candidate
              /\ node'[n].term = node[n].term
              /\ elected' = elected \cup {[term |-> node[n].term, leader |-> n]}
           \/ /\ UNCHANGED elected
              /\ node'[n].role # Follower => node'[n] = node[n]
        /\ UNCHANGED ballots
    BY <1>0, <1>4, FinishElectionDoes
  <2>2. VoteInv'
    BY <1>0, <1>4, VotesFinishElection
  <2>3. Votes
    BY <2>1 DEF Votes, Only, Candidate, Follower
  <2> QED
    BY <1>0, <1>1, <2>1, <2>2, <2>3, SavedVotes DEF ThreadsInv
<1>5. ASSUME NEW n \in Node, NEW cmd \in Offers[n], Propose(n, cmd) PROVE ThreadsInv'
  <2>1. /\ Typed' /\ Only(n)
        /\ node'[n].term = node[n].term /\ node'[n].vote = node[n].vote
        /\ node'[n].role = node[n].role
        /\ UNCHANGED <<campaign, ballots, elected>>
    BY <1>0, <1>5, ProposeDoes
  <2> QED
    BY <1>0, <1>1, <2>1, StateIs, ThreadSubsides DEF ThreadsInv
<1>6. ASSUME NEW n \in Node, FinishProposal(n) PROVE ThreadsInv'
  <2>1. /\ Typed' /\ Only(n)
        /\ node'[n].term = node[n].term /\ node'[n].vote = node[n].vote
        /\ node'[n].role = node[n].role
        /\ UNCHANGED <<campaign, ballots, elected>>
    BY <1>0, <1>6, FinishProposalDoes
  <2> QED
    BY <1>0, <1>1, <2>1, StateIs, ThreadSubsides DEF ThreadsInv
<1>7. ASSUME NEW n \in Node, NEW m \in appendRequests, HandleAppendEntries(n, m)
      PROVE  ThreadsInv'
  <2>1. /\ Typed' /\ Only(n)
        /\ node[n].term <= m.term
        /\ node'[n].term = m.term /\ node'[n].role = Follower
        /\ m.term = node[n].term => node'[n].vote = node[n].vote
        /\ m \in AppendRequests
        /\ UNCHANGED <<campaign, ballots, elected>>
    BY <1>0, <1>7, HandleAppendEntriesDoes
  <2>2. node'[n].term >= node[n].term
    BY <1>0, <2>1, StateIs DEF AppendRequests
  <2> QED
    BY <1>0, <1>1, <2>1, <2>2, ThreadSubsides DEF ThreadsInv
<1> QED
  BY <1>2, <1>3, <1>4, <1>5, <1>6, <1>7 DEF Calls

\* The first half of HandleAppendEntries, and its second half.
LEMMA ThreadsAppend ==
  ASSUME ThreadsInv, UNCHANGED <<bounds, gap>>, NEW n \in Node,
         \/ \E m \in appendRequests : PassObserveLeader(n, m)
         \/ FinishAppend(n)
  PROVE  ThreadsInv'
<1>0. Typed /\ VoteInv /\ ThreadsTyped /\ VotesOnDisk /\ gap \notin VoteGaps
  BY DEF ThreadsInv
<1>1. ASSUME NEW m \in appendRequests, PassObserveLeader(n, m) PROVE ThreadsInv'
  <2> DEFINE o == Observed(node[n], m.term)
  <2>1. m \in AppendRequests /\ m.term \in Nat /\ m.term >= node[n].term
    BY <1>0, <1>1 DEF PassObserveLeader, Typed, AppendRequests
  <2>2. /\ o \in State /\ o.role = Follower /\ o.term >= node[n].term
        /\ o.term = node[n].term => o.vote = node[n].vote
    <3>1. /\ o \in State /\ o.role = Follower
          /\ m.term > node[n].term => o.term = m.term
          /\ ~(m.term > node[n].term) => o.term = node[n].term /\ o.vote = node[n].vote
      BY <1>0, <2>1, StateIs, ObservedIs
    <3> HIDE DEF o
    <3> QED
      BY <1>0, <2>1, <3>1, StateIs
  <2>3. Become(n, o)
    BY <1>1 DEF PassObserveLeader
  <2> HIDE DEF o
  <2>4. Only(n) /\ node'[n] = o /\ node' \in [Node -> State]
    BY <1>0, <2>2, <2>3, BecomeIs
  <2>5. Typed' /\ UNCHANGED <<campaign, ballots, elected>>
    BY <1>0, <1>1, <2>4 DEF PassObserveLeader, Typed, history
  <2>6. ThreadsTyped'
    BY <1>0, <1>1, <2>1 DEF PassObserveLeader, ThreadsTyped
  <2> QED
    BY <1>0, <1>1, <2>2, <2>4, <2>5, <2>6, ThreadSubsides
    DEF ThreadsInv, PassObserveLeader
<1>2. CASE FinishAppend(n)
  <2> DEFINE m == inHand[n].request
  <2>1. m \in AppendRequests
    <3>1. inHand[n] \in {Idle} \cup [active : {TRUE}, request : AppendRequests]
      BY <1>0 DEF ThreadsTyped
    <3>2. inHand[n].active
      BY <1>2 DEF FinishAppend
    <3>3. inHand[n] # Idle
      BY <3>2 DEF Idle
    <3> QED
      BY <3>1, <3>3
  <2>2. AppendFromLeader(n, node[n], m)
    BY <1>2 DEF FinishAppend
  <2> HIDE DEF m
  <2>3. /\ Typed' /\ Only(n)
        /\ node'[n].term = node[n].term /\ node'[n].vote = node[n].vote
        /\ node'[n].role = node[n].role
        /\ UNCHANGED <<campaign, ballots, elected>>
    BY <1>0, <2>1, <2>2, StateIs, AppendFromLeaderDoes
  <2>4. ThreadsTyped'
    BY <1>0, <1>2 DEF FinishAppend, ThreadsTyped
  <2> QED
    BY <1>0, <1>2, <2>3, <2>4, StateIs, ThreadSubsides DEF ThreadsInv, FinishAppend
<1> QED
  BY <1>1, <1>2

\* A proposal that has been interrupted, or runs beside another.
LEMMA ThreadsPropose ==
  ASSUME ThreadsInv, UNCHANGED <<bounds, gap>>, NEW n \in Node,
         \/ AppendDraft(n) \/ FinishEarlier(n)
         \/ \E cmd \in Offers[n] : ReadIndex(n, cmd) \/ ProposeBeside(n, cmd)
         \/ \E m \in appendRequests : AnswerEarlier(n, m)
  PROVE  ThreadsInv'
<1>0. Typed /\ VoteInv /\ ThreadsTyped /\ VotesOnDisk /\ gap \notin VoteGaps
  BY DEF ThreadsInv
<1>a. ASSUME UNCHANGED <<vars, disk>> PROVE (Typed /\ VoteInv /\ VotesOnDisk)'
  BY <1>0, <1>a DEF vars, history, Typed, VoteInv, BallotsRecorded, VoteOnce,
     VotesGranted, Voters, WinnersHaveWon, LeadersHaveWon, Majority, VotesOnDisk, TermOnDisk
<1>1. ASSUME NEW cmd \in Offers[n], ReadIndex(n, cmd) PROVE ThreadsInv'
  <2>1. cmd \in Command /\ LastIndex(node[n].log) + 1 \in Nat
    BY <1>0, SerialAssumption, StateIs, LenProperties DEF LastIndex
  <2>2. ThreadsTyped'
    BY <1>0, <1>1, <2>1 DEF ReadIndex, ThreadsTyped
  <2> QED
    BY <1>0, <1>1, <1>a, <2>2 DEF ReadIndex, ThreadsInv
<1>2. CASE AppendDraft(n)
  <2>1. ThreadsTyped'
    BY <1>0, <1>2 DEF AppendDraft, ThreadsTyped
  <2>2. CASE UNCHANGED <<vars, disk>>
    BY <1>0, <1>a, <2>1, <2>2 DEF ThreadsInv
  <2>3. CASE Replicate(n, draft[n].cmd) /\ Saved
    <3>1. draft[n].cmd \in Command
      <4>1. draft[n] \in {Idle} \cup [active : {TRUE}, cmd : Command, index : Nat]
        BY <1>0 DEF ThreadsTyped
      <4>2. draft[n].active
        BY <1>2 DEF AppendDraft
      <4>3. draft[n] # Idle
        BY <4>2 DEF Idle
      <4> QED
        BY <4>1, <4>3
    <3>2. /\ Typed' /\ Only(n)
          /\ node'[n].term = node[n].term /\ node'[n].vote = node[n].vote
          /\ node'[n].role = node[n].role
          /\ UNCHANGED <<campaign, ballots, elected>>
      BY <1>0, <2>3, <3>1, ReplicateDoes
    <3> QED
      BY <1>0, <2>1, <2>3, <3>2, StateIs, ThreadSubsides DEF ThreadsInv
  <2> QED
    BY <1>2, <2>2, <2>3 DEF AppendDraft
<1>3. ASSUME NEW cmd \in Offers[n], ProposeBeside(n, cmd) PROVE ThreadsInv'
  <2>1. cmd \in Command /\ proposal[n] \in Proposals
    BY <1>0, <1>3, SerialAssumption DEF ProposeBeside, Typed, Idle
  <2>2. /\ Typed' /\ Only(n)
        /\ node'[n].term = node[n].term /\ node'[n].vote = node[n].vote
        /\ node'[n].role = node[n].role
        /\ UNCHANGED <<campaign, ballots, elected>>
    BY <1>0, <1>3, <2>1, ReplicateDoes DEF ProposeBeside
  <2>3. ThreadsTyped'
    BY <1>0, <1>3, <2>1 DEF ProposeBeside, ThreadsTyped
  <2> QED
    BY <1>0, <1>3, <2>2, <2>3, StateIs, ThreadSubsides DEF ThreadsInv, ProposeBeside
<1>4. ASSUME NEW m \in appendRequests, AnswerEarlier(n, m) PROVE ThreadsInv'
  <2>1. /\ Typed' /\ Only(n)
        /\ node[n].term <= m.term
        /\ node'[n].term = m.term /\ node'[n].role = Follower
        /\ m.term = node[n].term => node'[n].vote = node[n].vote
        /\ m \in AppendRequests
        /\ UNCHANGED <<campaign, ballots, elected>>
    BY <1>0, <1>4, HandleAppendEntriesDoes DEF AnswerEarlier
  <2>2. node'[n].term >= node[n].term
    BY <1>0, <2>1, StateIs DEF AppendRequests
  <2>3. ThreadsTyped'
    <3> DEFINE c == earlier[m.leader]
               d == [c EXCEPT !.acks = @ \cup {n}]
    <3>1. m.leader \in Node /\ c \in Proposals
      BY <1>0, <1>4, <2>1 DEF AnswerEarlier, AppendRequests, ThreadsTyped, Idle
    <3>2. d \in Proposals
      BY <3>1 DEF Proposals
    <3>3. earlier' = [earlier EXCEPT ![m.leader] = d]
      BY <1>4 DEF AnswerEarlier
    <3> HIDE DEF d
    <3> QED
      BY <1>0, <1>4, <3>2, <3>3 DEF AnswerEarlier, ThreadsTyped
  <2> QED
    BY <1>0, <1>4, <2>1, <2>2, <2>3, ThreadSubsides DEF ThreadsInv, AnswerEarlier
<1>5. CASE FinishEarlier(n)
  <2>1. /\ earlier[n] \in Proposals /\ CountAcks(n, earlier[n])
        /\ proposal' \in [Node -> {Idle} \cup Proposals]
    BY <1>0, <1>5 DEF FinishEarlier, ThreadsTyped, Typed, Idle
  <2>2. /\ Typed' /\ Only(n)
        /\ node'[n].term = node[n].term /\ node'[n].vote = node[n].vote
        /\ node'[n].role = node[n].role
        /\ UNCHANGED <<campaign, ballots, elected>>
    BY <1>0, <2>1, CountAcksDoes
  <2>3. ThreadsTyped'
    BY <1>0, <1>5 DEF FinishEarlier, ThreadsTyped
  <2> QED
    BY <1>0, <1>5, <2>2, <2>3, StateIs, ThreadSubsides DEF ThreadsInv, FinishEarlier
<1> QED
  BY <1>1, <1>2, <1>3, <1>4, <1>5

\* A request whose entries are not saved: the node may be in a newer term than
\* its disk, but has then not voted in it.
LEMMA ThreadsUnsaved ==
  ASSUME ThreadsInv, UNCHANGED <<bounds, gap>>, NEW n \in Node,
         NEW m \in appendRequests, AppendUnsaved(n, m)
  PROVE  ThreadsInv'
<1> DEFINE o == Observed(node[n], m.term)
           log == FirstChange(o.log, m.entries)
           s == WithLog(o, log)
<1>0. Typed /\ VoteInv /\ ThreadsTyped /\ VotesOnDisk /\ gap \notin VoteGaps
  BY DEF ThreadsInv
<1>1. /\ m \in AppendRequests /\ m.term \in Nat /\ m.term >= node[n].term
      /\ m.entries \in Seq(Entry)
  BY <1>0 DEF AppendUnsaved, Typed, AppendRequests
<1>2. /\ o \in State /\ o.role = Follower /\ o.term >= node[n].term
      /\ o.term = node[n].term => o.vote = node[n].vote
      /\ o.term > node[n].term => o.vote = None
      /\ o.log \in Seq(Entry)
  <2>1. /\ o \in State /\ o.role = Follower
        /\ m.term > node[n].term => o.term = m.term /\ o.vote = None
        /\ ~(m.term > node[n].term) => o.term = node[n].term /\ o.vote = node[n].vote
    BY <1>0, <1>1, StateIs, ObservedIs
  <2> HIDE DEF o
  <2> QED
    BY <1>0, <1>1, <2>1, StateIs DEF State
<1>3. /\ Become(n, s) /\ Merged(o.log, m.entries) # o.log
      /\ appendRequests' = appendRequests \ {m}
      /\ UNCHANGED <<campaign, proposal, voteRequests, ballots, elected, disk>>
      /\ UNCHANGED threads
  BY DEF AppendUnsaved, history
<1> HIDE DEF o
<1>4. log \in Seq(Entry)
  <2> DEFINE i == FirstConflict(o.log, m.entries)
  <2>1. i \in 1 .. Len(o.log) + 1 /\ i \in 1 .. Len(m.entries) + 1
    BY <1>1, <1>2, FirstConflictIs
  <2>2. i <= Len(m.entries)
    BY <1>1, <1>2, <1>3, <2>1, LenProperties DEF Merged
  <2>3. log = IF i <= Len(o.log) THEN SubSeq(o.log, 1, i - 1)
              ELSE Append(o.log, m.entries[i])
    BY DEF FirstChange
  <2> HIDE DEF i, log
  <2>4. CASE i <= Len(o.log)
    <3>1. i - 1 \in 0 .. Len(o.log)
      BY <1>2, <2>1, LenProperties
    <3> QED
      BY <1>2, <2>3, <2>4, <3>1, CutIs
  <2>5. CASE ~(i <= Len(o.log))
    <3>1. m.entries[i] \in Entry
      BY <1>1, <2>1, <2>2, ElementOfSeq, LenProperties
    <3> QED
      BY <1>2, <2>3, <2>5, <3>1, AppendProperties
  <2> QED
    BY <2>4, <2>5
<1> HIDE DEF log
<1>5. s \in State /\ s.term = o.term /\ s.vote = o.vote /\ s.role = o.role
  BY <1>2, <1>4, WithLogIs
<1> HIDE DEF s
<1>6. Only(n) /\ node'[n] = s /\ node' \in [Node -> State]
  BY <1>0, <1>3, <1>5, BecomeIs
<1>7. Typed'
  BY <1>0, <1>3, <1>6 DEF Typed
<1>8. VoteInv'
  BY <1>0, <1>2, <1>3, <1>5, <1>6, <1>7, ThreadSubsides
<1>9. ThreadsTyped'
  BY <1>0, <1>3 DEF ThreadsTyped, threads
<1>10. VotesOnDisk'
  <2>1. ASSUME NEW q \in Node PROVE TermOnDisk(q)'
    <3>1. /\ disk[q].term \in Nat /\ node[q].term \in Nat /\ node'[q].term \in Nat
          /\ TermOnDisk(q)
      BY <1>0, <1>7 DEF VotesOnDisk, Typed, State
    <3>2. CASE q = n
      BY <1>2, <1>3, <1>5, <1>6, <3>1, <3>2 DEF TermOnDisk
    <3>3. CASE q # n
      BY <1>3, <1>6, <3>1, <3>3 DEF TermOnDisk, Only
    <3> QED
      BY <3>2, <3>3
  <2> QED
    BY <1>0, <1>3, <2>1 DEF VotesOnDisk
<1> QED
  BY <1>0, <1>7, <1>8, <1>9, <1>10 DEF ThreadsInv

\* A restart forgets what was not saved, which is no vote.
LEMMA ThreadsRestart ==
  ASSUME ThreadsInv, UNCHANGED <<bounds, gap>>, NEW n \in Node, RestartFromDisk(n)
  PROVE  ThreadsInv'
<1>0. Typed /\ VoteInv /\ ThreadsTyped /\ VotesOnDisk /\ gap \notin VoteGaps
  BY DEF ThreadsInv
<1>1. disk[n] \in State /\ RestartWith(n, disk[n]) /\ disk' = disk
  BY <1>0 DEF VotesOnDisk, RestartFromDisk, RestartFrom
<1>2. /\ Typed' /\ Only(n)
      /\ node'[n].term = disk[n].term /\ node'[n].vote = disk[n].vote
      /\ node'[n].role = Follower
      /\ campaign' = [campaign EXCEPT ![n] = Idle]
      /\ UNCHANGED <<ballots, elected>>
  BY <1>0, <1>1, RestartDoes
<1>3. BallotsRecorded'
  BY <1>0, <1>2 DEF VoteInv, BallotsRecorded, VotesOnDisk, Only
<1>4. VoteOnce'
  BY <1>0, <1>2 DEF VoteInv, VoteOnce
<1>5. VotesGranted'
  <2> SUFFICES ASSUME NEW q \in Node, campaign'[q].active,
                      NEW u, campaign'[q].term = u
               PROVE  /\ campaign'[q].votes \subseteq Voters(u, q)'
                      /\ node'[q].role = Candidate => u = node'[q].term
    BY DEF VotesGranted, Voters
  <2>1. q # n /\ campaign'[q] = campaign[q]
    BY <1>0, <1>2 DEF Typed, Idle
  <2> QED
    BY <1>0, <1>2, <2>1 DEF Only, VoteInv, VotesGranted, Voters
<1>6. WinnersHaveWon'
  <2> SUFFICES ASSUME NEW e \in elected
               PROVE  /\ e.leader \in Node /\ e.term \in Nat
                      /\ Majority(Voters(e.term, e.leader))'
                      /\ e.term <= node'[e.leader].term
                      /\ e.term = node'[e.leader].term
                           => node'[e.leader].role # Candidate
    BY <1>2 DEF WinnersHaveWon
  <2>1. /\ e.leader \in Node /\ e.term \in Nat
        /\ Majority(Voters(e.term, e.leader))
        /\ e.term <= node[e.leader].term
        /\ e.term = node[e.leader].term => node[e.leader].role # Candidate
        /\ e.term <= disk[e.leader].term
    BY <1>0 DEF VoteInv, WinnersHaveWon, VotesOnDisk
  <2>2. Majority(Voters(e.term, e.leader))'
    BY <1>2, <2>1 DEF Majority, Voters
  <2> QED
    BY <1>2, <2>1, <2>2 DEF Only, Follower, Candidate
<1>7. LeadersHaveWon'
  BY <1>0, <1>2 DEF VoteInv, LeadersHaveWon, Only, Follower, Leader
<1>8. ThreadsTyped'
  BY <1>0 DEF RestartFromDisk, RestartFrom, ThreadsTyped
<1>9. VotesOnDisk'
  <2>1. ASSUME NEW q \in Node PROVE TermOnDisk(q)'
    <3>1. TermOnDisk(q) /\ disk[q].term \in Nat
      BY <1>0 DEF VotesOnDisk, State
    <3> QED
      BY <1>1, <1>2, <3>1 DEF TermOnDisk, Only
  <2> QED
    BY <1>0, <1>1, <1>2, <2>1 DEF VotesOnDisk
<1> QED
  BY <1>0, <1>2, <1>3, <1>4, <1>5, <1>6, <1>7, <1>8, <1>9 DEF ThreadsInv, VoteInv

-----------------------------------------------------------------------------
\* At the start nobody has voted and the disk is empty.
LEMMA ThreadsStart == ThreadsInit /\ gap \notin VoteGaps => ThreadsInv
<1> SUFFICES ASSUME ThreadsInit, gap \notin VoteGaps PROVE ThreadsInv
  OBVIOUS
<1>1. Init /\ Typed /\ VoteInv
  BY TypedInit, VoteInit DEF ThreadsInit
<1>2. ThreadsTyped
  BY DEF ThreadsInit, ThreadsTyped
<1>3. Initial \in State
  BY EmptySeq DEF Initial, State
<1>4. /\ \A n \in Node : disk[n] = Initial /\ node[n] = Initial
      /\ ballots = {} /\ elected = {} /\ disk \in [Node -> State]
  BY <1>3 DEF ThreadsInit, Init
<1>5. VotesOnDisk
  BY <1>3, <1>4 DEF VotesOnDisk, TermOnDisk, State
<1> QED
  BY <1>1, <1>2, <1>5 DEF ThreadsInv

\* Every step keeps the votes in order.
LEMMA ThreadsStep == ThreadsInv /\ [ThreadsNext]_tvars => ThreadsInv'
<1> SUFFICES ASSUME ThreadsInv, [ThreadsNext]_tvars PROVE ThreadsInv'
  OBVIOUS
<1>0. Typed /\ ThreadsTyped /\ gap \notin VoteGaps
  BY DEF ThreadsInv
<1>1. CASE Calls /\ Saved /\ UNCHANGED threads /\ UNCHANGED <<bounds, gap>>
  BY <1>1, ThreadsCall
<1>2. ASSUME NEW n \in Node
      PROVE  /\ ~StartAgain(n) /\ ~FinishOlder(n) /\ ~RestartEmpty(n)
             /\ \A m \in voteRequests : ~VoteUnsaved(n, m) /\ ~AnswerOlder(n, m)
  <2>1. \A q \in Node : ~older[q].active
    BY <1>0 DEF ThreadsTyped, Idle
  <2>2. \A m \in voteRequests : m.cand \in Node
    BY <1>0 DEF Typed, VoteRequests
  <2> QED
    BY <1>0, <2>1, <2>2
    DEF VoteGaps, StartAgain, FinishOlder, RestartEmpty, VoteUnsaved, AnswerOlder
<1>3. CASE UNCHANGED tvars
  BY <1>3 DEF tvars, threads, vars, history, ThreadsInv, ThreadsTyped, Typed, VoteInv,
     BallotsRecorded, VoteOnce, VotesGranted, Voters, WinnersHaveWon, LeadersHaveWon,
     Majority, VotesOnDisk, TermOnDisk
<1> QED
  BY <1>1, <1>2, <1>3, ThreadsAppend, ThreadsPropose, ThreadsUnsaved, ThreadsRestart
  DEF ThreadsNext

\* Two nodes never lead in one term.
OneLeader == \A m, n \in Node :
  node[m].role = Leader /\ node[n].role = Leader /\ node[m].term = node[n].term
    => m = n

\* Elections are safe although the calls of a node overlap: for every cluster,
\* two elections of one term have one winner and two nodes never lead in one
\* term, whatever comes between the two halves of HandleAppendEntries
\* (raft_node.cpp:35-41) or the reads and the Append of ProposeCommand
\* (raft_node.cpp:88-95), however proposals overlap, and although a failed
\* save of entries leaves the disk behind the memory, in the term too, and a
\* restart goes back to it (log_store.cpp:65-94).  The other three gaps each
\* let two nodes win one term.
THEOREM OneWinnerDespiteThreads ==
  ThreadsSpec /\ gap \notin VoteGaps => [](OneWinner /\ OneLeader)
<1>1. ThreadsInv => OneWinner /\ OneLeader
  <2> SUFFICES ASSUME ThreadsInv PROVE OneWinner /\ OneLeader
    OBVIOUS
  <2>1. OneWinner /\ LeadersHaveWon
    BY WinnersAgree DEF ThreadsInv, VoteInv
  <2> QED
    BY <2>1 DEF OneWinner, OneLeader, LeadersHaveWon
<1> QED
  BY <1>1, ThreadsStart, ThreadsStep, PTL DEF ThreadsSpec
=============================================================================
