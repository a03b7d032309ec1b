---------------------------- MODULE RaftThreads ----------------------------
(***************************************************************************)
(* The cluster of RaftSerial without one of the things RaftSerial takes    *)
(* for granted: that nothing comes between the two halves of               *)
(* HandleAppendEntries ("append"), or between the reads and the Append of  *)
(* ProposeCommand ("propose"); that a node runs one election at a time     *)
(* ("election"); that a vote is saved before it is answered ("save"); that *)
(* what is in the memory of LogStore is on its disk, also when saves fail  *)
(* and proposals overlap ("retry"); that a crash leaves the old file or    *)
(* the new one ("rename").                                                 *)
(* gRPC runs every call on a thread of its own and no mutex is held from   *)
(* one half to the other, ElectionManager does not look at the result of a *)
(* save, Append and TruncateSuffix keep in memory what they failed to      *)
(* save, and SaveUnlocked removes the old file before the new one takes    *)
(* its place (MayLose in StableStore).                                     *)
(***************************************************************************)
EXTENDS RaftSerial

CONSTANT Gaps    \* names of what may be missing, as above; with any other
                 \* name this is RaftSerial

VARIABLES
  gap,      \* what is missing in this execution
  inHand,   \* per node, a request that has passed ObserveLeader
  draft,    \* per node, a proposal whose index has been read
  older,    \* per node, a StartElection call a newer one has overtaken
  earlier,  \* per node, a ProposeCommand call beside a newer one
  disk      \* per node, what its last successful save has written

threads == <<inHand, draft, older, earlier>>
tvars == <<vars, gap, threads, disk>>

\* What a save writes, as the state it stands for.
Durable(s) == [s EXCEPT !.role = Follower, !.applied = <<>>]

ThreadsInit == /\ Init
               /\ gap \in Gaps
               /\ inHand = [n \in Node |-> Idle]
               /\ draft = [n \in Node |-> Idle]
               /\ older = [n \in Node |-> Idle]
               /\ earlier = [n \in Node |-> Idle]
               /\ disk = [n \in Node |-> Initial]

\* Every change of what is durable is saved.
Saved == disk' = [n \in Node |->
                    IF Durable(node'[n]) = Durable(node[n]) THEN disk[n]
                    ELSE Durable(node'[n])]

-----------------------------------------------------------------------------
\* HandleAppendEntries up to ObserveLeader, which accepts the leader; and
\* the rest, which does not look at the term again.
PassObserveLeader(p, m) ==
  /\ gap = "append" /\ ~inHand[p].active
  /\ p # m.leader /\ m.term >= node[p].term
  /\ Become(p, Observed(node[p], m.term))
  /\ inHand' = [inHand EXCEPT ![p] = [active |-> TRUE, request |-> m]]
  /\ Saved
  /\ UNCHANGED <<campaign, proposal, voteRequests, appendRequests, history,
                 draft, older, earlier>>

FinishAppend(p) ==
  /\ inHand[p].active
  /\ AppendFromLeader(p, node[p], inHand[p].request)
  /\ inHand' = [inHand EXCEPT ![p] = Idle]
  /\ Saved /\ UNCHANGED <<draft, older, earlier>>

\* ProposeCommand up to LastIndex(); and the rest, which reads the term of
\* the entry, and whose Append accepts it if the log still ends there.
ReadIndex(n, cmd) ==
  /\ gap = "propose" /\ ~draft[n].active
  /\ node[n].role = Leader
  /\ draft' = [draft EXCEPT ![n] =
                 [active |-> TRUE, cmd |-> cmd,
                  index |-> LastIndex(node[n].log) + 1]]
  /\ UNCHANGED <<vars, inHand, older, earlier, disk>>

AppendDraft(n) ==
  /\ draft[n].active /\ ~proposal[n].active
  /\ draft' = [draft EXCEPT ![n] = Idle]
  /\ IF draft[n].index = LastIndex(node[n].log) + 1
     THEN Replicate(n, draft[n].cmd) /\ Saved
     ELSE UNCHANGED <<vars, disk>>
  /\ UNCHANGED <<inHand, older, earlier>>

\* The operator triggers another election while the first still waits for
\* its peers; votes reach the call that asked for them, and when the older
\* call ends CompleteElection does not look at the term of its votes.
StartAgain(n) ==
  /\ gap = "election" /\ campaign[n].active /\ ~older[n].active
  /\ Campaign(n)
  /\ older' = [older EXCEPT ![n] = campaign[n]]
  /\ Saved /\ UNCHANGED <<inHand, draft, earlier>>

AnswerOlder(p, m) ==
  /\ older[m.cand].active /\ older[m.cand].term = m.term
  /\ HandleVoteRequest(p, m)
  /\ older' = [older EXCEPT ![m.cand].votes =
                 IF Grants(node[p], m) THEN @ \cup {p} ELSE @,
                            ![m.cand].higher =
                 IF node'[p].term > m.term THEN @ \cup {node'[p].term} ELSE @]
  /\ Saved /\ UNCHANGED <<inHand, draft, earlier>>

FinishOlder(n) ==
  /\ older[n].active
  /\ older' = [older EXCEPT ![n] = Idle]
  /\ CountVotes(n, older[n])
  /\ Saved /\ UNCHANGED <<campaign, inHand, draft, earlier>>

\* None of the saves of HandleVoteRequest succeeds; it answers all the same.
VoteUnsaved(p, m) == /\ gap = "save"
                     /\ HandleVoteRequest(p, m)
                     /\ UNCHANGED <<threads, disk>>

\* A second client of the leader proposes while the first one's call still
\* waits for the peers; an answer reaches the call that sent the request.
ProposeBeside(n, cmd) ==
  /\ gap = "retry" /\ node[n].role = Leader
  /\ proposal[n].active /\ ~earlier[n].active
  /\ Replicate(n, cmd)
  /\ earlier' = [earlier EXCEPT ![n] = proposal[n]]
  /\ Saved /\ UNCHANGED <<inHand, draft, older>>

AnswerEarlier(p, m) ==
  /\ earlier[m.leader].active /\ earlier[m.leader].request = m
  /\ HandleAppendEntries(p, m)
  /\ earlier' = [earlier EXCEPT ![m.leader].acks = @ \cup {p}]
  /\ Saved /\ UNCHANGED <<inHand, draft, older>>

FinishEarlier(n) ==
  /\ earlier[n].active
  /\ earlier' = [earlier EXCEPT ![n] = Idle]
  /\ CountAcks(n, earlier[n])
  /\ Saved /\ UNCHANGED <<proposal, inHand, draft, older>>

\* The first save of the loop in AppendFromLeader fails: the conflict is cut
\* or the entry appended in memory only, and the request, which will not be
\* sent again, is answered with a failure.
FirstChange(log, entries) ==
  LET i == FirstConflict(log, entries) IN
  IF i <= Len(log) THEN SubSeq(log, 1, i - 1) ELSE Append(log, entries[i])

AppendUnsaved(p, m) ==
  LET s == Observed(node[p], m.term) IN
  /\ gap = "retry" /\ p # m.leader /\ m.term >= node[p].term
  /\ PreviousMatches(s.log, m.prevIndex, m.prevTerm)
  /\ Merged(s.log, m.entries) # s.log
  /\ Become(p, WithLog(s, FirstChange(s.log, m.entries)))
  /\ appendRequests' = appendRequests \ {m}
  /\ UNCHANGED <<campaign, proposal, voteRequests, history, threads, disk>>

\* The process dies and starts with what is on its disk, or dies between
\* the remove and the rename of a SetCurrentTerm and starts with nothing.
RestartFrom(n, s) == /\ RestartWith(n, s)
                     /\ inHand' = [inHand EXCEPT ![n] = Idle]
                     /\ draft' = [draft EXCEPT ![n] = Idle]
                     /\ older' = [older EXCEPT ![n] = Idle]
                     /\ earlier' = [earlier EXCEPT ![n] = Idle]
                     /\ disk' = [disk EXCEPT ![n] = s]

RestartFromDisk(n) == RestartFrom(n, disk[n])

RestartEmpty(n) == /\ gap = "rename" /\ NewTerms(n) # {}
                   /\ RestartFrom(n, Initial)

-----------------------------------------------------------------------------
ThreadsNext ==
  /\ \/ Calls /\ Saved /\ UNCHANGED threads
     \/ \E n \in Node :
          \/ FinishAppend(n) \/ AppendDraft(n)
          \/ StartAgain(n) \/ FinishOlder(n) \/ FinishEarlier(n)
          \/ RestartFromDisk(n) \/ RestartEmpty(n)
          \/ \E m \in appendRequests :
               PassObserveLeader(n, m) \/ AnswerEarlier(n, m)
                 \/ AppendUnsaved(n, m)
          \/ \E cmd \in Offers[n] : ReadIndex(n, cmd) \/ ProposeBeside(n, cmd)
          \/ \E m \in voteRequests : VoteUnsaved(n, m) \/ AnswerOlder(n, m)
  /\ UNCHANGED <<bounds, gap>>

ThreadsSpec == ThreadsInit /\ [][ThreadsNext]_tvars
=============================================================================
