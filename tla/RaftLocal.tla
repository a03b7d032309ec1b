----------------------------- MODULE RaftLocal -----------------------------
(***************************************************************************)
(* The state of one Raft node and what each locked section of its code     *)
(* does to it, as operators on a record.  RaftSerial runs the sections of  *)
(* a handler in one step; AppendHandlers and ProposeThreads take them      *)
(* apart.                                                                  *)
(*                                                                         *)
(* term, vote, log and commit are LogStore's (a save is atomic here, see   *)
(* StableStore; the entry at position i has index i, see Contiguous in     *)
(* LogStore).  role is ElectionManager's.  applied is the sequence of      *)
(* entries the state machine has been given since the node started, and    *)
(* last_applied_ is its length.                                            *)
(***************************************************************************)
EXTENDS Naturals, Sequences, FiniteSets

CONSTANTS Node,      \* the cluster
          None,      \* the empty node id
          Command    \* what clients propose

ASSUME LocalAssumption == IsFiniteSet(Node) /\ None \notin Node

Follower == "follower"
Candidate == "candidate"
Leader == "leader"

Entry == [term : Nat, cmd : Command]

State == [term : Nat, vote : Node \cup {None}, log : Seq(Entry),
          commit : Nat, role : {Follower, Candidate, Leader},
          applied : Seq(Entry)]

Initial == [term |-> 0, vote |-> None, log |-> <<>>, commit |-> 0,
            role |-> Follower, applied |-> <<>>]

\* Mutants, here and below, are what a plausible slip would have written in
\* place of the definition that follows them.  This one: half is enough.
HalfIsEnough == Cardinality(Node) \div 2

\* cluster_size / 2 + 1
QuorumSize == Cardinality(Node) \div 2 + 1

Smaller(a, b) == IF a < b THEN a ELSE b

-----------------------------------------------------------------------------
\* LogStore::LastIndex, LogStore::LastTerm.
LastIndex(log) == Len(log)

LastTerm(log) == IF log = <<>> THEN 0 ELSE log[Len(log)].term

\* An entry of that index and term is in the log (LogStore::EntryAt).
Holds(log, index, term) == index \in DOMAIN log /\ log[index].term = term

\* Mutant: the previous entry is looked up by index alone.
PreviousExists(log, index, term) == index = 0 \/ index \in DOMAIN log

\* LogReplicator::ValidatePreviousLog; index 0 is before the first entry.
PreviousMatches(log, index, term) == index = 0 \/ Holds(log, index, term)

\* Mutant: the longer log wins, whatever its terms.
LongEnough(lastIndex, lastTerm, log) == lastIndex >= LastIndex(log)

\* ElectionManager::IsCandidateLogUpToDate.
UpToDate(lastIndex, lastTerm, log) ==
  \/ lastTerm > LastTerm(log)
  \/ lastTerm = LastTerm(log) /\ lastIndex >= LastIndex(log)

\* The first index at which the log has an entry of another term than the
\* one sent, one past the shorter of the two when there is none.
FirstConflict(log, entries) ==
  LET both == 1 .. Smaller(Len(log), Len(entries)) IN
  CHOOSE i \in 1 .. Smaller(Len(log), Len(entries)) + 1 :
    /\ \A j \in both : j < i => log[j].term = entries[j].term
    /\ i \in both => log[i].term # entries[i].term

\* Mutant: entries that are missing are appended, conflicting ones are kept.
AppendedOnly(log, entries) ==
  IF Len(entries) <= Len(log) THEN log
  ELSE log \o SubSeq(entries, Len(log) + 1, Len(entries))

\* The loop of LogReplicator::AppendFromLeader for entries that start at
\* index 1 (every request that carries entries has prev_log_index = 0): the
\* log is cut at a conflict and extended by what it lacks; entries of the
\* same index and term are kept, and so is a longer log without conflict.
Merged(log, entries) ==
  LET i == FirstConflict(log, entries) IN
  IF i > Len(entries) THEN log
  ELSE SubSeq(log, 1, i - 1) \o SubSeq(entries, i, Len(entries))

\* The logs on disk during that loop: cut, then one more entry at a time.
DuringMerge(log, entries) ==
  LET i == FirstConflict(log, entries) IN
  {log} \cup {SubSeq(Merged(log, entries), 1, k) :
                k \in {j \in i - 1 .. Len(entries) : i <= Len(entries)}}

\* TruncateSuffix and Append have made log of the old one: commit_index_
\* follows a cut, and what is appended afterwards does not raise it.
WithLog(s, log) ==
  [s EXCEPT !.log = log, !.commit = Smaller(@, FirstConflict(s.log, log) - 1)]

-----------------------------------------------------------------------------
\* SetCurrentTerm without the SetVotedFor that follows it.
TermOnly(s, t) == [s EXCEPT !.term = t]

\* A newer term clears the vote and ends any role.
Adopt(s, t) == IF t > s.term
               THEN [s EXCEPT !.term = t, !.vote = None, !.role = Follower]
               ELSE s

\* ElectionManager::StartElection.
Campaigning(s, me) ==
  [s EXCEPT !.term = @ + 1, !.vote = me, !.role = Candidate]

\* ElectionManager::HandleVoteRequest on a request [term, cand, lastIndex,
\* lastTerm]: whether it is granted, and the state afterwards.
Grants(s, m) ==
  /\ m.term >= s.term
  /\ Adopt(s, m.term).vote \in {None, m.cand}
  /\ UpToDate(m.lastIndex, m.lastTerm, s.log)

Voted(s, m) == IF Grants(s, m)
               THEN [Adopt(s, m.term) EXCEPT !.vote = m.cand]
               ELSE Adopt(s, m.term)

\* ElectionManager::ObserveLeader accepts no term below its own.
Observed(s, t) == [Adopt(s, t) EXCEPT !.role = Follower]

\* ElectionManager::StepDown.
SteppedDown(s, t) == [Adopt(s, t) EXCEPT !.role = Follower]

\* ElectionManager::CompleteElection succeeds.
Wins(s, votes) == s.role = Candidate /\ Cardinality(votes) >= QuorumSize

Crowned(s) == [s EXCEPT !.role = Leader]

\* CommitManager::ApplyThrough stops at the first entry that is missing.
ApplyThrough(s, target) ==
  [s EXCEPT !.applied = @ \o SubSeq(s.log, Len(@) + 1,
                                    Smaller(target, Len(s.log)))]

\* Mutant: an older commit index overwrites a newer one.
CommittedBack(s, target) ==
  LET bounded == Smaller(target, LastIndex(s.log)) IN
  ApplyThrough([s EXCEPT !.commit = bounded], bounded)

\* CommitManager::AdvanceCommit: never beyond the log, never backwards.
Committed(s, target) ==
  LET bounded == Smaller(target, LastIndex(s.log)) IN
  IF bounded <= s.commit THEN s
  ELSE ApplyThrough([s EXCEPT !.commit = bounded], bounded)

\* LogStore::Append of a proposed entry.
Proposed(s, e) == [s EXCEPT !.log = Append(@, e)]

\* A new process: RaftNode::Initialize (Load, then CommitManager::Recover).
Restarted(s) ==
  ApplyThrough([s EXCEPT !.role = Follower, !.applied = <<>>], s.commit)

-----------------------------------------------------------------------------
\* RequestVote as ElectionManager::StartElection fills it in.
VoteRequest(s, me) ==
  [term |-> s.term, cand |-> me, lastIndex |-> LastIndex(s.log),
   lastTerm |-> LastTerm(s.log)]

\* RaftNode::BuildFullReplicationRequest: always the whole log.
FullRequest(s, me) ==
  [term |-> s.term, leader |-> me, prevIndex |-> 0, prevTerm |-> 0,
   entries |-> s.log, commit |-> s.commit]

\* The commit notification: no entries, anchored at the end of the log.
Notification(s, me) ==
  [FullRequest(s, me) EXCEPT !.entries = <<>>,
                             !.prevIndex = LastIndex(s.log),
                             !.prevTerm = LastTerm(s.log)]
=============================================================================
