--------------------------- MODULE AppendHandlers ---------------------------
(***************************************************************************)
(* RaftNode::HandleAppendEntries on ONE follower, when the threads of its  *)
(* gRPC server run it at the same time.  No mutex is held from one call    *)
(* into LogStore to the next, so every such call is a step; CommitManager  *)
(* holds its own mutex during AdvanceCommit.  A leader gives up a request  *)
(* after 800 ms and sends the next one while the first may still be        *)
(* running here, so requests of one leader overlap, and so do those of an  *)
(* old leader and a new one.  Vote requests arrive among them, late or     *)
(* more than once; ElectionManager holds its mutex while one is handled,   *)
(* which keeps no handler that has passed ObserveLeader from changing the  *)
(* log.                                                                    *)
(***************************************************************************)
EXTENDS RaftLocal

CONSTANTS
  Thread,       \* server threads that handle AppendEntries
  Scenarios     \* what may meet here: [sent |-> the requests leaders send to
                \* this follower, log |-> what earlier terms left in its log,
                \* votes |-> the vote requests candidates send to it]

ASSUME HandlersAssumption ==
  \A s \in Scenarios :
    /\ s.log \in Seq(Entry)
    /\ \A m \in s.sent : /\ m.term \in Nat /\ m.prevIndex \in Nat
                         /\ m.prevTerm \in Nat /\ m.commit \in Nat
                         /\ m.entries \in Seq(Entry)
    /\ \A v \in s.votes : /\ v.term \in Nat
                          /\ v.lastIndex \in Nat /\ v.lastTerm \in Nat

NoRequest == [term |-> 0]

NoBallot == [at |-> "idle", request |-> NoRequest, lastTerm |-> 0]

VARIABLES
  term, log, commit,   \* LogStore
  applied,             \* the state machine; last_applied_ is its length
  pc,                  \* per thread, the next call; "idle" outside a handler
  req,                 \* per thread, its request
  pos,                 \* per thread, the entry its loop is at
  target,              \* per thread, commit_target, then bounded_target
  pending,             \* requests no thread has taken yet
  ballot,              \* the vote request being handled, the next call of
                       \* its handler and the last term that one has read
  scenario,            \* history: the scenario that runs
  acked,               \* history: requests answered with success
  alone,               \* history: no two handlers have overlapped since the
                       \* follower was last at rest
  before,              \* history: the state the last handler found that
                       \* began alone
  fit                  \* history: while the vote request was handled, some
                       \* log was none its candidate lagged behind

store == <<term, log, commit, applied>>
control == <<pc, req, pos, target>>
history == <<acked, alone, before>>
voting == <<ballot, fit>>
vars == <<store, control, pending, scenario, history, voting>>

\* The store as a RaftLocal record.
Now == [term |-> term, vote |-> None, log |-> log, commit |-> commit,
        role |-> Follower, applied |-> applied]

Init == /\ scenario \in Scenarios
        /\ term = LastTerm(scenario.log) /\ log = scenario.log
        /\ commit = 0 /\ applied = <<>>
        /\ pc = [h \in Thread |-> "idle"]
        /\ req = [h \in Thread |-> NoRequest]
        /\ pos = [h \in Thread |-> 0]
        /\ target = [h \in Thread |-> 0]
        /\ pending = scenario.sent /\ acked = {}
        /\ alone = TRUE /\ before = Now
        /\ ballot = NoBallot /\ fit = FALSE

Goto(h, label) == pc' = [pc EXCEPT ![h] = label]

\* The handler is at the call named label.
At(h, label) == pc[h] = label

Keep(v) == UNCHANGED <<v, pending, scenario, alone, before, ballot>>

\* HandleVoteRequest holds ElectionManager's mutex.
Voting == ballot.at # "idle"

-----------------------------------------------------------------------------
\* A thread takes a request and calls ObserveLeader, which refuses it if its
\* term is an old one.
ObserveLeader(h, m) ==
  /\ At(h, "idle") /\ m \in pending /\ ~Voting
  /\ pending' = pending \ {m}
  /\ IF m.term < term
     THEN UNCHANGED <<term, pc, req, alone, before>>
     ELSE /\ term' = m.term
          /\ req' = [req EXCEPT ![h] = m]
          /\ alone' = \A k \in Thread : At(k, "idle")
          /\ before' = IF alone' THEN Now ELSE before
          /\ Goto(h, "previous")
  /\ UNCHANGED <<log, commit, applied, pos, target, scenario, acked, ballot>>

\* The loop goes on with entry i, or ends.
Loop(h, i) == IF i <= Len(req[h].entries)
              THEN Goto(h, "look") /\ pos' = [pos EXCEPT ![h] = i]
              ELSE Goto(h, "target") /\ UNCHANGED pos

\* ValidatePreviousLog.
ValidatePreviousLog(h) ==
  /\ At(h, "previous")
  /\ IF PreviousMatches(log, req[h].prevIndex, req[h].prevTerm)
     THEN Loop(h, 1)
     ELSE Goto(h, "idle") /\ UNCHANGED pos
  /\ Keep(<<store, req, target, acked>>)

\* EntryAt(incoming.index), to look for a conflict.
LookForConflict(h) ==
  /\ At(h, "look")
  /\ IF /\ pos[h] \in DOMAIN log
        /\ log[pos[h]].term # req[h].entries[pos[h]].term
     THEN Goto(h, "cut")
     ELSE Goto(h, "again")
  /\ Keep(<<store, req, pos, target, acked>>)

\* Mutant: only the entries above the conflict are removed.
CutAbove(h) ==
  /\ At(h, "cut")
  /\ log' = SubSeq(log, 1, pos[h])
  /\ Goto(h, "again")
  /\ Keep(<<term, commit, applied, req, pos, target, acked>>)

\* TruncateSuffix(incoming.index): the commit index follows the log.
TruncateSuffix(h) ==
  /\ At(h, "cut")
  /\ log' = SubSeq(log, 1, Smaller(pos[h] - 1, Len(log)))
  /\ commit' = Smaller(commit, Len(log'))
  /\ Goto(h, "again")
  /\ Keep(<<term, applied, req, pos, target, acked>>)

\* Mutant: an entry that is there already is looked at again.
LookForever(h) ==
  /\ At(h, "again")
  /\ IF pos[h] \in DOMAIN log
     THEN Loop(h, pos[h])
     ELSE Goto(h, "append") /\ UNCHANGED pos
  /\ Keep(<<store, req, target, acked>>)

\* EntryAt(incoming.index) once more: nothing to append if it is there.
LookAgain(h) ==
  /\ At(h, "again")
  /\ IF pos[h] \in DOMAIN log
     THEN Loop(h, pos[h] + 1)
     ELSE Goto(h, "append") /\ UNCHANGED pos
  /\ Keep(<<store, req, target, acked>>)

\* Mutant: an entry is appended wherever the log ends.
AppendAnywhere(h) ==
  /\ At(h, "append")
  /\ log' = Append(log, req[h].entries[pos[h]])
  /\ Loop(h, pos[h] + 1)
  /\ Keep(<<term, commit, applied, req, target, acked>>)

\* LogStore::Append refuses an entry that is not the next one, and the
\* handler answers with failure.
AppendEntry(h) ==
  /\ At(h, "append")
  /\ IF pos[h] = Len(log) + 1
     THEN /\ log' = Append(log, req[h].entries[pos[h]])
          /\ Loop(h, pos[h] + 1)
     ELSE Goto(h, "idle") /\ UNCHANGED <<log, pos>>
  /\ Keep(<<term, commit, applied, req, target, acked>>)

-----------------------------------------------------------------------------
\* commit_target = min(leader_commit, LastIndex()).
CommitTarget(h) ==
  /\ At(h, "target")
  /\ target' = [target EXCEPT ![h] = Smaller(req[h].commit, Len(log))]
  /\ Goto(h, "bound")
  /\ Keep(<<store, req, pos, acked>>)

\* The handler that holds CommitManager's mutex.
Committing == {h \in Thread : pc[h] \in {"compare", "set", "apply"}}

\* Mutant: AdvanceCommit does not lock.
BoundWithoutLock(h) ==
  /\ At(h, "bound")
  /\ target' = [target EXCEPT ![h] = Smaller(@, Len(log))]
  /\ Goto(h, "compare")
  /\ Keep(<<store, req, pos, acked>>)

\* AdvanceCommit: lock, then the last index is read again.
BoundTarget(h) ==
  /\ At(h, "bound") /\ Committing = {}
  /\ target' = [target EXCEPT ![h] = Smaller(@, Len(log))]
  /\ Goto(h, "compare")
  /\ Keep(<<store, req, pos, acked>>)

\* The handler answers with success.
Succeed(h) == Goto(h, "idle") /\ acked' = acked \cup {req[h]}

\* The commit index is read; an old target is ignored.
CompareTarget(h) ==
  /\ At(h, "compare")
  /\ IF target[h] <= commit THEN Succeed(h)
     ELSE Goto(h, "set") /\ UNCHANGED acked
  /\ Keep(<<store, req, pos, target>>)

\* Mutant: SetCommitIndex takes what it is given.
SetUnbounded(h) ==
  /\ At(h, "set")
  /\ commit' = target[h]
  /\ Goto(h, "apply")
  /\ Keep(<<term, log, applied, req, pos, target, acked>>)

\* SetCommitIndex, which bounds the index by the log once more.
SetCommitIndex(h) ==
  /\ At(h, "set")
  /\ commit' = Smaller(target[h], Len(log))
  /\ Goto(h, "apply")
  /\ Keep(<<term, log, applied, req, pos, target, acked>>)

\* One turn of ApplyThrough, or its end.
ApplyNext(h) ==
  LET next == Len(applied) + 1 IN
  /\ At(h, "apply")
  /\ IF next <= target[h] /\ next \in DOMAIN log
     THEN /\ applied' = Append(applied, log[next])
          /\ UNCHANGED <<pc, acked>>
     ELSE Succeed(h) /\ UNCHANGED applied
  /\ Keep(<<term, log, commit, req, pos, target>>)

\* ElectionManager::HandleVoteRequest: lock, and the term; a request of an
\* old one is refused.
TakeVoteRequest(v) ==
  /\ ~Voting /\ v.term >= term
  /\ term' = v.term
  /\ ballot' = [at |-> "term", request |-> v, lastTerm |-> 0]

\* IsCandidateLogUpToDate: LastTerm().
ReadLastTerm ==
  /\ ballot.at = "term"
  /\ ballot' = [ballot EXCEPT !.at = "index", !.lastTerm = LastTerm(log)]
  /\ UNCHANGED term

\* Mutant: the longer log or the newer term is enough.
LongerOrNewer ==
  \/ ballot.request.lastTerm > ballot.lastTerm
  \/ ballot.request.lastIndex >= LastIndex(log)

\* The comparison with LastIndex(), which is read now.
CandidateIsCurrent ==
  \/ ballot.request.lastTerm > ballot.lastTerm
  \/ /\ ballot.request.lastTerm = ballot.lastTerm
     /\ ballot.request.lastIndex >= LastIndex(log)

\* The vote is given if it was not given to another (Election); unlock.
Vote ==
  /\ ballot.at = "index"
  /\ ballot' = NoBallot
  /\ UNCHANGED term

HandleVoteRequest ==
  /\ (\E v \in scenario.votes : TakeVoteRequest(v)) \/ ReadLastTerm \/ Vote
  /\ UNCHANGED <<log, commit, applied, control, pending, scenario, history>>

\* The history variable fit, in every step of a handler.
Compared ==
  fit' = /\ Voting'
         /\ \/ fit
            \/ UpToDate(ballot'.request.lastIndex, ballot'.request.lastTerm,
                        log')

-----------------------------------------------------------------------------
Call(h) ==
  \/ ValidatePreviousLog(h)
  \/ LookForConflict(h) \/ TruncateSuffix(h) \/ LookAgain(h) \/ AppendEntry(h)
  \/ CommitTarget(h) \/ BoundTarget(h) \/ CompareTarget(h) \/ SetCommitIndex(h)
  \/ ApplyNext(h)

Handle(h) == Call(h) /\ Compared

Next == \/ \E h \in Thread : Handle(h)
        \/ \E h \in Thread, m \in pending : ObserveLeader(h, m) /\ Compared
        \/ HandleVoteRequest /\ Compared

Spec == Init /\ [][Next]_vars

\* A thread that runs a handler goes on with it, and a mutex that is free
\* for good is given to a thread that waits for it.
FairSpec == Spec /\ \A h \in Thread : WF_vars(Handle(h))

-----------------------------------------------------------------------------
\* Types of the variables.
BallotOK == \/ ballot = NoBallot
            \/ ballot \in [at : {"term", "index"}, request : scenario.votes,
                           lastTerm : Nat]

TypeOK == /\ Now \in State
          /\ pc \in [Thread -> {"idle", "previous", "look", "cut", "again",
                                "append", "target", "bound", "compare",
                                "set", "apply"}]
          /\ scenario \in Scenarios
          /\ \A h \in Thread : pc[h] # "idle" => req[h] \in scenario.sent
          /\ pos \in [Thread -> Nat] /\ target \in [Thread -> Nat]
          /\ pending \subseteq scenario.sent /\ acked \subseteq scenario.sent
          /\ alone \in BOOLEAN
          /\ BallotOK

\* The follower never records more commitment than it has log, although the
\* log may be cut between any two of the reads that bound the commit index
\* (log_store.cpp:175).
CommitWithinLog == commit <= Len(log)

\* No request contradicts another one (what one leader sends), nor what the
\* follower has already (an old suffix).
Agree(l, k) == \A i \in DOMAIN l \cap DOMAIN k : l[i] = k[i]

OneLeader == \A m, k \in scenario.sent : Agree(m.entries, k.entries)

Uncontested == /\ OneLeader
               /\ \A m \in scenario.sent : Agree(m.entries, scenario.log)

\* Then the state machine shows a prefix of the log, none of it uncommitted
\* or given to it twice, however many handlers overlap
\* (commit_manager.cpp:18,52).
AppliedIsCommitted == Uncontested => /\ Len(applied) <= commit
                                     /\ applied = SubSeq(log, 1, Len(applied))

\* And entries reported as replicated are in the log from then on: this is
\* what a leader counts on when it commits (raft_node.cpp:50).
AckedStays ==
  Uncontested =>
    \A m \in acked : \A i \in DOMAIN m.entries :
      i \in DOMAIN log /\ log[i] = m.entries[i]

\* Terms never fall along a log, as in what leaders that were elected send
\* (Ordered in RaftSerialProofs).
TermsRise(l) == \A i, j \in DOMAIN l : i <= j => l[i].term <= l[j].term

OneHistory == /\ OneLeader /\ TermsRise(scenario.log)
              /\ \A m \in scenario.sent : TermsRise(m.entries)

\* A vote goes to a candidate only if its log was at some moment of the call
\* as up to date as the log here, although last term and last index are two
\* reads and handlers cut and append between them (election_manager.cpp:117).
\* Late requests of an old leader break this: they leave an old term behind a
\* newer one.
GrantIsDue ==
  OneHistory => (ballot.at = "index" /\ CandidateIsCurrent => fit)

\* A handler that no other overlapped has done to the store what RaftLocal
\* says of the whole call: the loop merges, then the commit index follows.
WholeCall(s, m) ==
  IF PreviousMatches(s.log, m.prevIndex, m.prevTerm)
  THEN Committed(WithLog(Observed(s, m.term), Merged(s.log, m.entries)),
                 m.commit)
  ELSE Observed(s, m.term)

EffectIsWholeCall ==
  [][\A h \in Thread :
       alone /\ pc[h] # "idle" /\ pc'[h] = "idle"
         => [Now' EXCEPT !.term = req[h].term] = WholeCall(before, req[h])]_vars

\* Every handler returns: the two levels of locks never block each other.
HandlerReturns == \A h \in Thread : pc[h] # "idle" ~> pc[h] = "idle"
=============================================================================
