--------------------------- MODULE ProposeThreads ---------------------------
(***************************************************************************)
(* RaftNode::ProposeCommand on ONE node, when several clients propose at   *)
(* the same time.  No mutex is held from one call to the next, so every    *)
(* call into ElectionManager, LogStore and each RPC is a step;             *)
(* CommitManager holds its mutex during AdvanceCommit.  The other nodes    *)
(* are the environment: they answer a request with success, with a higher  *)
(* term, with failure or not in time, and a majority of them may elect a   *)
(* leader of their own.  What the commit notification does is on the other *)
(* nodes (RaftSerial).                                                     *)
(***************************************************************************)
EXTENDS RaftLocal

CONSTANTS
  Me,          \* this node
  Thread,      \* its server threads that handle Propose
  Other,       \* what another leader proposes
  MaxTerm      \* bound on the terms of the other nodes

ASSUME ProposeAssumption ==
  /\ Me \in Node /\ Other \in Command
  /\ MaxTerm \in Nat

Peer == Node \ {Me}

VARIABLES
  store,      \* this node (a State of RaftLocal)
  pc,         \* per thread, the next call; "idle" outside ProposeCommand
  cmd,        \* per thread, its command
  index,      \* per thread, entry.index
  stamp,      \* per thread, entry.term
  out,        \* per thread, the replication request
  unasked,    \* per thread, the peers Replicate has not called yet
  acks,       \* per thread, the peers that answered with success
  target,     \* per thread, bounded_target of AdvanceCommit
  todo,       \* commands no client has proposed yet
  peerTerm,   \* the terms the other nodes are known to have reached
  stored,     \* history: [peer, entries] of every success
  accepted    \* history: [index, cmd] of every answer "command committed"

local == <<cmd, index, stamp, out, unasked, acks, target>>
history == <<stored, accepted>>
env == <<todo, peerTerm, history>>
vars == <<store, pc, local, todo, peerTerm, history>>

NoRequest == [commit |-> 0, term |-> 0, entries |-> <<>>]

Init ==
  /\ store = [Initial EXCEPT !.term = 1, !.vote = Me, !.role = Leader]
  /\ pc = [h \in Thread |-> "idle"]
  /\ cmd = [h \in Thread |-> Other]
  /\ index = [h \in Thread |-> 0]
  /\ stamp = [h \in Thread |-> 0]
  /\ out = [h \in Thread |-> NoRequest]
  /\ unasked = [h \in Thread |-> {}]
  /\ acks = [h \in Thread |-> {}]
  /\ target = [h \in Thread |-> 0]
  /\ todo = Command \ {Other}
  /\ peerTerm = [p \in Peer |-> 0]
  /\ stored = {} /\ accepted = {}

\* Thread h makes the call named `from' and goes on with `to'.
Call(h, from, to) == pc[h] = from /\ pc' = [pc EXCEPT ![h] = to]

-----------------------------------------------------------------------------
\* The role is checked once; a node that is not the leader answers so.
CheckRole(h, c) ==
  /\ c \in todo
  /\ todo' = todo \ {c}
  /\ cmd' = [cmd EXCEPT ![h] = c]
  /\ Call(h, "idle", IF store.role = Leader THEN "index" ELSE "idle")
  /\ UNCHANGED <<store, index, stamp, out, unasked, acks, target, peerTerm,
                 history>>

\* entry.index = LastIndex() + 1.
ReadIndex(h) ==
  /\ Call(h, "index", "term")
  /\ index' = [index EXCEPT ![h] = LastIndex(store.log) + 1]
  /\ UNCHANGED <<store, cmd, stamp, out, unasked, acks, target, env>>

\* entry.term = CurrentTerm().
ReadTerm(h) ==
  /\ Call(h, "term", "append")
  /\ stamp' = [stamp EXCEPT ![h] = store.term]
  /\ UNCHANGED <<store, cmd, index, out, unasked, acks, target, env>>

\* Mutant: the entry is appended whatever its index.
AppendUnchecked(h) ==
  /\ Call(h, "append", "commit")
  /\ store' = Proposed(store, [term |-> stamp[h], cmd |-> cmd[h]])
  /\ UNCHANGED <<local, env>>

\* LogStore::Append: when another thread has taken the index, the answer is
\* "failed to persist the log entry".
AppendEntry(h) ==
  /\ \/ /\ index[h] = LastIndex(store.log) + 1
        /\ Call(h, "append", "commit")
        /\ store' = Proposed(store, [term |-> stamp[h], cmd |-> cmd[h]])
     \/ /\ index[h] # LastIndex(store.log) + 1
        /\ Call(h, "append", "idle")
        /\ UNCHANGED store
  /\ UNCHANGED <<local, env>>

\* BuildFullReplicationRequest(CommitIndex()): three reads.
ReadCommit(h) ==
  /\ Call(h, "commit", "build")
  /\ out' = [out EXCEPT ![h] = [NoRequest EXCEPT !.commit = store.commit]]
  /\ UNCHANGED <<store, cmd, index, stamp, unasked, acks, target, env>>

BuildTerm(h) ==
  /\ Call(h, "build", "entries")
  /\ out' = [out EXCEPT ![h].term = store.term]
  /\ UNCHANGED <<store, cmd, index, stamp, unasked, acks, target, env>>

BuildEntries(h) ==
  /\ Call(h, "entries", "replicate")
  /\ out' = [out EXCEPT ![h].entries = store.log]
  /\ unasked' = [unasked EXCEPT ![h] = Peer]
  /\ acks' = [acks EXCEPT ![h] = {}]
  /\ UNCHANGED <<store, cmd, index, stamp, target, env>>

\* Replicate asks the next peer, which stores the request and says so; a
\* peer that has reached a higher term does not.
Acknowledged(h, p) ==
  /\ p \in unasked[h] /\ peerTerm[p] <= out[h].term
  /\ peerTerm' = [peerTerm EXCEPT ![p] = out[h].term]
  /\ Call(h, "replicate", "replicate")
  /\ unasked' = [unasked EXCEPT ![h] = @ \ {p}]
  /\ acks' = [acks EXCEPT ![h] = @ \cup {p}]
  /\ stored' = stored \cup {[peer |-> p, entries |-> out[h].entries]}
  /\ UNCHANGED <<store, cmd, index, stamp, out, target, todo, accepted>>

\* Mutant: a peer that does not answer is waited for.
NoDeadline(h, p) == FALSE /\ UNCHANGED vars

\* The peer does not answer within 800 ms, or answers with failure; in the
\* second case the term it answers is not looked at.
NotAcknowledged(h, p) ==
  /\ p \in unasked[h]
  /\ Call(h, "replicate", "replicate")
  /\ unasked' = [unasked EXCEPT ![h] = @ \ {p}]
  /\ \/ UNCHANGED peerTerm
     \/ \E t \in out[h].term + 1 .. MaxTerm :
          t >= peerTerm[p] /\ peerTerm' = [peerTerm EXCEPT ![p] = t]
  /\ UNCHANGED <<store, cmd, index, stamp, out, acks, target, todo, stored,
                 accepted>>

\* Mutant: a majority of the peers is not needed.
OneAckIsEnough(h) == Cardinality(acks[h]) + 1 >= 1

\* replicated_nodes >= QuorumSize()
HasQuorum(h) == Cardinality(acks[h]) + 1 >= QuorumSize

\* The end of Replicate.
CountReplicas(h) ==
  /\ unasked[h] = {}
  /\ Call(h, "replicate", IF HasQuorum(h) THEN "bound" ELSE "idle")
  /\ UNCHANGED <<store, local, env>>

-----------------------------------------------------------------------------
\* AdvanceCommit, under CommitManager's mutex.
Committing == {h \in Thread : pc[h] \in {"compare", "set", "apply"}}

\* Mutant: AdvanceCommit does not lock.
BoundWithoutLock(h) ==
  /\ Call(h, "bound", "compare")
  /\ target' = [target EXCEPT ![h] = Smaller(index[h], LastIndex(store.log))]
  /\ UNCHANGED <<store, cmd, index, stamp, out, unasked, acks, env>>

BoundTarget(h) ==
  /\ Committing = {}
  /\ Call(h, "bound", "compare")
  /\ target' = [target EXCEPT ![h] = Smaller(index[h], LastIndex(store.log))]
  /\ UNCHANGED <<store, cmd, index, stamp, out, unasked, acks, env>>

CompareTarget(h) ==
  /\ Call(h, "compare", IF target[h] <= store.commit THEN "notify" ELSE "set")
  /\ UNCHANGED <<store, local, env>>

\* SetCommitIndex bounds the index by the log, which another leader may have
\* cut in the meantime.
SetCommitIndex(h) ==
  /\ Call(h, "set", "apply")
  /\ store' = [store EXCEPT !.commit = Smaller(target[h], LastIndex(store.log))]
  /\ UNCHANGED <<local, env>>

\* One turn of ApplyThrough, or its end.
ApplyNext(h) ==
  LET next == Len(store.applied) + 1
      more == next <= target[h] /\ next \in DOMAIN store.log
  IN
  /\ Call(h, "apply", IF more THEN "apply" ELSE "notify")
  /\ store' = IF more THEN ApplyThrough(store, next) ELSE store
  /\ UNCHANGED <<local, env>>

\* BroadcastCommit, then the answer "command committed".
NotifyAndAnswer(h) ==
  /\ Call(h, "notify", "idle")
  /\ accepted' = accepted \cup {[index |-> index[h], cmd |-> cmd[h]]}
  /\ UNCHANGED <<store, local, todo, peerTerm, stored>>

-----------------------------------------------------------------------------
\* How many entries a leader elected without this node has for sure: what a
\* majority has stored.
Kept == CHOOSE k \in 0 .. Len(store.log) :
          /\ \A i \in k + 1 .. Len(store.log) :
               ~\E h \in Thread : HasQuorum(h) /\ Len(out[h].entries) >= i
          /\ k >= store.commit
          /\ k = store.commit \/ \E h \in Thread :
               HasQuorum(h) /\ Len(out[h].entries) >= k

\* HandleAppendEntries of a leader that a majority of the others elected in
\* a newer term, with an entry of its own.
FollowOther(t) ==
  LET log == Append(SubSeq(store.log, 1, Kept), [term |-> t, cmd |-> Other])
      s == Observed(store, t)
  IN
  /\ t > store.term
  /\ \E Q \in SUBSET Peer :
       /\ Cardinality(Q) >= QuorumSize
       /\ \A p \in Q : peerTerm[p] <= t
       /\ peerTerm' = [p \in Peer |-> IF p \in Q THEN t ELSE peerTerm[p]]
  /\ store' = WithLog(s, Merged(s.log, log))
  /\ UNCHANGED <<pc, local, todo, history>>

-----------------------------------------------------------------------------
\* What a thread does without the help of another node.
Run(h) ==
  \/ ReadIndex(h) \/ ReadTerm(h) \/ AppendEntry(h)
  \/ ReadCommit(h) \/ BuildTerm(h) \/ BuildEntries(h)
  \/ \E p \in Peer : NotAcknowledged(h, p)
  \/ CountReplicas(h)
  \/ BoundTarget(h) \/ CompareTarget(h) \/ SetCommitIndex(h) \/ ApplyNext(h)
  \/ NotifyAndAnswer(h)

Next == \/ \E h \in Thread : \/ Run(h)
                             \/ \E c \in Command : CheckRole(h, c)
                             \/ \E p \in Peer : Acknowledged(h, p)
        \/ \E t \in 1 .. MaxTerm : FollowOther(t)

Spec == Init /\ [][Next]_vars

\* A thread goes on with its call and deadlines pass; no peer need answer.
FairSpec == Spec /\ \A h \in Thread : WF_vars(Run(h))

-----------------------------------------------------------------------------
\* Types of the variables.
TypeOK == /\ store \in State
          /\ \A h \in Thread :
               /\ cmd[h] \in Command /\ index[h] \in Nat /\ stamp[h] \in Nat
               /\ out[h].entries \in Seq(Entry)
               /\ unasked[h] \subseteq Peer /\ acks[h] \subseteq Peer
               /\ target[h] \in Nat
          /\ todo \subseteq Command
          /\ peerTerm \in [Peer -> Nat]

\* As long as the node is the leader it was, a command answered with success
\* is committed and in the log at the index answered, also when two threads
\* had the same index in mind (raft_node.cpp:95-99,113).  A leader that is
\* deposed during the call breaks this.
Leads == store.role = Leader

AcceptedIsInLog ==
  Leads => \A a \in accepted : /\ a.index <= store.commit
                               /\ store.log[a.index].cmd = a.cmd

\* Everything a leader's commit index covers is stored by a majority, itself
\* included, although a thread counts the answers to its own request only
\* and AdvanceCommit commits what other threads appended below its index
\* (raft_node.cpp:105-114).
CommitHasQuorum ==
  Leads => \A i \in 1 .. store.commit :
    Cardinality({p \in Peer :
                   \E s \in stored : /\ s.peer = p
                                     /\ i \in DOMAIN s.entries
                                     /\ s.entries[i] = store.log[i]}) + 1
      >= QuorumSize

\* A leader's state machine is given every committed entry once and in order
\* by whatever threads commit (commit_manager.cpp:33,50).  The types come
\* with it.
AppliedIsCommitted ==
  /\ TypeOK
  /\ Leads => /\ Len(store.applied) <= store.commit
              /\ store.applied = SubSeq(store.log, 1, Len(store.applied))

\* A client gets its answer: a peer costs at most a deadline and
\* CommitManager's mutex is always given back.
ProposalReturns == \A h \in Thread : pc[h] # "idle" ~> pc[h] = "idle"
=============================================================================
