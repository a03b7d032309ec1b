------------------------ MODULE ProposeThreadsProofs ------------------------
(***************************************************************************)
(* For any cluster, any number of threads and clients and any interleaving *)
(* of their calls: while the node leads, what it has answered is in its    *)
(* log and committed, what is committed is stored by a majority, and the   *)
(* state machine is given the log in order.                                *)
(***************************************************************************)
EXTENDS ProposeThreads, RaftLocalProofs

\* The calls of a thread from its append on, and from its request on.
Requested == {"replicate", "bound", "compare", "set", "apply", "notify"}

Appended == {"commit", "build", "entries"} \cup Requested

\* Types of the variables, in the form the induction needs.
Requests == [commit : Nat, term : Nat, entries : Seq(Entry)]

Typed ==
  /\ store \in State
  /\ pc \in [Thread -> {"idle", "index", "term", "append"} \cup Appended]
  /\ cmd \in [Thread -> Command] /\ index \in [Thread -> Nat]
  /\ stamp \in [Thread -> Nat] /\ target \in [Thread -> Nat]
  /\ out \in [Thread -> Requests]
  /\ unasked \in [Thread -> SUBSET Peer] /\ acks \in [Thread -> SUBSET Peer]
  /\ todo \subseteq Command /\ peerTerm \in [Peer -> Nat]

\* The commit index is within the log, also when another leader cuts it.
CommitInLog == store.commit <= Len(store.log)

\* One thread at a time holds CommitManager's mutex.
OneCommits == \A g, h \in Committing : g = h

\* While the node leads, its log only grows, and a thread's entry is where it
\* was put.
EntryInPlace(h) ==
  pc[h] \in Appended => /\ index[h] \in 1 .. Len(store.log)
                        /\ store.log[index[h]].cmd = cmd[h]

\* A request is a beginning of the log that has the thread's entry, and a
\* peer counts when it has stored that request.
RequestInLog(h) ==
  pc[h] \in Requested =>
    /\ Begins(out[h].entries, store.log) /\ index[h] <= Len(out[h].entries)
    /\ \A p \in acks[h] : [peer |-> p, entries |-> out[h].entries] \in stored

\* AdvanceCommit raises the commit index to the thread's own entry, which a
\* majority has.
CommitsOwnEntry(h) ==
  /\ pc[h] \in Requested \ {"replicate"} => HasQuorum(h)
  /\ pc[h] \in {"compare", "set", "apply"} => target[h] = index[h]
  /\ pc[h] = "set" => store.commit < target[h]
  /\ pc[h] = "apply" => store.commit = target[h]
  /\ pc[h] = "notify" => index[h] <= store.commit

ThreadInv(h) == EntryInPlace(h) /\ RequestInLog(h) /\ CommitsOwnEntry(h)

AcceptedInLog ==
  \A a \in accepted : /\ a.index \in 1 .. store.commit
                      /\ store.log[a.index].cmd = a.cmd

\* A majority stores what is at index i.
QuorumHas(i) ==
  Cardinality({p \in Peer :
                 \E s \in stored : /\ s.peer = p
                                   /\ i \in DOMAIN s.entries
                                   /\ s.entries[i] = store.log[i]}) + 1
    >= QuorumSize

CommittedHasQuorum == \A i \in 1 .. store.commit : QuorumHas(i)

AppliedInLog ==
  /\ Len(store.applied) <= store.commit
  /\ store.applied = SubSeq(store.log, 1, Len(store.applied))

LeaderInv == /\ \A h \in Thread : ThreadInv(h)
             /\ AcceptedInLog /\ CommittedHasQuorum /\ AppliedInLog

ProposeInv == Typed /\ CommitInLog /\ OneCommits /\ (Leads => LeaderInv)

-----------------------------------------------------------------------------
\* More peers are not fewer, and the quorum is a number.
LEMMA MorePeers ==
  ASSUME NEW Q \in SUBSET Peer, NEW P \in SUBSET Q
  PROVE  /\ Cardinality(P) \in Nat /\ Cardinality(Q) \in Nat
         /\ Cardinality(P) <= Cardinality(Q) /\ QuorumSize \in Nat
<1>1. IsFiniteSet(Q) /\ IsFiniteSet(P) /\ IsFiniteSet(Node)
  BY LocalAssumption, FS_Subset DEF Peer
<1> QED
  BY <1>1, FS_Subset, FS_CardinalityType DEF QuorumSize

\* What a majority stores stays stored, and the log only grows.
LEMMA QuorumStays ==
  ASSUME NEW i, QuorumHas(i), stored \subseteq stored',
         store'.log[i] = store.log[i]
  PROVE  QuorumHas(i)'
<1> DEFINE P == {p \in Peer :
                   \E s \in stored : /\ s.peer = p
                                     /\ i \in DOMAIN s.entries
                                     /\ s.entries[i] = store.log[i]}
           Q == {p \in Peer :
                   \E s \in stored' : /\ s.peer = p
                                      /\ i \in DOMAIN s.entries
                                      /\ s.entries[i] = store'.log[i]}
<1>1. P \in SUBSET Q /\ Q \in SUBSET Peer
  OBVIOUS
<1>2. Cardinality(P) \in Nat /\ Cardinality(Q) \in Nat
      /\ Cardinality(P) <= Cardinality(Q) /\ QuorumSize \in Nat
  BY <1>1, MorePeers
<1>3. Cardinality(P) + 1 >= QuorumSize
  BY DEF QuorumHas
<1>4. Cardinality(Q) + 1 >= QuorumSize
  BY <1>2, <1>3
<1> QED
  BY <1>4 DEF QuorumHas

\* What a thread's quorum has acknowledged, up to the end of its request.
LEMMA QuorumOfRequest ==
  ASSUME Typed, NEW h \in Thread, ThreadInv(h),
         pc[h] \in Requested \ {"replicate"},
         NEW i \in 1 .. index[h]
  PROVE  QuorumHas(i)
<1> DEFINE Q == {p \in Peer :
                   \E s \in stored : /\ s.peer = p
                                     /\ i \in DOMAIN s.entries
                                     /\ s.entries[i] = store.log[i]}
<1>1. out[h].entries \in Seq(Entry) /\ acks[h] \in SUBSET Peer /\ index[h] \in Nat
      /\ store.log \in Seq(Entry)
  BY DEF Typed, Requests, State
<1>2. i \in 1 .. Len(out[h].entries) /\ out[h].entries[i] = store.log[i]
  BY <1>1 DEF ThreadInv, RequestInLog, Begins
<1>3. ASSUME NEW p \in acks[h] PROVE p \in Q
  <2> DEFINE s == [peer |-> p, entries |-> out[h].entries]
  <2>1. s \in stored /\ s.peer = p /\ s.entries = out[h].entries
    BY DEF ThreadInv, RequestInLog
  <2>2. i \in DOMAIN out[h].entries /\ p \in Peer
    BY <1>1, <1>2
  <2> HIDE DEF s
  <2> QED
    BY <1>2, <2>1, <2>2
<1>4. Cardinality(acks[h]) \in Nat /\ Cardinality(Q) \in Nat
      /\ Cardinality(acks[h]) <= Cardinality(Q) /\ QuorumSize \in Nat
  <2>1. Q \in SUBSET Peer /\ acks[h] \in SUBSET Q
    BY <1>3
  <2> QED
    BY <2>1, MorePeers
<1>5. Cardinality(acks[h]) + 1 >= QuorumSize
  BY DEF ThreadInv, CommitsOwnEntry, HasQuorum
<1>6. Cardinality(Q) + 1 >= QuorumSize
  BY <1>4, <1>5
<1> QED
  BY <1>6 DEF QuorumHas

-----------------------------------------------------------------------------
\* A thread that does not move.
Still(g) == /\ pc'[g] = pc[g] /\ cmd'[g] = cmd[g] /\ index'[g] = index[g]
            /\ out'[g] = out[g] /\ acks'[g] = acks[g] /\ target'[g] = target[g]

\* What another thread does to the store of a leader leaves it as it was: the
\* log grows, and the commit index is raised by one thread at a time.
LEMMA StillStays ==
  ASSUME Typed, NEW g \in Thread, ThreadInv(g), Still(g),
         store' \in State, Begins(store.log, store'.log), stored \subseteq stored',
         \/ store'.commit = store.commit
         \/ store'.commit >= store.commit /\ pc[g] \notin {"set", "apply"}
  PROVE  ThreadInv(g)'
<1>1. /\ store.log \in Seq(Entry) /\ store'.log \in Seq(Entry)
      /\ store.commit \in Nat /\ store'.commit \in Nat
      /\ index[g] \in Nat /\ out[g].entries \in Seq(Entry)
  BY DEF Typed, State, Requests
<1>2. EntryInPlace(g)'
  BY <1>1 DEF ThreadInv, EntryInPlace, Still, Begins
<1>3. RequestInLog(g)'
  BY <1>1, BeginsAgain DEF ThreadInv, RequestInLog, Still
<1>4. CommitsOwnEntry(g)'
  BY <1>1 DEF ThreadInv, CommitsOwnEntry, HasQuorum, Still
<1> QED
  BY <1>2, <1>3, <1>4 DEF ThreadInv

\* A step of thread h that leaves the store alone.
LEMMA ThreadStep ==
  ASSUME ProposeInv, NEW h \in Thread, \A g \in Thread \ {h} : Still(g),
         Typed', store' = store, stored \subseteq stored', accepted' = accepted,
         Leads => ThreadInv(h)',
         pc'[h] \in {"compare", "set", "apply"}
           => pc[h] \in {"compare", "set", "apply"} \/ Committing = {}
  PROVE  ProposeInv'
<1>1. CommitInLog'
  BY DEF ProposeInv, CommitInLog
<1>2. OneCommits'
  <2>1. \A g \in Committing' : g \in Committing \/ g = h
    BY DEF Committing, Still
  <2>2. h \in Committing' => h \in Committing \/ Committing = {}
    BY DEF Committing
  <2> QED
    BY <2>1, <2>2 DEF ProposeInv, OneCommits
<1>3. ASSUME Leads PROVE LeaderInv'
  <2>0. LeaderInv /\ Typed
    BY <1>3 DEF ProposeInv
  <2>1. ASSUME NEW g \in Thread PROVE ThreadInv(g)'
    <3>1. CASE g = h
      BY <1>3, <3>1
    <3>2. CASE g # h
      <4>1. store.log \in Seq(Entry) /\ store \in State
        BY <2>0 DEF Typed, State
      <4>2. Begins(store.log, store'.log) /\ store' \in State
        BY <4>1, BeginsAgain
      <4>3. ThreadInv(g) /\ Still(g) /\ store'.commit = store.commit
        BY <2>0, <3>2 DEF LeaderInv
      <4> QED
        BY <2>0, <4>2, <4>3, StillStays
    <3> QED
      BY <3>1, <3>2
  <2>2. AcceptedInLog' /\ AppliedInLog'
    BY <2>0 DEF LeaderInv, AcceptedInLog, AppliedInLog
  <2>3. CommittedHasQuorum'
    <3>1. \A i \in 1 .. store.commit : QuorumHas(i)'
      BY <2>0, QuorumStays DEF LeaderInv, CommittedHasQuorum
    <3> QED
      BY <3>1 DEF CommittedHasQuorum
  <2> QED
    BY <2>1, <2>2, <2>3 DEF LeaderInv
<1>4. Leads' => Leads
  BY DEF Leads
<1> QED
  BY <1>1, <1>2, <1>3, <1>4 DEF ProposeInv

\* Nothing is proposed, replicated or applied at the start.
LEMMA InitProposeInv == Init => ProposeInv
<1> SUFFICES ASSUME Init PROVE ProposeInv
  OBVIOUS
<1>1. <<>> \in Seq(Entry)
  BY EmptySeq
<1>2. store \in State /\ store.log = <<>> /\ store.commit = 0 /\ store.applied = <<>>
  BY <1>1, ProposeAssumption DEF Init, Initial, State, Leader, Follower, Candidate
<1>3. Typed
  BY <1>1, <1>2, ProposeAssumption DEF Init, Typed, NoRequest, Requests
<1>4. CommitInLog /\ OneCommits
  BY <1>2 DEF CommitInLog, OneCommits, Committing, Init
<1>5. \A h \in Thread : ThreadInv(h)
  BY DEF Init, ThreadInv, EntryInPlace, RequestInLog, CommitsOwnEntry, Requested, Appended
<1>6. AcceptedInLog /\ CommittedHasQuorum
  BY <1>2 DEF Init, AcceptedInLog, CommittedHasQuorum
<1>7. AppliedInLog
  BY <1>2 DEF AppliedInLog
<1> QED
  BY <1>3, <1>4, <1>5, <1>6, <1>7 DEF ProposeInv, LeaderInv

-----------------------------------------------------------------------------
\* The calls of a thread up to its append.
LEMMA BeforeAppend ==
  ASSUME ProposeInv, NEW h \in Thread,
         \/ \E c \in Command : CheckRole(h, c)
         \/ ReadIndex(h)
         \/ ReadTerm(h)
  PROVE  ProposeInv'
<1> USE DEF CheckRole, ReadIndex, ReadTerm, Call, history, env
<1>1. Typed /\ store.log \in Seq(Entry) /\ store.term \in Nat
  BY DEF ProposeInv, Typed, State
<1>2. Typed'
  <2>1. CASE \E c \in Command : CheckRole(h, c)
    BY <1>1, <2>1 DEF Typed
  <2>2. CASE ReadIndex(h)
    <3>1. LastIndex(store.log) + 1 \in Nat
      BY <1>1 DEF LastIndex
    <3> QED
      BY <1>1, <2>2, <3>1 DEF Typed
  <2>3. CASE ReadTerm(h)
    BY <1>1, <2>3 DEF Typed
  <2> QED
    BY <2>1, <2>2, <2>3
<1>3. pc'[h] \in {"idle", "index", "term", "append"}
  BY <1>1 DEF Typed
<1>4. ThreadInv(h)'
  BY <1>3 DEF ThreadInv, EntryInPlace, RequestInLog, CommitsOwnEntry, Appended, Requested
<1>5. \A g \in Thread \ {h} : Still(g)
  BY <1>1 DEF Typed, Still
<1> QED
  BY <1>2, <1>3, <1>4, <1>5, ThreadStep

\* LogStore::Append: the entry is where the thread wanted it, or is not there.
LEMMA AppendKeeps ==
  ASSUME ProposeInv, NEW h \in Thread, AppendEntry(h) PROVE ProposeInv'
<1> USE DEF AppendEntry, Call, local, history, env
<1>1. Typed /\ store \in State /\ store.log \in Seq(Entry) /\ store.commit \in Nat
      /\ store.applied \in Seq(Entry)
  BY DEF ProposeInv, Typed, State
<1>2. \A g \in Thread \ {h} : Still(g)
  BY <1>1 DEF Typed, Still
<1>3. CASE index[h] # LastIndex(store.log) + 1
  <2>1. Typed' /\ store' = store /\ pc'[h] = "idle"
    BY <1>1, <1>3 DEF Typed
  <2>2. ThreadInv(h)'
    BY <2>1 DEF ThreadInv, EntryInPlace, RequestInLog, CommitsOwnEntry, Appended, Requested
  <2> QED
    BY <1>2, <2>1, <2>2, ThreadStep
<1>4. CASE index[h] = LastIndex(store.log) + 1
  <2> DEFINE e == [term |-> stamp[h], cmd |-> cmd[h]]
  <2>1. e \in Entry /\ e.cmd = cmd[h]
    BY <1>1 DEF Typed, Entry
  <2>2. store' = Proposed(store, e) /\ pc' = [pc EXCEPT ![h] = "commit"]
    BY <1>4
  <2> HIDE DEF e
  <2>3. /\ store' \in State /\ store'.commit = store.commit
        /\ store'.applied = store.applied /\ store'.role = store.role
        /\ Len(store'.log) = Len(store.log) + 1
        /\ store'.log[Len(store'.log)] = e /\ Begins(store.log, store'.log)
        /\ store'.log \in Seq(Entry)
    BY <1>1, <2>1, <2>2, ProposedIs DEF State
  <2>4. Typed'
    BY <1>1, <1>4, <2>2, <2>3 DEF Typed, Appended, Requested
  <2>5. CommitInLog'
    BY <1>1, <2>3 DEF ProposeInv, CommitInLog
  <2>6. pc'[h] = "commit"
    BY <1>1, <2>2 DEF Typed
  <2>7. OneCommits'
    BY <1>2, <2>6 DEF ProposeInv, OneCommits, Committing, Still
  <2>8. ASSUME Leads, LeaderInv PROVE LeaderInv'
    <3>1. ThreadInv(h)'
      <4>1. index[h] = Len(store'.log) /\ index[h] \in 1 .. Len(store'.log)
        BY <1>1, <1>4, <2>3 DEF LastIndex
      <4>2. EntryInPlace(h)'
        BY <1>4, <2>1, <2>3, <4>1 DEF EntryInPlace
      <4>3. RequestInLog(h)' /\ CommitsOwnEntry(h)'
        BY <2>6 DEF RequestInLog, CommitsOwnEntry, Requested
      <4> QED
        BY <4>2, <4>3 DEF ThreadInv
    <3>2. ASSUME NEW g \in Thread PROVE ThreadInv(g)'
      <4>1. CASE g = h
        BY <3>1, <4>1
      <4>2. CASE g # h
        BY <1>1, <1>2, <2>3, <2>8, <4>2, StillStays DEF LeaderInv
      <4> QED
        BY <4>1, <4>2
    <3>3. \A i \in 1 .. store.commit : store'.log[i] = store.log[i]
      BY <1>1, <2>3 DEF Begins, ProposeInv, CommitInLog
    <3>4. AcceptedInLog'
      BY <2>3, <2>8, <3>3 DEF LeaderInv, AcceptedInLog
    <3>5. CommittedHasQuorum'
      <4>1. \A i \in 1 .. store.commit : QuorumHas(i)'
        BY <2>8, <3>3, QuorumStays DEF LeaderInv, CommittedHasQuorum
      <4> QED
        BY <2>3, <4>1 DEF CommittedHasQuorum
    <3>6. AppliedInLog'
      <4>1. Len(store.applied) \in 0 .. Len(store.log)
        BY <1>1, <2>8 DEF LeaderInv, AppliedInLog, ProposeInv, CommitInLog
      <4> QED
        BY <1>1, <2>3, <2>8, <4>1, CutBegins DEF LeaderInv, AppliedInLog
    <3> QED
      BY <3>2, <3>4, <3>5, <3>6 DEF LeaderInv
  <2>9. Leads' => Leads
    BY <2>3 DEF Leads
  <2> QED
    BY <2>4, <2>5, <2>7, <2>8, <2>9 DEF ProposeInv
<1> QED
  BY <1>3, <1>4

\* The three reads that build a request.
LEMMA BuildKeeps ==
  ASSUME ProposeInv, NEW h \in Thread, ReadCommit(h) \/ BuildTerm(h) \/ BuildEntries(h)
  PROVE  ProposeInv'
<1> USE DEF ReadCommit, BuildTerm, BuildEntries, Call, history, env
<1>1. Typed /\ store.log \in Seq(Entry) /\ store.term \in Nat /\ store.commit \in Nat
  BY DEF ProposeInv, Typed, State
<1>2. out' \in [Thread -> Requests]
  <2>1. <<>> \in Seq(Entry) /\ out[h] \in Requests
    BY <1>1, EmptySeq DEF Typed
  <2>2. CASE ReadCommit(h)
    BY <1>1, <2>1, <2>2 DEF Typed, Requests, NoRequest
  <2>3. CASE BuildTerm(h)
    BY <1>1, <2>1, <2>3 DEF Typed, Requests
  <2>4. CASE BuildEntries(h)
    BY <1>1, <2>1, <2>4 DEF Typed, Requests
  <2> QED
    BY <2>2, <2>3, <2>4
<1>3. Typed'
  BY <1>1, <1>2 DEF Typed, Appended, Requested
<1>4. \A g \in Thread \ {h} : Still(g)
  BY <1>1 DEF Typed, Still
<1>5. /\ pc[h] \in Appended /\ pc'[h] \in {"build", "entries", "replicate"}
      /\ pc'[h] \in Requested => BuildEntries(h) /\ pc'[h] = "replicate"
  BY <1>1 DEF Typed, Appended, Requested
<1>6. ASSUME Leads PROVE ThreadInv(h)'
  <2>1. ThreadInv(h)
    BY <1>6 DEF ProposeInv, LeaderInv
  <2>2. EntryInPlace(h)'
    BY <1>5, <2>1 DEF ThreadInv, EntryInPlace
  <2>3. ASSUME BuildEntries(h) PROVE RequestInLog(h)'
    <3>1. out'[h].entries = store.log /\ acks'[h] = {}
      BY <1>1, <2>3 DEF Typed, Requests
    <3> QED
      BY <1>1, <1>5, <2>1, <3>1, BeginsAgain
      DEF RequestInLog, ThreadInv, EntryInPlace
  <2>4. RequestInLog(h)'
    BY <1>5, <2>3 DEF RequestInLog
  <2>5. CommitsOwnEntry(h)'
    BY <1>5 DEF CommitsOwnEntry, Requested
  <2> QED
    BY <2>2, <2>4, <2>5 DEF ThreadInv
<1> QED
  BY <1>3, <1>4, <1>5, <1>6, ThreadStep

\* Replicate: an answer, or none, from the next peer.
LEMMA AskKeeps ==
  ASSUME ProposeInv, NEW h \in Thread, NEW p \in Peer,
         Acknowledged(h, p) \/ NotAcknowledged(h, p)
  PROVE  ProposeInv'
<1> USE DEF Acknowledged, NotAcknowledged, Call, history, env
<1>1. Typed /\ out[h].term \in Nat
  BY DEF ProposeInv, Typed, Requests
<1>2. peerTerm' \in [Peer -> Nat]
  BY <1>1, ProposeAssumption DEF Typed
<1>3. Typed'
  BY <1>1, <1>2 DEF Typed, Appended, Requested
<1>4. \A g \in Thread \ {h} : Still(g)
  BY <1>1 DEF Typed, Still
<1>5. pc[h] = "replicate" /\ pc'[h] = "replicate"
  BY <1>1 DEF Typed
<1>6. ASSUME Leads PROVE ThreadInv(h)'
  <2>1. ThreadInv(h)
    BY <1>6 DEF ProposeInv, LeaderInv
  <2>2. EntryInPlace(h)' /\ CommitsOwnEntry(h)'
    BY <1>5, <2>1 DEF ThreadInv, EntryInPlace, CommitsOwnEntry, Requested, Appended
  <2>3. CASE Acknowledged(h, p)
    <3>1. acks'[h] = acks[h] \cup {p}
          /\ stored' = stored \cup {[peer |-> p, entries |-> out[h].entries]}
      BY <1>1, <2>3 DEF Typed
    <3>2. RequestInLog(h)'
      BY <1>5, <2>1, <2>3, <3>1 DEF ThreadInv, RequestInLog, Requested
    <3> QED
      BY <2>2, <3>2 DEF ThreadInv
  <2>4. CASE NotAcknowledged(h, p)
    <3>1. RequestInLog(h)'
      BY <1>5, <2>1, <2>4 DEF ThreadInv, RequestInLog, Requested
    <3> QED
      BY <2>2, <3>1 DEF ThreadInv
  <2> QED
    BY <2>3, <2>4
<1>7. stored \subseteq stored' /\ store' = store /\ accepted' = accepted
  OBVIOUS
<1> QED
  BY <1>3, <1>4, <1>5, <1>6, <1>7, ThreadStep

\* The answers are counted.
LEMMA CountKeeps ==
  ASSUME ProposeInv, NEW h \in Thread, CountReplicas(h) PROVE ProposeInv'
<1> USE DEF CountReplicas, Call, local, history, env
<1>1. Typed
  BY DEF ProposeInv
<1>2. Typed'
  BY <1>1 DEF Typed, Appended, Requested
<1>3. \A g \in Thread \ {h} : Still(g)
  BY <1>1 DEF Typed, Still
<1>4. pc[h] = "replicate" /\ (pc'[h] = "idle" \/ (pc'[h] = "bound" /\ HasQuorum(h)))
  BY <1>1 DEF Typed
<1>5. ASSUME Leads PROVE ThreadInv(h)'
  <2>1. ThreadInv(h)
    BY <1>5 DEF ProposeInv, LeaderInv
  <2> QED
    BY <1>4, <2>1 DEF ThreadInv, EntryInPlace, RequestInLog, CommitsOwnEntry,
                      HasQuorum, Requested, Appended
<1> QED
  BY <1>2, <1>3, <1>4, <1>5, ThreadStep

\* AdvanceCommit bounds the index by the log, which has it.
LEMMA BoundKeeps ==
  ASSUME ProposeInv, NEW h \in Thread, BoundTarget(h) \/ CompareTarget(h)
  PROVE  ProposeInv'
<1> USE DEF BoundTarget, CompareTarget, Call, local, history, env
<1>1. Typed /\ store.log \in Seq(Entry) /\ index[h] \in Nat /\ target[h] \in Nat
      /\ store.commit \in Nat
  BY DEF ProposeInv, Typed, State
<1>2. Typed'
  <2>1. Len(store.log) \in Nat
    BY <1>1
  <2>2. Smaller(index[h], LastIndex(store.log)) \in Nat
    BY <1>1, <2>1, SmallerIs DEF LastIndex
  <2> QED
    BY <1>1, <2>2 DEF Typed, Appended, Requested
<1>3. \A g \in Thread \ {h} : Still(g)
  BY <1>1 DEF Typed, Still
<1>4. ASSUME Leads PROVE ThreadInv(h)'
  <2>1. ThreadInv(h)
    BY <1>4 DEF ProposeInv, LeaderInv
  <2>2. CASE BoundTarget(h)
    <3>1. pc[h] = "bound" /\ pc'[h] = "compare"
          /\ target'[h] = Smaller(index[h], LastIndex(store.log))
      BY <1>1, <2>2 DEF Typed
    <3>2. target'[h] = index[h]
      BY <1>1, <2>1, <3>1 DEF ThreadInv, EntryInPlace, Smaller, LastIndex, Requested, Appended
    <3> QED
      BY <2>1, <2>2, <3>1, <3>2 DEF ThreadInv, EntryInPlace, RequestInLog,
                      CommitsOwnEntry, HasQuorum, Requested, Appended
  <2>3. CASE CompareTarget(h)
    <3>1. /\ pc[h] = "compare"
          /\ \/ pc'[h] = "notify" /\ target[h] <= store.commit
             \/ pc'[h] = "set" /\ target[h] > store.commit
      BY <1>1, <2>3 DEF Typed
    <3> QED
      BY <1>1, <2>1, <2>3, <3>1 DEF ThreadInv, EntryInPlace, RequestInLog,
                      CommitsOwnEntry, HasQuorum, Requested, Appended
  <2> QED
    BY <2>2, <2>3
<1>5. pc[h] = "compare" \/ Committing = {}
  OBVIOUS
<1> QED
  BY <1>2, <1>3, <1>4, <1>5, ThreadStep

\* SetCommitIndex raises the commit index to the thread's entry.
LEMMA SetKeeps ==
  ASSUME ProposeInv, NEW h \in Thread, SetCommitIndex(h) PROVE ProposeInv'
<1> USE DEF SetCommitIndex, Call, local, history, env
<1> DEFINE c == Smaller(target[h], LastIndex(store.log))
<1>1. /\ Typed /\ store \in State /\ store.log \in Seq(Entry)
      /\ store.commit \in Nat /\ target[h] \in Nat /\ Len(store.log) \in Nat
  BY DEF ProposeInv, Typed, State
<1>2. c \in Nat /\ c <= target[h] /\ c <= Len(store.log)
  BY <1>1, SmallerIs DEF LastIndex
<1>3. store' = [store EXCEPT !.commit = c]
  OBVIOUS
<1> HIDE DEF c
<1>4. /\ store' \in State /\ store'.commit = c /\ store'.log = store.log
      /\ store'.applied = store.applied /\ store'.role = store.role
  BY <1>1, <1>2, <1>3 DEF State
<1>5. Typed'
  BY <1>1, <1>4 DEF Typed, Appended, Requested
<1>6. CommitInLog'
  BY <1>2, <1>4 DEF CommitInLog
<1>7. \A g \in Thread \ {h} : Still(g)
  BY <1>1 DEF Typed, Still
<1>8. pc[h] = "set" /\ pc'[h] = "apply"
  BY <1>1 DEF Typed
<1>9. OneCommits'
  BY <1>7, <1>8 DEF ProposeInv, OneCommits, Committing, Still
<1>10. ASSUME Leads, LeaderInv PROVE LeaderInv'
  <2>1. ThreadInv(h)
    BY <1>10 DEF LeaderInv
  <2>2. /\ index[h] \in 1 .. Len(store.log) /\ target[h] = index[h]
        /\ store.commit < target[h]
    BY <1>8, <2>1 DEF ThreadInv, EntryInPlace, CommitsOwnEntry, Appended, Requested
  <2>3. c = index[h] /\ store.commit < c
    BY <1>1, <2>2 DEF c, Smaller, LastIndex
  <2>4. ThreadInv(h)'
    BY <1>4, <1>8, <2>1, <2>2, <2>3 DEF ThreadInv, EntryInPlace, RequestInLog,
                      CommitsOwnEntry, HasQuorum, Requested, Appended
  <2>5. ASSUME NEW g \in Thread \ {h} PROVE ThreadInv(g)'
    <3>1. pc[g] \notin {"set", "apply"}
      BY <1>8, <2>5 DEF ProposeInv, OneCommits, Committing
    <3>2. Begins(store.log, store'.log)
      BY <1>1, <1>4, BeginsAgain
    <3>3. ThreadInv(g) /\ Still(g) /\ store'.commit >= store.commit
          /\ stored \subseteq stored'
      BY <1>1, <1>2, <1>4, <1>7, <1>10, <2>3 DEF LeaderInv
    <3> QED
      BY <1>1, <1>4, <3>1, <3>2, <3>3, StillStays
  <2>6. AcceptedInLog'
    BY <1>1, <1>2, <1>4, <1>10, <2>3 DEF LeaderInv, AcceptedInLog
  <2>7. CommittedHasQuorum'
    <3>1. \A i \in 1 .. c : QuorumHas(i)
      BY <1>1, <1>8, <2>1, <2>3, QuorumOfRequest DEF Requested
    <3>2. \A i \in 1 .. c : QuorumHas(i)'
      BY <1>4, <3>1, QuorumStays
    <3> QED
      BY <1>4, <3>2 DEF CommittedHasQuorum
  <2>8. AppliedInLog'
    <3>1. Len(store.applied) \in Nat
      BY <1>1 DEF State
    <3> QED
      BY <1>1, <1>2, <1>4, <1>10, <2>3, <3>1 DEF LeaderInv, AppliedInLog
  <2> QED
    BY <2>4, <2>5, <2>6, <2>7, <2>8 DEF LeaderInv
<1>11. Leads' => Leads
  BY <1>4 DEF Leads
<1> QED
  BY <1>5, <1>6, <1>9, <1>10, <1>11 DEF ProposeInv

\* ApplyThrough gives the state machine the next entry, or ends.
LEMMA ApplyKeeps ==
  ASSUME ProposeInv, NEW h \in Thread, ApplyNext(h) PROVE ProposeInv'
<1> USE DEF Call, local, history, env
<1> DEFINE next == Len(store.applied) + 1
           more == next <= target[h] /\ next \in DOMAIN store.log
<1>1. /\ Typed /\ store \in State /\ store.log \in Seq(Entry)
      /\ store.applied \in Seq(Entry) /\ store.commit \in Nat
      /\ target[h] \in Nat /\ Len(store.log) \in Nat /\ Len(store.applied) \in Nat
  BY DEF ProposeInv, Typed, State
<1>2. /\ pc[h] = "apply" /\ pc' = [pc EXCEPT ![h] = IF more THEN "apply" ELSE "notify"]
      /\ store' = IF more THEN ApplyThrough(store, next) ELSE store
      /\ UNCHANGED <<local, env>>
  BY DEF ApplyNext
<1> HIDE DEF more
<1>3. \A g \in Thread \ {h} : Still(g)
  BY <1>1, <1>2 DEF Typed, Still
<1>4. CASE ~more
  <2>1. store' = store /\ pc'[h] = "notify" /\ Typed'
    BY <1>1, <1>2, <1>4 DEF Typed, Appended, Requested
  <2>2. ASSUME Leads PROVE ThreadInv(h)'
    <3>1. ThreadInv(h)
      BY <2>2 DEF ProposeInv, LeaderInv
    <3>2. index[h] <= store.commit
      BY <1>1, <1>2, <3>1 DEF ThreadInv, CommitsOwnEntry
    <3> QED
      BY <1>2, <2>1, <3>1, <3>2 DEF ThreadInv, EntryInPlace, RequestInLog,
                      CommitsOwnEntry, HasQuorum, Requested, Appended
  <2> QED
    BY <1>2, <1>3, <2>1, <2>2, ThreadStep
<1>5. CASE more
  <2>1. next \in 1 .. Len(store.log) /\ next <= target[h]
    BY <1>1, <1>5 DEF more
  <2>2. store' = ApplyThrough(store, next) /\ next \in Nat
    BY <1>1, <1>2, <1>5
  <2>3. /\ store' \in State /\ store'.log = store.log /\ store'.commit = store.commit
        /\ store'.role = store.role
        /\ \A k \in 0 .. Len(store.log) :
             store.applied = SubSeq(store.log, 1, k) /\ k <= next /\ next <= Len(store.log)
               => store'.applied = SubSeq(store.log, 1, next)
    BY <1>1, <2>2, ApplyThroughIs
  <2>4. Typed' /\ pc'[h] = pc[h] /\ Still(h)
    BY <1>1, <1>2, <1>5, <2>3 DEF Typed, Appended, Requested, Still
  <2>5. CommitInLog' /\ OneCommits'
    <3>1. Committing' = Committing
      BY <1>3, <2>4 DEF Committing, Still
    <3> QED
      BY <2>3, <3>1 DEF ProposeInv, CommitInLog, OneCommits
  <2>6. ASSUME Leads, LeaderInv PROVE LeaderInv'
    <3>1. ASSUME NEW g \in Thread PROVE ThreadInv(g)'
      <4>1. Begins(store.log, store'.log) /\ Still(g) /\ stored \subseteq stored'
        BY <1>1, <1>2, <1>3, <2>3, <2>4, BeginsAgain
      <4> QED
        BY <1>1, <2>3, <2>6, <4>1, StillStays DEF LeaderInv
    <3>2. AcceptedInLog'
      BY <1>2, <2>3, <2>6 DEF LeaderInv, AcceptedInLog
    <3>3. CommittedHasQuorum'
      <4>1. stored' = stored
        BY <1>2
      <4>2. \A i \in 1 .. store.commit : QuorumHas(i)'
        BY <2>3, <2>6, <4>1, QuorumStays DEF LeaderInv, CommittedHasQuorum
      <4> QED
        BY <2>3, <4>2 DEF CommittedHasQuorum
    <3>4. AppliedInLog'
      <4>1. store.applied = SubSeq(store.log, 1, next - 1) /\ next - 1 \in 0 .. Len(store.log)
        BY <1>1, <2>1, <2>6 DEF LeaderInv, AppliedInLog
      <4>2. store'.applied = SubSeq(store.log, 1, next)
        BY <1>1, <2>1, <2>3, <4>1
      <4>3. Len(store'.applied) = next
        BY <1>1, <2>1, <4>2, CutIs
      <4>4. target[h] = store.commit
        BY <1>2, <2>6 DEF LeaderInv, ThreadInv, CommitsOwnEntry
      <4> QED
        BY <2>1, <2>3, <4>2, <4>3, <4>4 DEF AppliedInLog
    <3> QED
      BY <3>1, <3>2, <3>3, <3>4 DEF LeaderInv
  <2>7. Leads' => Leads
    BY <2>3 DEF Leads
  <2> QED
    BY <2>4, <2>5, <2>6, <2>7 DEF ProposeInv
<1> QED
  BY <1>4, <1>5

\* The client is told that its command is committed.
LEMMA AnswerKeeps ==
  ASSUME ProposeInv, NEW h \in Thread, NotifyAndAnswer(h) PROVE ProposeInv'
<1> USE DEF NotifyAndAnswer, Call, local
<1>1. Typed /\ store \in State /\ store.log \in Seq(Entry)
  BY DEF ProposeInv, Typed, State
<1>2. Typed' /\ pc[h] = "notify" /\ pc'[h] = "idle"
  BY <1>1 DEF Typed
<1>3. \A g \in Thread \ {h} : Still(g)
  BY <1>1 DEF Typed, Still
<1>4. CommitInLog' /\ OneCommits'
  BY <1>2, <1>3 DEF ProposeInv, CommitInLog, OneCommits, Committing, Still
<1>5. ASSUME Leads, LeaderInv PROVE LeaderInv'
  <2>1. ThreadInv(h)'
    BY <1>2 DEF ThreadInv, EntryInPlace, RequestInLog, CommitsOwnEntry, Appended, Requested
  <2>2. ASSUME NEW g \in Thread \ {h} PROVE ThreadInv(g)'
    <3>1. Begins(store.log, store'.log) /\ Still(g) /\ stored \subseteq stored'
      BY <1>1, <1>3, BeginsAgain
    <3> QED
      BY <1>1, <1>5, <3>1, StillStays DEF LeaderInv
  <2>3. /\ index[h] \in 1 .. store.commit /\ store.log[index[h]].cmd = cmd[h]
    BY <1>1, <1>2, <1>5 DEF LeaderInv, ThreadInv, EntryInPlace, CommitsOwnEntry,
                            Appended, Requested, State
  <2>4. AcceptedInLog'
    BY <1>5, <2>3 DEF LeaderInv, AcceptedInLog
  <2>5. CommittedHasQuorum'
    <3>1. \A i \in 1 .. store.commit : QuorumHas(i)'
      BY <1>5, QuorumStays DEF LeaderInv, CommittedHasQuorum
    <3> QED
      BY <3>1 DEF CommittedHasQuorum
  <2>6. AppliedInLog'
    BY <1>5 DEF LeaderInv, AppliedInLog
  <2> QED
    BY <2>1, <2>2, <2>4, <2>5, <2>6 DEF LeaderInv
<1>6. Leads' => Leads
  BY DEF Leads
<1> QED
  BY <1>2, <1>4, <1>5, <1>6 DEF ProposeInv

-----------------------------------------------------------------------------
\* How much of the log the next leader has: it is well defined, because the
\* commit index is within the log.
LEMMA KeptIs ==
  ASSUME store \in State, CommitInLog
  PROVE  Kept \in store.commit .. Len(store.log)
<1> DEFINE n == Len(store.log)
           Asked(i) == \E h \in Thread : HasQuorum(h) /\ Len(out[h].entries) >= i
           K == {k \in 0 .. n : k = store.commit \/ (k >= store.commit /\ Asked(k))}
           B == {k \in 0 .. n : \A i \in K : i <= k}
           Good(k) == /\ \A i \in k + 1 .. n : ~Asked(i)
                      /\ k >= store.commit
                      /\ k = store.commit \/ Asked(k)
<1>1. n \in Nat /\ store.commit \in 0 .. n
  BY DEF State, CommitInLog
<1> HIDE DEF n, Asked
<1>2. n \in B /\ B \in SUBSET Nat
  BY <1>1
<1>3. PICK k \in B : \A j \in B : k <= j
  BY <1>2, Least
<1>4. k \in K
  <2>1. CASE k = 0
    BY <1>1, <1>3, <2>1
  <2>2. CASE k # 0 /\ k \notin K
    <3>1. k - 1 \in 0 .. n /\ \A i \in K : i <= k - 1
      BY <1>1, <1>3, <2>2
    <3>2. k - 1 \in B
      BY <3>1
    <3> QED
      BY <1>1, <1>3, <3>2
  <2> QED
    BY <2>1, <2>2
<1>5. Good(k)
  <2>1. \A i \in k + 1 .. n : i \notin K
    BY <1>1, <1>3
  <2> QED
    BY <1>1, <1>3, <1>4, <2>1
<1>6. \E j \in 0 .. n : Good(j)
  BY <1>3, <1>5
<1>7. Kept = CHOOSE j \in 0 .. n : Good(j)
  BY DEF Kept, Asked, n
<1> HIDE DEF Good
<1>8. Kept \in 0 .. n /\ Good(Kept)
  BY <1>6, <1>7
<1> QED
  BY <1>1, <1>8 DEF Good, n

\* Another leader: the node does not lead any more, the types stay.
LEMMA FollowKeeps ==
  ASSUME ProposeInv, NEW t \in 1 .. MaxTerm, FollowOther(t) PROVE ProposeInv'
<1> DEFINE log == Append(SubSeq(store.log, 1, Kept), [term |-> t, cmd |-> Other])
           s == Observed(store, t)
           new == Merged(s.log, log)
<1>1. Typed /\ store \in State /\ store.log \in Seq(Entry) /\ CommitInLog /\ t \in Nat
  BY ProposeAssumption DEF ProposeInv, Typed, State
<1>2. log \in Seq(Entry)
  <2>1. Kept \in 0 .. Len(store.log)
    BY <1>1, KeptIs DEF State
  <2>2. SubSeq(store.log, 1, Kept) \in Seq(Entry)
    BY <1>1, <2>1, CutIs
  <2>3. [term |-> t, cmd |-> Other] \in Entry
    BY <1>1, ProposeAssumption DEF Entry
  <2> QED
    BY <2>2, <2>3
<1>3. s \in State /\ s.role = Follower /\ s.log \in Seq(Entry)
  BY <1>1, ObservedIs DEF State
<1>4. new \in Seq(Entry) /\ store' = WithLog(s, new)
  BY <1>2, <1>3, MergedIsLog DEF FollowOther
<1> HIDE DEF log, s, new
<1>5. /\ store' \in State /\ store'.role = Follower
      /\ store'.commit <= Len(store'.log)
  BY <1>3, <1>4, WithLogIs
<1>6. peerTerm' \in [Peer -> Nat]
  BY <1>1 DEF FollowOther, Typed
<1>7. Typed'
  BY <1>1, <1>5, <1>6 DEF FollowOther, Typed, local, history
<1>8. CommitInLog' /\ OneCommits' /\ ~Leads'
  BY <1>5 DEF FollowOther, CommitInLog, OneCommits, Committing, ProposeInv, Leads,
              Leader, Follower
<1> QED
  BY <1>7, <1>8 DEF ProposeInv

\* Every step of a proposer, of the replies, of the log's and of the commit
\* manager's mutex keeps the invariant.
LEMMA NextProposeInv == ProposeInv /\ [Next]_vars => ProposeInv'
<1> SUFFICES ASSUME ProposeInv, [Next]_vars PROVE ProposeInv'
  OBVIOUS
<1>1. ASSUME NEW h \in Thread, Run(h) PROVE ProposeInv'
  BY <1>1, BeforeAppend, AppendKeeps, BuildKeeps, AskKeeps, CountKeeps, BoundKeeps,
     SetKeeps, ApplyKeeps, AnswerKeeps DEF Run
<1>2. ASSUME NEW h \in Thread, NEW c \in Command, CheckRole(h, c) PROVE ProposeInv'
  BY <1>2, BeforeAppend
<1>3. ASSUME NEW h \in Thread, NEW p \in Peer, Acknowledged(h, p) PROVE ProposeInv'
  BY <1>3, AskKeeps
<1>4. ASSUME NEW t \in 1 .. MaxTerm, FollowOther(t) PROVE ProposeInv'
  BY <1>4, FollowKeeps
<1>5. CASE UNCHANGED vars
  <2> USE <1>5 DEF vars, local, history
  <2>1. Typed' /\ CommitInLog' /\ OneCommits'
    BY DEF ProposeInv, Typed, CommitInLog, OneCommits, Committing
  <2>2. LeaderInv => LeaderInv'
    BY DEF LeaderInv, ThreadInv, EntryInPlace, RequestInLog, CommitsOwnEntry,
           HasQuorum, AcceptedInLog, CommittedHasQuorum, QuorumHas, AppliedInLog
  <2> QED
    BY <2>1, <2>2 DEF ProposeInv, Leads
<1> QED
  BY <1>1, <1>2, <1>3, <1>4, <1>5 DEF Next

\* The inductive invariant of concurrent proposals.
THEOREM ProposeInvHolds == Spec => []ProposeInv
  BY InitProposeInv, NextProposeInv, PTL DEF Spec

\* While the node leads, an entry a client was told is committed is in its
\* log at the index answered, whichever threads propose and however their
\* steps mix (raft_node.cpp:95-99,113).
THEOREM AcceptedStaysInLog == Spec => []AcceptedIsInLog
<1>1. ProposeInv => AcceptedIsInLog
  BY DEF ProposeInv, LeaderInv, AcceptedInLog, AcceptedIsInLog
<1> QED
  BY <1>1, ProposeInvHolds, PTL

\* While the node leads, its commit index covers no entry that a majority
\* does not hold, although several proposals move it without looking at each
\* other (raft_node.cpp:105-114).
THEOREM CommitKeepsQuorum == Spec => []CommitHasQuorum
<1>1. ProposeInv => CommitHasQuorum
  BY DEF ProposeInv, LeaderInv, CommittedHasQuorum, QuorumHas, CommitHasQuorum
<1> QED
  BY <1>1, ProposeInvHolds, PTL

\* While the node leads, its state machine is given committed entries only,
\* each once and in the log's order, whichever thread commits them
\* (commit_manager.cpp:33,50).
THEOREM LeaderAppliesInOrder == Spec => []AppliedIsCommitted
<1>1. ProposeInv => TypeOK
  BY DEF ProposeInv, Typed, TypeOK, Requests
<1>2. ProposeInv => AppliedIsCommitted
  BY <1>1 DEF ProposeInv, LeaderInv, AppliedInLog, AppliedIsCommitted
<1> QED
  BY <1>2, ProposeInvHolds, PTL
=============================================================================
