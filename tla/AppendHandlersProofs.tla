------------------------ MODULE AppendHandlersProofs ------------------------
(***************************************************************************)
(* Proofs about AppendHandlers for any number of threads, any requests and *)
(* any interleaving, those in which stale requests damage the log too.     *)
(*                                                                         *)
(* Three invariants stand beside the types.  While no request contradicts  *)
(* another, the log only grows.  Under one leader every log a handler may  *)
(* still write is on that leader's line, so that a vote given on the way   *)
(* was due.  A handler that runs alone has done, at each of its labels, a  *)
(* known part of what RaftLocal's operator does at once.                   *)
(***************************************************************************)
EXTENDS AppendHandlers, RaftLocalProofs, Integers, TLAPS

Labels == {"idle", "previous", "look", "cut", "again", "append", "target",
           "bound", "compare", "set", "apply"}

\* TypeOK in the form the induction needs, and what a running handler's
\* position says about its request.
Typed == /\ term \in Nat /\ log \in Seq(Entry) /\ commit \in Nat
         /\ applied \in Seq(Entry)
         /\ pc \in [Thread -> Labels]
         /\ scenario \in Scenarios
         /\ req \in [Thread -> scenario.sent \cup {NoRequest}]
         /\ \A h \in Thread : pc[h] # "idle" => req[h] \in scenario.sent
         /\ pos \in [Thread -> Nat] /\ target \in [Thread -> Nat]
         /\ pending \subseteq scenario.sent /\ acked \subseteq scenario.sent
         /\ alone \in BOOLEAN

Positioned == \A h \in Thread :
                pc[h] \in {"look", "cut", "again", "append"}
                  => pos[h] \in DOMAIN req[h].entries

IInv == Typed /\ Positioned /\ CommitWithinLog /\ BallotOK

\* A cut log is a log (TruncateSuffix).
LEMMA PrefixIsLog ==
  ASSUME NEW l \in Seq(Entry), NEW k \in Nat, k <= Len(l)
  PROVE SubSeq(l, 1, k) \in Seq(Entry)
<1>1. \A i \in 1 .. k : l[i] \in Entry
  OBVIOUS
<1> QED
  BY <1>1

\* Every scenario starts with nothing committed.
LEMMA InitIInv == Init => IInv
  BY HandlersAssumption, LastTermIs
  DEF Init, IInv, Typed, Positioned, CommitWithinLog, BallotOK, Labels

\* The loop control moves to an entry of the request or out of the loop.
LEMMA LoopIsPositioned ==
  ASSUME Typed, Positioned, NEW h \in Thread, pc[h] # "idle",
         NEW i \in Nat \ {0}, Loop(h, i), UNCHANGED <<req, scenario>>
  PROVE /\ pc' \in [Thread -> Labels] /\ pos' \in [Thread -> Nat]
        /\ \A g \in Thread : pc'[g] # "idle" => pc[g] # "idle"
        /\ Positioned'
<1>1. req[h] \in scenario.sent /\ req[h].entries \in Seq(Entry)
  BY HandlersAssumption DEF Typed
<1>2. /\ pc' \in [Thread -> Labels] /\ pos' \in [Thread -> Nat]
      /\ \A g \in Thread : g # h => pc'[g] = pc[g] /\ pos'[g] = pos[g]
      /\ pc'[h] \in {"look", "target"}
      /\ pc'[h] = "look" => pos'[h] = i /\ i <= Len(req[h].entries)
  BY DEF Loop, Goto, Typed, Labels
<1>3. ASSUME NEW g \in Thread, pc'[g] \in {"look", "cut", "again", "append"}
      PROVE pos'[g] \in DOMAIN req'[g].entries
  <2>1. CASE g = h
    BY <1>1, <1>2, <1>3, <2>1
  <2>2. CASE g # h
    BY <1>2, <1>3, <2>2 DEF Positioned
  <2> QED
    BY <2>1, <2>2
<1> QED
  BY <1>2, <1>3 DEF Positioned

\* Handlers of AppendEntries leave a vote that is being cast alone.
LEMMA CallKeepsBallot ==
  ASSUME BallotOK, NEW h \in Thread, Call(h) PROVE BallotOK'
<1>1. UNCHANGED <<ballot, scenario>>
  BY DEF Call, ValidatePreviousLog, LookForConflict, TruncateSuffix, LookAgain,
         AppendEntry, CommitTarget, BoundTarget, CompareTarget,
         SetCommitIndex, ApplyNext, Keep
<1> QED
  BY <1>1 DEF BallotOK

\* One step of one handler.
LEMMA HandleKeepsIInv ==
  ASSUME IInv, NEW h \in Thread, Handle(h) PROVE IInv'
<1> USE DEF IInv
<1>b. Call(h) /\ BallotOK'
  BY CallKeepsBallot DEF Handle
<1> SUFFICES (Typed /\ Positioned /\ CommitWithinLog)'
  BY <1>b
<1>0. /\ pc[h] \in Labels /\ pos[h] \in Nat /\ target[h] \in Nat
      /\ Len(log) \in Nat /\ commit \in Nat /\ commit <= Len(log)
  BY DEF Typed, CommitWithinLog
<1>r. pc[h] # "idle" => /\ req[h] \in scenario.sent /\ req[h].commit \in Nat
                        /\ req[h].entries \in Seq(Entry)
  BY HandlersAssumption DEF Typed
<1>p. pc[h] \in {"look", "cut", "again", "append"} =>
        pos[h] \in 1 .. Len(req[h].entries) /\ pos[h] + 1 \in Nat \ {0}
  BY <1>r DEF Positioned
<1>1. CASE ValidatePreviousLog(h)
  <2>1. CASE Loop(h, 1)
    <3>1. /\ pc[h] # "idle" /\ 1 \in Nat \ {0}
          /\ UNCHANGED <<term, log, commit, applied, req, target, acked,
                         pending, scenario, alone>>
      BY <1>1 DEF ValidatePreviousLog, At, Keep, store
    <3>2. /\ pc' \in [Thread -> Labels] /\ pos' \in [Thread -> Nat]
          /\ \A g \in Thread : pc'[g] # "idle" => pc[g] # "idle"
          /\ Positioned'
      BY <2>1, <3>1, LoopIsPositioned
    <3> QED
      BY <3>1, <3>2 DEF Typed, CommitWithinLog
  <2>2. CASE Goto(h, "idle") /\ UNCHANGED pos
    BY <1>1, <2>2
    DEF ValidatePreviousLog, Goto, At, Keep, store, Typed, Labels, Positioned,
        CommitWithinLog
  <2> QED
    BY <1>1, <2>1, <2>2 DEF ValidatePreviousLog
<1>2. CASE LookForConflict(h)
  BY <1>2 DEF LookForConflict, Goto, At, Keep, store, Typed, Labels,
              Positioned, CommitWithinLog
<1>3. CASE TruncateSuffix(h)
  <2>1. pos[h] - 1 \in Nat
    BY <1>3, <1>p DEF TruncateSuffix, At
  <2>2. /\ Smaller(pos[h] - 1, Len(log)) \in Nat
        /\ Smaller(pos[h] - 1, Len(log)) <= Len(log)
    BY <1>0, <2>1, SmallerIs
  <2>3. log' \in Seq(Entry)
    BY <1>3, <2>2, PrefixIsLog DEF TruncateSuffix, Typed
  <2>4. commit' \in Nat /\ commit' <= Len(log')
    <3>1. Len(log') \in Nat /\ commit' = Smaller(commit, Len(log'))
      BY <1>3, <2>3 DEF TruncateSuffix
    <3> QED
      BY <1>0, <3>1, SmallerIs
  <2> QED
    BY <1>3, <2>3, <2>4
    DEF TruncateSuffix, Goto, At, Keep, Typed, Labels, Positioned,
        CommitWithinLog
<1>4. CASE LookAgain(h)
  <2>1. CASE Loop(h, pos[h] + 1)
    <3>1. /\ pc[h] # "idle" /\ pos[h] + 1 \in Nat \ {0}
          /\ UNCHANGED <<term, log, commit, applied, req, target, acked,
                         pending, scenario, alone>>
      BY <1>4, <1>p DEF LookAgain, At, Keep, store
    <3>2. /\ pc' \in [Thread -> Labels] /\ pos' \in [Thread -> Nat]
          /\ \A g \in Thread : pc'[g] # "idle" => pc[g] # "idle"
          /\ Positioned'
      BY <2>1, <3>1, LoopIsPositioned
    <3> QED
      BY <3>1, <3>2 DEF Typed, CommitWithinLog
  <2>2. CASE Goto(h, "append") /\ UNCHANGED pos
    BY <1>4, <2>2
    DEF LookAgain, Goto, At, Keep, store, Typed, Labels, Positioned,
        CommitWithinLog
  <2> QED
    BY <1>4, <2>1, <2>2 DEF LookAgain
<1>5. CASE AppendEntry(h)
  <2>1. CASE /\ log' = Append(log, req[h].entries[pos[h]])
             /\ Loop(h, pos[h] + 1)
    <3>1. req[h].entries[pos[h]] \in Entry
      BY <1>5, <1>r, <1>p DEF AppendEntry, At
    <3>2. log' \in Seq(Entry) /\ Len(log') = Len(log) + 1
      BY <2>1, <3>1 DEF Typed
    <3>3. /\ pc' \in [Thread -> Labels] /\ pos' \in [Thread -> Nat]
          /\ \A g \in Thread : pc'[g] # "idle" => pc[g] # "idle"
          /\ Positioned'
      BY <1>5, <1>p, <2>1, LoopIsPositioned DEF AppendEntry, At, Keep
    <3>4. commit' <= Len(log')
      BY <1>0, <1>5, <3>2 DEF AppendEntry, Keep
    <3> QED
      BY <1>5, <3>2, <3>3, <3>4 DEF AppendEntry, Keep, Typed, CommitWithinLog
  <2>2. CASE Goto(h, "idle") /\ UNCHANGED <<log, pos>>
    BY <1>5, <2>2
    DEF AppendEntry, Goto, At, Keep, Typed, Labels, Positioned,
        CommitWithinLog
  <2> QED
    BY <1>5, <2>1, <2>2 DEF AppendEntry
<1>6. CASE CommitTarget(h)
  <2>1. Smaller(req[h].commit, Len(log)) \in Nat
    BY <1>0, <1>6, <1>r, SmallerIs DEF CommitTarget, At
  <2> QED
    BY <1>6, <2>1
    DEF CommitTarget, Goto, At, Keep, store, Typed, Labels, Positioned,
        CommitWithinLog
<1>7. CASE BoundTarget(h)
  <2>1. Smaller(target[h], Len(log)) \in Nat
    BY <1>0, SmallerIs
  <2> QED
    BY <1>7, <2>1
    DEF BoundTarget, Goto, At, Keep, store, Typed, Labels, Positioned,
        CommitWithinLog
<1>8. CASE CompareTarget(h)
  BY <1>8, <1>r DEF CompareTarget, Succeed, Goto, At, Keep, store, Typed,
              Labels, Positioned, CommitWithinLog
<1>9. CASE SetCommitIndex(h)
  <2>1. /\ Smaller(target[h], Len(log)) \in Nat
        /\ Smaller(target[h], Len(log)) <= Len(log)
    BY <1>0, SmallerIs
  <2> QED
    BY <1>9, <2>1
    DEF SetCommitIndex, Goto, At, Keep, Typed, Labels, Positioned,
        CommitWithinLog
<1>10. CASE ApplyNext(h)
  <2>1. CASE UNCHANGED <<pc, acked>>
    <3>1. applied' \in Seq(Entry)
      <4>1. applied \in Seq(Entry) /\ \A i \in DOMAIN log : log[i] \in Entry
        BY DEF Typed
      <4>2. \/ /\ Len(applied) + 1 \in DOMAIN log
               /\ applied' = Append(applied, log[Len(applied) + 1])
            \/ applied' = applied
        BY <1>10 DEF ApplyNext
      <4> QED
        BY <4>1, <4>2
    <3> QED
      BY <1>10, <2>1, <3>1 DEF ApplyNext, Keep, Typed, Positioned, CommitWithinLog
  <2>2. CASE Succeed(h) /\ UNCHANGED applied
    BY <1>10, <1>r, <2>2
    DEF ApplyNext, Succeed, Goto, At, Keep, Typed, Labels, Positioned,
        CommitWithinLog
  <2> QED
    BY <1>10, <2>1, <2>2 DEF ApplyNext
<1> QED
  BY <1>b, <1>1, <1>2, <1>3, <1>4, <1>5, <1>6, <1>7, <1>8, <1>9, <1>10 DEF Call

\* Nor does a vote request, which changes nothing but the term.
LEMMA VoteKeepsIInv == ASSUME IInv, HandleVoteRequest PROVE IInv'
<1>1. UNCHANGED <<log, commit, applied, pc, req, pos, target, pending,
                  scenario, acked, alone>>
  BY DEF HandleVoteRequest, control, history
<1>2. term' \in Nat /\ BallotOK'
  <2>1. ASSUME NEW v \in scenario.votes, TakeVoteRequest(v)
        PROVE term' \in Nat /\ BallotOK'
    <3>1. v.term \in Nat
      BY HandlersAssumption DEF IInv, Typed
    <3> QED
      BY <1>1, <2>1, <3>1 DEF TakeVoteRequest, BallotOK
  <2>2. CASE ReadLastTerm
    <3>1. LastTerm(log) \in Nat
      BY LastTermIs DEF IInv, Typed
    <3>2. ballot \in [at : {"term", "index"}, request : scenario.votes,
                      lastTerm : Nat]
      BY <2>2 DEF ReadLastTerm, IInv, BallotOK, NoBallot
    <3> QED
      BY <1>1, <2>2, <3>1, <3>2 DEF ReadLastTerm, IInv, Typed, BallotOK
  <2>3. CASE Vote
    BY <2>3 DEF Vote, IInv, Typed, BallotOK
  <2> QED
    BY <2>1, <2>2, <2>3 DEF HandleVoteRequest
<1> QED
  BY <1>1, <1>2 DEF IInv, Typed, Positioned, CommitWithinLog

\* No call of any thread breaks the invariant.
LEMMA NextIInv == IInv /\ [Next]_vars => IInv'
<1> SUFFICES ASSUME IInv, [Next]_vars PROVE IInv'
  OBVIOUS
<1>1. CASE \E h \in Thread : Handle(h)
  BY <1>1, HandleKeepsIInv
<1>2. ASSUME NEW h \in Thread, NEW m \in pending, ObserveLeader(h, m) PROVE IInv'
  <2>1. m \in scenario.sent /\ m.term \in Nat
    BY HandlersAssumption DEF IInv, Typed
  <2>2. Typed'
    BY <1>2, <2>1 DEF ObserveLeader, At, Goto, IInv, Typed, Labels
  <2>3. Positioned'
    BY <1>2 DEF ObserveLeader, At, Goto, IInv, Typed, Positioned
  <2>4. BallotOK'
    BY <1>2 DEF ObserveLeader, IInv, BallotOK
  <2> QED
    BY <1>2, <2>2, <2>3, <2>4 DEF ObserveLeader, IInv, CommitWithinLog
<1>3. CASE HandleVoteRequest
  BY <1>3, VoteKeepsIInv
<1>4. CASE UNCHANGED vars
  BY <1>4 DEF vars, store, control, history, voting, IInv, Typed, Positioned,
              CommitWithinLog, BallotOK
<1> QED
  BY <1>1, <1>2, <1>3, <1>4 DEF Next

\* The inductive invariant holds in every behaviour.
THEOREM SpecIInv == Spec => []IInv
  BY InitIInv, NextIInv, PTL DEF Spec

\* The commit index never points behind the log, however many handlers run
\* at once and whatever they cut.
THEOREM CommitStaysWithinLog == Spec => []CommitWithinLog
<1>1. IInv => CommitWithinLog
  BY DEF IInv
<1> QED
  BY <1>1, SpecIInv, PTL

\* Type correctness.
THEOREM TypeCorrect == Spec => []TypeOK
<1>1. IInv => TypeOK
  BY LocalAssumption DEF IInv, Typed, TypeOK, Now, State, Labels, Follower
<1> QED
  BY <1>1, SpecIInv, PTL

-----------------------------------------------------------------------------
\* When no request contradicts another one or the log the follower has, the
\* log only grows.  What it holds came with a request or was there already.
Grown ==
  /\ \A i \in DOMAIN log :
       \/ i \in DOMAIN scenario.log /\ log[i] = scenario.log[i]
       \/ \E m \in scenario.sent : i \in DOMAIN m.entries /\ log[i] = m.entries[i]
  /\ \A h \in Thread : pc[h] # "cut"

\* How many entries of its request a handler has found in the log or put there.
Done(h) ==
  IF pc[h] \in {"look", "again", "append"} THEN pos[h] - 1
  ELSE IF pc[h] \in {"target", "bound", "compare", "set", "apply"}
       THEN Len(req[h].entries) ELSE 0

Stored == /\ \A h \in Thread : Done(h) <= Len(log)
          /\ \A m \in acked : Len(m.entries) <= Len(log)

\* One handler at a time advances the commit index, by what the log has.
Bounded ==
  /\ \A h, g \in Committing : h = g
  /\ \A h \in Thread :
       /\ pc[h] \in {"compare", "set", "apply"} => target[h] <= Len(log)
       /\ pc[h] = "set" => commit < target[h]
       /\ pc[h] = "apply" => target[h] <= commit

Followed == /\ Len(applied) <= commit
            /\ \A i \in 1 .. Len(applied) : applied[i] = log[i]

GrowInv == Grown /\ Stored /\ Bounded /\ Followed

\* Then no handler ever meets a conflict.
LEMMA LogAgrees ==
  ASSUME IInv, Uncontested, Grown, NEW m \in scenario.sent
  PROVE  Agree(m.entries, log)
<1> SUFFICES ASSUME NEW i \in DOMAIN m.entries, i \in DOMAIN log
             PROVE  m.entries[i] = log[i]
  BY DEF Agree
<1>1. CASE i \in DOMAIN scenario.log /\ log[i] = scenario.log[i]
  BY <1>1 DEF Uncontested, Agree
<1>2. ASSUME NEW k \in scenario.sent, i \in DOMAIN k.entries, log[i] = k.entries[i]
      PROVE  m.entries[i] = log[i]
  BY <1>2 DEF Uncontested, OneLeader, Agree
<1> QED
  BY <1>1, <1>2 DEF Grown

\* The log is the one the follower has from before, and nothing is applied
\* beyond it.
LEMMA InitGrow == Init => GrowInv
<1> SUFFICES ASSUME Init PROVE GrowInv
  OBVIOUS
<1>1. /\ scenario \in Scenarios /\ log = scenario.log /\ log \in Seq(Entry)
      /\ commit = 0 /\ applied = <<>> /\ acked = {}
      /\ \A h \in Thread : pc[h] = "idle"
  BY HandlersAssumption DEF Init
<1>2. Len(log) \in Nat /\ Committing = {}
  BY <1>1 DEF Committing
<1> QED
  BY <1>1, <1>2 DEF GrowInv, Grown, Stored, Done, Bounded, Followed

\* What a step that leaves log, commit and applied as they are has to show.
LEMMA QuietGrow ==
  ASSUME IInv, GrowInv, NEW h \in Thread,
         UNCHANGED <<log, commit, applied, scenario, req>>,
         \A g \in Thread : g # h => /\ pc'[g] = pc[g] /\ pos'[g] = pos[g]
                                    /\ target'[g] = target[g],
         pc'[h] # "cut", Done(h)' <= Len(log),
         \A m \in acked' : m \in acked \/ Len(m.entries) <= Len(log),
         h \in Committing' => /\ Committing \subseteq {h}
                              /\ target'[h] <= Len(log)
                              /\ pc'[h] = "set" => commit < target'[h]
                              /\ pc'[h] = "apply" => target'[h] <= commit
  PROVE  GrowInv'
<1>1. \A g \in Thread : g # h => Done(g)' = Done(g)
  BY DEF Done
<1>2. Grown' /\ Stored' /\ Followed'
  BY <1>1 DEF GrowInv, Grown, Stored, Followed
<1>3. \A g \in Thread : g # h => (g \in Committing' <=> g \in Committing)
  BY DEF Committing
<1>4. \A f, g \in Committing' : f = g
  <2> SUFFICES ASSUME NEW f \in Committing', NEW g \in Committing' PROVE f = g
    OBVIOUS
  <2>1. f \in Thread /\ g \in Thread
    BY DEF Committing
  <2> QED
    BY <1>3, <2>1 DEF GrowInv, Bounded
<1>5. ASSUME NEW g \in Thread
      PROVE  /\ pc'[g] \in {"compare", "set", "apply"} => target'[g] <= Len(log')
             /\ pc'[g] = "set" => commit' < target'[g]
             /\ pc'[g] = "apply" => target'[g] <= commit'
  <2>1. CASE g = h
    BY <2>1 DEF Committing
  <2>2. CASE g # h
    BY <2>2 DEF GrowInv, Bounded
  <2> QED
    BY <2>1, <2>2
<1> QED
  BY <1>2, <1>4, <1>5 DEF GrowInv, Bounded

\* The loop control moves on past an entry that is in the log.
LEMMA LoopIsDone ==
  ASSUME IInv, NEW h \in Thread, req[h].entries \in Seq(Entry),
         NEW i \in Nat \ {0}, Loop(h, i), i - 1 <= Len(log'), Len(log') \in Nat,
         i <= Len(req[h].entries) + 1, req' = req
  PROVE  /\ pc'[h] \in {"look", "target"} /\ Done(h)' <= Len(log')
         /\ \A g \in Thread : g # h => pc'[g] = pc[g] /\ pos'[g] = pos[g]
<1>1. pc \in [Thread -> Labels] /\ pos \in [Thread -> Nat]
  BY DEF IInv, Typed
<1>2. CASE i <= Len(req[h].entries)
  <2>1. /\ pc' = [pc EXCEPT ![h] = "look"] /\ pos' = [pos EXCEPT ![h] = i]
    BY <1>2 DEF Loop, Goto
  <2> QED
    BY <1>1, <2>1 DEF Done
<1>3. CASE ~(i <= Len(req[h].entries))
  <2>1. pc' = [pc EXCEPT ![h] = "target"] /\ pos' = pos
    BY <1>3 DEF Loop, Goto
  <2>2. Len(req[h].entries) \in Nat /\ Len(req[h].entries) = i - 1
    BY <1>3
  <2>3. pc'[h] = "target"
    BY <1>1, <2>1
  <2>4. Done(h)' = Len(req[h].entries)
    BY <2>3 DEF Done
  <2> QED
    BY <1>1, <2>1, <2>2, <2>3, <2>4
<1> QED
  BY <1>2, <1>3

\* One step of one handler: the log grows by entries of its request, the
\* commit index by what the log has, the state machine by what is committed.
LEMMA CallKeepsGrow ==
  ASSUME IInv, Uncontested, GrowInv, NEW h \in Thread, Call(h)
  PROVE  GrowInv'
<1>0. /\ pc \in [Thread -> Labels] /\ pos \in [Thread -> Nat]
      /\ target \in [Thread -> Nat] /\ commit \in Nat /\ commit <= Len(log)
      /\ log \in Seq(Entry) /\ Len(log) \in Nat /\ applied \in Seq(Entry)
  BY DEF IInv, Typed, CommitWithinLog
<1>r. pc[h] # "idle" => /\ req[h] \in scenario.sent /\ req[h].commit \in Nat
                        /\ req[h].entries \in Seq(Entry)
                        /\ Agree(req[h].entries, log)
  BY HandlersAssumption, LogAgrees DEF IInv, Typed, GrowInv
<1>p. pc[h] \in {"look", "cut", "again", "append"} =>
        /\ pos[h] \in 1 .. Len(req[h].entries) /\ pos[h] + 1 \in Nat \ {0}
        /\ pos[h] \in Nat \ {0}
  BY <1>r DEF IInv, Positioned
<1>d. Done(h) <= Len(log)
  BY DEF GrowInv, Stored
<1>1. CASE ValidatePreviousLog(h)
  <2>0. /\ UNCHANGED <<log, commit, applied, scenario, req, target, acked>>
        /\ pc[h] = "previous"
    BY <1>1 DEF ValidatePreviousLog, At, Keep, store
  <2>1. CASE Loop(h, 1)
    <3>0. /\ 1 \in Nat \ {0} /\ 1 - 1 <= Len(log') /\ Len(log') \in Nat
          /\ req[h].entries \in Seq(Entry) /\ 1 <= Len(req[h].entries) + 1
      BY <1>0, <1>r, <2>0
    <3>1. /\ pc'[h] \in {"look", "target"} /\ Done(h)' <= Len(log')
          /\ \A g \in Thread : g # h => pc'[g] = pc[g] /\ pos'[g] = pos[g]
      BY <2>0, <2>1, <3>0, LoopIsDone
    <3> QED
      BY <2>0, <3>1, QuietGrow DEF Committing
  <2>2. CASE Goto(h, "idle") /\ UNCHANGED pos
    <3>1. pc'[h] = "idle" /\ \A g \in Thread : g # h => pc'[g] = pc[g]
      BY <1>0, <2>2 DEF Goto
    <3>2. Done(h)' <= Len(log) /\ h \notin Committing'
      BY <1>0, <3>1 DEF Done, Committing
    <3> QED
      BY <2>0, <2>2, <3>1, <3>2, QuietGrow
  <2> QED
    BY <1>1, <2>1, <2>2 DEF ValidatePreviousLog
<1>2. CASE LookForConflict(h)
  <2>0. /\ UNCHANGED <<log, commit, applied, scenario, req, pos, target, acked>>
        /\ pc[h] = "look"
    BY <1>2 DEF LookForConflict, At, Keep, store
  <2>1. ~(/\ pos[h] \in DOMAIN log
          /\ log[pos[h]].term # req[h].entries[pos[h]].term)
    BY <1>r, <1>p, <2>0 DEF Agree
  <2>2. pc'[h] = "again" /\ \A g \in Thread : g # h => pc'[g] = pc[g]
    BY <1>0, <1>2, <2>1 DEF LookForConflict, Goto
  <2>3. Done(h)' = Done(h)
    BY <2>0, <2>2 DEF Done
  <2> QED
    BY <1>d, <2>0, <2>2, <2>3, QuietGrow DEF Committing
<1>3. CASE TruncateSuffix(h)
  BY <1>3 DEF TruncateSuffix, At, GrowInv, Grown
<1>4. CASE LookAgain(h)
  <2>0. /\ UNCHANGED <<log, commit, applied, scenario, req, target, acked>>
        /\ pc[h] = "again"
    BY <1>4 DEF LookAgain, At, Keep, store
  <2>1. CASE pos[h] \in DOMAIN log /\ Loop(h, pos[h] + 1)
    <3>0. /\ pos[h] + 1 \in Nat \ {0} /\ (pos[h] + 1) - 1 <= Len(log')
          /\ Len(log') \in Nat /\ req[h].entries \in Seq(Entry)
          /\ pos[h] + 1 <= Len(req[h].entries) + 1
      BY <1>0, <1>r, <1>p, <2>0, <2>1
    <3>1. /\ pc'[h] \in {"look", "target"} /\ Done(h)' <= Len(log')
          /\ \A g \in Thread : g # h => pc'[g] = pc[g] /\ pos'[g] = pos[g]
      BY <2>0, <2>1, <3>0, LoopIsDone
    <3> QED
      BY <2>0, <3>1, QuietGrow DEF Committing
  <2>2. CASE Goto(h, "append") /\ UNCHANGED pos
    <3>1. pc'[h] = "append" /\ \A g \in Thread : g # h => pc'[g] = pc[g]
      BY <1>0, <2>2 DEF Goto
    <3>2. Done(h)' = Done(h)
      BY <2>0, <2>2, <3>1 DEF Done
    <3> QED
      BY <1>d, <2>0, <2>2, <3>1, <3>2, QuietGrow DEF Committing
  <2> QED
    BY <1>4, <2>1, <2>2 DEF LookAgain
<1>5. CASE AppendEntry(h)
  <2>0. /\ UNCHANGED <<commit, applied, scenario, req, target, acked>>
        /\ pc[h] = "append"
    BY <1>5 DEF AppendEntry, At, Keep
  <2>1. CASE /\ pos[h] = Len(log) + 1
             /\ log' = Append(log, req[h].entries[pos[h]])
             /\ Loop(h, pos[h] + 1)
    <3>1. /\ req[h].entries[pos[h]] \in Entry /\ pos[h] \in DOMAIN req[h].entries
      BY <1>r, <1>p, <2>0
    <3>2. /\ Len(log') = Len(log) + 1 /\ Len(log') \in Nat
          /\ DOMAIN log' = 1 .. Len(log')
          /\ \A i \in 1 .. Len(log) : log'[i] = log[i]
          /\ log'[Len(log) + 1] = req[h].entries[pos[h]]
      BY <1>0, <2>1, <3>1
    <3>3. /\ pc'[h] \in {"look", "target"} /\ Done(h)' <= Len(log')
          /\ \A g \in Thread : g # h => pc'[g] = pc[g] /\ pos'[g] = pos[g]
      BY <1>r, <1>p, <2>0, <2>1, <3>2, LoopIsDone
    <3>4. Grown'
      <4>1. ASSUME NEW i \in DOMAIN log'
            PROVE  \/ i \in DOMAIN scenario.log /\ log'[i] = scenario.log[i]
                   \/ \E m \in scenario.sent :
                        i \in DOMAIN m.entries /\ log'[i] = m.entries[i]
        <5>1. CASE i \in DOMAIN log
          <6>0. DOMAIN log = 1 .. Len(log)
            BY <1>0
          <6>1. log'[i] = log[i]
            BY <3>2, <5>1, <6>0
          <6> QED
            BY <5>1, <6>1 DEF GrowInv, Grown
        <5>2. CASE i \notin DOMAIN log
          <6>1. i = Len(log) + 1
            BY <1>0, <3>2, <5>2
          <6> QED
            BY <1>r, <2>0, <2>1, <3>1, <3>2, <6>1
        <5> QED
          BY <5>1, <5>2
      <4>2. \A g \in Thread : pc'[g] # "cut"
        BY <3>3 DEF GrowInv, Grown
      <4> QED
        BY <2>0, <4>1, <4>2 DEF Grown
    <3>5. Stored'
      <4>1. \A m \in acked : Len(m.entries) <= Len(log')
        <5> SUFFICES ASSUME NEW m \in acked PROVE Len(m.entries) <= Len(log')
          OBVIOUS
        <5>1. Len(m.entries) \in Nat /\ Len(m.entries) <= Len(log)
          BY HandlersAssumption DEF IInv, Typed, GrowInv, Stored
        <5> QED
          BY <1>0, <3>2, <5>1
      <4>2. ASSUME NEW g \in Thread PROVE Done(g)' <= Len(log')
        <5>1. CASE g = h
          BY <3>3, <5>1
        <5>2. CASE g # h
          <6>1. Done(g)' = Done(g) /\ Done(g) <= Len(log)
            BY <2>0, <3>3, <5>2 DEF Done, GrowInv, Stored
          <6>2. Done(g) \in Int
            <7>1. pc[g] # "idle" => Len(req[g].entries) \in Nat
              BY HandlersAssumption DEF IInv, Typed
            <7> QED
              BY <1>0, <7>1 DEF Done
          <6> QED
            BY <1>0, <3>2, <6>1, <6>2
        <5> QED
          BY <5>1, <5>2
      <4> QED
        BY <2>0, <4>1, <4>2 DEF Stored
    <3>6. Bounded'
      <4>1. Committing' = Committing
        BY <2>0, <3>3 DEF Committing
      <4>2. \A g \in Thread : pc'[g] \in {"compare", "set", "apply"} => pc'[g] = pc[g]
        BY <3>3
      <4> QED
        BY <1>0, <2>0, <3>2, <4>1, <4>2 DEF GrowInv, Bounded
    <3>7. Followed'
      BY <1>0, <2>0, <3>2 DEF GrowInv, Followed
    <3> QED
      BY <3>4, <3>5, <3>6, <3>7 DEF GrowInv
  <2>2. CASE Goto(h, "idle") /\ UNCHANGED <<log, pos>>
    <3>1. pc'[h] = "idle" /\ \A g \in Thread : g # h => pc'[g] = pc[g]
      BY <1>0, <2>2 DEF Goto
    <3>2. Done(h)' <= Len(log) /\ h \notin Committing'
      BY <1>0, <3>1 DEF Done, Committing
    <3> QED
      BY <2>0, <2>2, <3>1, <3>2, QuietGrow
  <2> QED
    BY <1>5, <2>1, <2>2 DEF AppendEntry
<1>6. CASE CommitTarget(h)
  <2>1. /\ UNCHANGED <<log, commit, applied, scenario, req, pos, acked>>
        /\ pc[h] = "target" /\ pc'[h] = "bound"
        /\ \A g \in Thread : g # h => pc'[g] = pc[g] /\ target'[g] = target[g]
    BY <1>0, <1>6 DEF CommitTarget, At, Goto, Keep, store
  <2>2. Done(h)' = Done(h)
    BY <2>1 DEF Done
  <2> QED
    BY <1>d, <2>1, <2>2, QuietGrow DEF Committing
<1>7. CASE BoundTarget(h)
  <2>1. /\ UNCHANGED <<log, commit, applied, scenario, req, pos, acked>>
        /\ pc[h] = "bound" /\ pc'[h] = "compare" /\ Committing = {}
        /\ target'[h] = Smaller(target[h], Len(log))
        /\ \A g \in Thread : g # h => pc'[g] = pc[g] /\ target'[g] = target[g]
    BY <1>0, <1>7 DEF BoundTarget, At, Goto, Keep, store
  <2>2. Done(h)' = Done(h) /\ target'[h] <= Len(log)
    BY <1>0, <2>1, SmallerIs DEF Done
  <2> QED
    BY <1>d, <2>1, <2>2, QuietGrow
<1>8. CASE CompareTarget(h)
  <2>0. /\ UNCHANGED <<log, commit, applied, scenario, req, pos, target>>
        /\ pc[h] = "compare" /\ h \in Committing
    BY <1>8 DEF CompareTarget, At, Keep, store, Committing
  <2>1. Committing \subseteq {h} /\ target[h] <= Len(log)
    BY <2>0 DEF GrowInv, Bounded
  <2>2. CASE Succeed(h)
    <3>1. /\ pc'[h] = "idle" /\ acked' = acked \cup {req[h]}
          /\ \A g \in Thread : g # h => pc'[g] = pc[g]
      BY <1>0, <2>2 DEF Succeed, Goto
    <3>2. Len(req[h].entries) <= Len(log)
      BY <1>d, <2>0 DEF Done
    <3>3. Done(h)' <= Len(log) /\ h \notin Committing'
      BY <1>0, <3>1 DEF Done, Committing
    <3> QED
      BY <2>0, <3>1, <3>2, <3>3, QuietGrow
  <2>3. CASE target[h] > commit /\ Goto(h, "set") /\ UNCHANGED acked
    <3>1. pc'[h] = "set" /\ \A g \in Thread : g # h => pc'[g] = pc[g]
      BY <1>0, <2>3 DEF Goto
    <3>2. Done(h)' = Done(h) /\ commit < target[h]
      BY <1>0, <2>0, <2>3, <3>1 DEF Done
    <3> QED
      BY <1>d, <2>0, <2>1, <2>3, <3>1, <3>2, QuietGrow
  <2> QED
    BY <1>0, <1>8, <2>2, <2>3 DEF CompareTarget
<1>9. CASE SetCommitIndex(h)
  <2>0. /\ UNCHANGED <<log, applied, scenario, req, pos, target, acked>>
        /\ pc[h] = "set" /\ pc'[h] = "apply" /\ h \in Committing
        /\ commit' = Smaller(target[h], Len(log))
        /\ \A g \in Thread : g # h => pc'[g] = pc[g]
    BY <1>0, <1>9 DEF SetCommitIndex, At, Goto, Keep, Committing
  <2>1. /\ Committing \subseteq {h} /\ target[h] <= Len(log)
        /\ commit < target[h]
    BY <2>0 DEF GrowInv, Bounded
  <2>2. commit' = target[h] /\ commit' \in Nat /\ commit < commit'
    BY <1>0, <2>0, <2>1 DEF Smaller
  <2>3. Committing' = Committing
    BY <2>0 DEF Committing
  <2>4. Bounded'
    BY <1>0, <2>0, <2>1, <2>2, <2>3 DEF GrowInv, Bounded, Committing
  <2>5. Grown'
    BY <2>0 DEF GrowInv, Grown
  <2>6. Stored'
    BY <2>0 DEF GrowInv, Stored, Done
  <2>7. Followed'
    BY <1>0, <2>0, <2>2 DEF GrowInv, Followed
  <2> QED
    BY <2>4, <2>5, <2>6, <2>7 DEF GrowInv
<1>10. CASE ApplyNext(h)
  <2>0. /\ UNCHANGED <<log, commit, scenario, req, pos, target>>
        /\ pc[h] = "apply" /\ h \in Committing
    BY <1>10 DEF ApplyNext, At, Keep, Committing
  <2>1. /\ Committing \subseteq {h} /\ target[h] <= Len(log)
        /\ target[h] <= commit
    BY <2>0 DEF GrowInv, Bounded
  <2>2. CASE /\ Len(applied) + 1 <= target[h] /\ Len(applied) + 1 \in DOMAIN log
             /\ applied' = Append(applied, log[Len(applied) + 1])
             /\ UNCHANGED <<pc, acked>>
    <3>1. log[Len(applied) + 1] \in Entry
      BY <1>0, <2>2
    <3>2. /\ Len(applied') = Len(applied) + 1 /\ Len(applied) \in Nat
          /\ \A i \in 1 .. Len(applied) : applied'[i] = applied[i]
          /\ applied'[Len(applied) + 1] = log[Len(applied) + 1]
      BY <1>0, <2>2, <3>1
    <3>3. Followed'
      <4>1. Len(applied') <= commit'
        BY <1>0, <2>0, <2>1, <2>2, <3>2
      <4>2. ASSUME NEW i \in 1 .. Len(applied') PROVE applied'[i] = log'[i]
        <5>1. i \in 1 .. Len(applied) \/ i = Len(applied) + 1
          BY <3>2
        <5> QED
          BY <2>0, <3>2, <5>1 DEF GrowInv, Followed
      <4> QED
        BY <4>1, <4>2 DEF Followed
    <3>4. Grown' /\ Stored' /\ Bounded'
      BY <2>0, <2>2 DEF GrowInv, Grown, Stored, Done, Bounded, Committing
    <3> QED
      BY <3>3, <3>4 DEF GrowInv
  <2>3. CASE Succeed(h) /\ UNCHANGED applied
    <3>1. /\ pc'[h] = "idle" /\ acked' = acked \cup {req[h]}
          /\ \A g \in Thread : g # h => pc'[g] = pc[g]
      BY <1>0, <2>3 DEF Succeed, Goto
    <3>2. Len(req[h].entries) <= Len(log)
      BY <1>d, <2>0 DEF Done
    <3>3. Done(h)' <= Len(log) /\ h \notin Committing'
      BY <1>0, <3>1 DEF Done, Committing
    <3> QED
      BY <2>0, <2>3, <3>1, <3>2, <3>3, QuietGrow
  <2> QED
    BY <1>10, <2>2, <2>3 DEF ApplyNext
<1> QED
  BY <1>1, <1>2, <1>3, <1>4, <1>5, <1>6, <1>7, <1>8, <1>9, <1>10 DEF Call

\* While no request contradicts another or the log, no step takes back an
\* entry that a handler has stored or applied.
LEMMA NextGrow ==
  IInv /\ (Uncontested => GrowInv) /\ [Next]_vars => (Uncontested => GrowInv)'
<1> SUFFICES ASSUME IInv, Uncontested => GrowInv, [Next]_vars, Uncontested'
             PROVE  GrowInv'
  OBVIOUS
<1>1. scenario' = scenario
  BY DEF Next, Handle, Call, ValidatePreviousLog, LookForConflict,
         TruncateSuffix, LookAgain, AppendEntry, CommitTarget, BoundTarget,
         CompareTarget, SetCommitIndex, ApplyNext, Keep, ObserveLeader,
         HandleVoteRequest, vars
<1>2. Uncontested /\ GrowInv
  BY <1>1 DEF Uncontested, OneLeader
<1>3. ASSUME NEW h \in Thread, Handle(h) PROVE GrowInv'
  BY <1>2, <1>3, CallKeepsGrow DEF Handle
<1>4. ASSUME NEW h \in Thread, NEW m \in pending, ObserveLeader(h, m) PROVE GrowInv'
  <2>1. /\ UNCHANGED <<log, commit, applied, scenario, pos, target, acked>>
        /\ pc[h] = "idle" /\ pc'[h] \in {"idle", "previous"}
        /\ \A g \in Thread : g # h => pc'[g] = pc[g] /\ req'[g] = req[g]
    BY <1>4 DEF ObserveLeader, At, Goto, IInv, Typed
  <2>2. /\ Committing' = Committing
        /\ \A g \in Thread : pc'[g] \in {"compare", "set", "apply"} => pc'[g] = pc[g]
    BY <2>1 DEF Committing
  <2>3. \A g \in Thread : Done(g)' = Done(g)
    BY <2>1 DEF Done
  <2>4. Grown'
    BY <1>2, <2>1 DEF GrowInv, Grown
  <2>5. Stored'
    BY <1>2, <2>1, <2>3 DEF GrowInv, Stored
  <2>6. Bounded'
    BY <1>2, <2>1, <2>2 DEF GrowInv, Bounded
  <2>7. Followed'
    BY <1>2, <2>1 DEF GrowInv, Followed
  <2> QED
    BY <2>4, <2>5, <2>6, <2>7 DEF GrowInv
<1>5. CASE \/ HandleVoteRequest
           \/ UNCHANGED vars
  <2>1. UNCHANGED <<log, commit, applied, pc, req, pos, target, scenario, acked>>
    BY <1>5 DEF HandleVoteRequest, control, history, vars, store
  <2> QED
    BY <1>2, <2>1 DEF GrowInv, Grown, Stored, Done, Bounded, Committing, Followed
<1> QED
  BY <1>3, <1>4, <1>5 DEF Next

\* Both invariants together, since one is inductive only with the other.
LEMMA AlwaysGrows == Spec => [](IInv /\ (Uncontested => GrowInv))
  BY InitIInv, NextIInv, InitGrow, NextGrow, PTL DEF Spec

\* Whatever the number of threads and however the handlers overlap: if what
\* leaders send and what the follower has do not contradict each other, its
\* state machine is given the committed entries of the log in order, each
\* once (commit_manager.cpp:22-60).
THEOREM AppliedStaysCommitted == Spec => []AppliedIsCommitted
<1>1. IInv /\ (Uncontested => GrowInv) => AppliedIsCommitted
  <2> SUFFICES ASSUME IInv, Uncontested, GrowInv
               PROVE  /\ Len(applied) <= commit
                      /\ applied = SubSeq(log, 1, Len(applied))
    BY DEF AppliedIsCommitted
  <2>1. /\ log \in Seq(Entry) /\ applied \in Seq(Entry) /\ commit \in Nat
        /\ Len(applied) <= commit /\ commit <= Len(log)
        /\ \A i \in 1 .. Len(applied) : applied[i] = log[i]
    BY DEF IInv, Typed, CommitWithinLog, GrowInv, Followed
  <2>2. Len(applied) \in Nat /\ Len(applied) <= Len(log)
    BY <2>1
  <2>3. /\ Len(SubSeq(log, 1, Len(applied))) = Len(applied)
        /\ SubSeq(log, 1, Len(applied)) \in Seq(Entry)
        /\ \A i \in 1 .. Len(applied) : SubSeq(log, 1, Len(applied))[i] = log[i]
    BY <2>1, <2>2, PrefixIsLog
  <2> QED
    BY <2>1, <2>2, <2>3
<1> QED
  BY <1>1, AlwaysGrows, PTL

\* And what it has reported as replicated stays in its log, which is what
\* the leader counts on when it commits (raft_node.cpp:50).
THEOREM AcknowledgedStays == Spec => []AckedStays
<1>1. IInv /\ (Uncontested => GrowInv) => AckedStays
  <2> SUFFICES ASSUME IInv, Uncontested, GrowInv,
                      NEW m \in acked, NEW i \in DOMAIN m.entries
               PROVE  i \in DOMAIN log /\ log[i] = m.entries[i]
    BY DEF AckedStays
  <2>1. /\ m \in scenario.sent /\ m.entries \in Seq(Entry)
        /\ log \in Seq(Entry) /\ Len(m.entries) <= Len(log)
    BY HandlersAssumption DEF IInv, Typed, GrowInv, Stored
  <2>2. i \in DOMAIN log
    BY <2>1
  <2>3. Agree(m.entries, log)
    BY <2>1, LogAgrees DEF GrowInv
  <2> QED
    BY <2>2, <2>3 DEF Agree
<1> QED
  BY <1>1, AlwaysGrows, PTL

-----------------------------------------------------------------------------
\* The entry of the request of m at p is the first that contradicts the log
\* the follower started with.
Conflict(m, p) ==
  /\ p \in DOMAIN scenario.log /\ p \in DOMAIN m.entries
  /\ scenario.log[p].term # m.entries[p].term
  /\ \A j \in 1 .. p - 1 : scenario.log[j].term = m.entries[j].term

\* With one leader, an entry of the log is that leader's, or is where it was
\* from the start, with all the others that were there.
LeaderSent(i) ==
  \E m \in scenario.sent : i \in DOMAIN m.entries /\ log[i].term = m.entries[i].term

NothingCut == /\ Len(scenario.log) <= Len(log)
              /\ \A i \in 1 .. Len(scenario.log) : log[i] = scenario.log[i]

Sources == \A i \in DOMAIN log :
             LeaderSent(i) \/ (i <= Len(scenario.log) /\ NothingCut)

\* What precedes a conflict is never cut.
SharedStays ==
  \A m \in scenario.sent : \A p \in DOMAIN m.entries :
    Conflict(m, p) => /\ p - 1 <= Len(log)
                      /\ \A j \in 1 .. p - 1 : log[j] = scenario.log[j]

\* How far a handler has compared its request with the log.
Compares(h) ==
  /\ pc[h] = "cut" => Conflict(req[h], pos[h])
  /\ pc[h] \in {"look", "again", "append"} =>
       \A j \in DOMAIN log :
         j < pos[h] \/ (j = pos[h] /\ pc[h] # "look")
           => log[j].term = req[h].entries[j].term

\* The last term read bounds what can be left after a cut, and as long as
\* the candidate has lagged behind every log of the call it lags behind the
\* length of this one.
BallotInv ==
  ballot.at = "index" =>
    /\ \A m \in scenario.sent : \A p \in DOMAIN m.entries :
         Conflict(m, p) =>
           \A j \in 1 .. p - 1 : scenario.log[j].term <= ballot.lastTerm
    /\ \/ fit
       \/ ballot.request.lastTerm < ballot.lastTerm
       \/ /\ ballot.request.lastTerm = ballot.lastTerm
          /\ ballot.request.lastIndex < Len(log)

LineInv == /\ Sources /\ SharedStays /\ TermsRise(log) /\ BallotInv
           /\ \A h \in Thread : Compares(h)

\* Where the line starts: with the log the follower has from before.
LEMMA InitLine == Init => (OneHistory => LineInv)
<1> SUFFICES ASSUME Init, OneHistory PROVE LineInv
  OBVIOUS
<1>1. /\ scenario \in Scenarios /\ log = scenario.log /\ ballot.at = "idle"
      /\ \A h \in Thread : pc[h] = "idle"
  BY DEF Init, NoBallot
<1>2. log \in Seq(Entry) /\ TermsRise(log)
  BY <1>1, HandlersAssumption DEF OneHistory
<1>3. ASSUME NEW m \in scenario.sent, NEW p \in DOMAIN m.entries, Conflict(m, p)
      PROVE  p - 1 <= Len(log)
  <2>1. p \in 1 .. Len(log)
    BY <1>1, <1>2, <1>3 DEF Conflict
  <2> QED
    BY <1>2, <2>1
<1>4. Sources
  BY <1>1, <1>2 DEF Sources, NothingCut
<1> QED
  BY <1>1, <1>2, <1>3, <1>4 DEF LineInv, SharedStays, BallotInv, Compares

\* What IInv says of the parts this argument is about.
LEMMA LineTypes ==
  ASSUME IInv
  PROVE  /\ log \in Seq(Entry) /\ Len(log) \in Nat
         /\ \A i \in DOMAIN log : log[i].term \in Nat
         /\ scenario.log \in Seq(Entry) /\ Len(scenario.log) \in Nat
         /\ \A i \in DOMAIN scenario.log : scenario.log[i].term \in Nat
         /\ \A m \in scenario.sent : /\ m.entries \in Seq(Entry)
                                     /\ Len(m.entries) \in Nat
         /\ pc \in [Thread -> Labels] /\ pos \in [Thread -> Nat]
         /\ \A h \in Thread : pc[h] # "idle" => req[h] \in scenario.sent
         /\ \A h \in Thread : pc[h] \in {"look", "cut", "again", "append"}
                                => pos[h] \in 1 .. Len(req[h].entries)
<1>1. /\ log \in Seq(Entry) /\ scenario.log \in Seq(Entry)
      /\ \A m \in scenario.sent : m.entries \in Seq(Entry)
      /\ pc \in [Thread -> Labels] /\ pos \in [Thread -> Nat]
      /\ \A h \in Thread : pc[h] # "idle" => req[h] \in scenario.sent
  BY HandlersAssumption DEF IInv, Typed
<1>2. ASSUME NEW l \in Seq(Entry)
      PROVE  Len(l) \in Nat /\ \A i \in DOMAIN l : l[i].term \in Nat
  <2>1. \A i \in DOMAIN l : l[i] \in Entry
    OBVIOUS
  <2> QED
    BY <2>1 DEF Entry
<1>3. \A h \in Thread : pc[h] \in {"look", "cut", "again", "append"}
                          => pos[h] \in 1 .. Len(req[h].entries)
  <2> SUFFICES ASSUME NEW h \in Thread,
                      pc[h] \in {"look", "cut", "again", "append"}
               PROVE  pos[h] \in 1 .. Len(req[h].entries)
    OBVIOUS
  <2>1. pos[h] \in DOMAIN req[h].entries /\ req[h].entries \in Seq(Entry)
    BY <1>1 DEF IInv, Positioned
  <2> QED
    BY <2>1
<1> QED
  BY <1>1, <1>2, <1>3

\* All requests of one leader that contradict the old log do so at one entry.
LEMMA OneConflict ==
  ASSUME IInv, OneLeader,
         NEW m \in scenario.sent, NEW p \in DOMAIN m.entries, Conflict(m, p),
         NEW k \in scenario.sent, NEW q \in DOMAIN k.entries, Conflict(k, q)
  PROVE  p = q
<1>1. /\ m.entries \in Seq(Entry) /\ k.entries \in Seq(Entry)
      /\ p \in 1 .. Len(m.entries) /\ q \in 1 .. Len(k.entries)
      /\ Len(m.entries) \in Nat /\ Len(k.entries) \in Nat
  BY LineTypes
<1>2. ~(p < q)
  <2> SUFFICES ASSUME p < q PROVE FALSE
    OBVIOUS
  <2>1. p \in 1 .. q - 1 /\ p \in DOMAIN m.entries /\ p \in DOMAIN k.entries
    BY <1>1
  <2>2. m.entries[p] = k.entries[p]
    BY <2>1 DEF OneLeader, Agree
  <2> QED
    BY <2>1, <2>2 DEF Conflict
<1>3. ~(q < p)
  <2> SUFFICES ASSUME q < p PROVE FALSE
    OBVIOUS
  <2>1. q \in 1 .. p - 1 /\ q \in DOMAIN m.entries /\ q \in DOMAIN k.entries
    BY <1>1
  <2>2. m.entries[q] = k.entries[q]
    BY <2>1 DEF OneLeader, Agree
  <2> QED
    BY <2>1, <2>2 DEF Conflict
<1> QED
  BY <1>1, <1>2, <1>3

\* What one step does to a handler that does not move.
LEMMA OtherCompares ==
  ASSUME NEW g \in Thread, Compares(g), UNCHANGED <<log, scenario>>,
         pc'[g] = pc[g], pos'[g] = pos[g], req'[g] = req[g]
  PROVE  Compares(g)'
  BY DEF Compares, Conflict

\* A step that leaves the log and the vote alone.
LEMMA QuietLine ==
  ASSUME LineInv, UNCHANGED <<log, scenario, ballot>>, Compared,
         \A h \in Thread : Compares(h)'
  PROVE  LineInv'
<1>1. Sources' /\ SharedStays' /\ TermsRise(log)'
  BY DEF LineInv, Sources, LeaderSent, NothingCut, SharedStays, Conflict
<1>2. BallotInv'
  BY DEF LineInv, BallotInv, Conflict, Compared, Voting
<1> QED
  BY <1>1, <1>2 DEF LineInv

\* The loop control: the entries before i are compared.
LEMMA LoopCompares ==
  ASSUME IInv, NEW h \in Thread, NEW i \in Nat, Loop(h, i),
         UNCHANGED <<req, scenario>>,
         \A j \in DOMAIN log' : j < i => log'[j].term = req[h].entries[j].term
  PROVE  /\ Compares(h)'
         /\ \A g \in Thread : g # h => pc'[g] = pc[g] /\ pos'[g] = pos[g]
<1>1. /\ pc'[h] \in {"look", "target"}
      /\ pc'[h] = "look" => pos'[h] = i
      /\ \A g \in Thread : g # h => pc'[g] = pc[g] /\ pos'[g] = pos[g]
  BY LineTypes DEF Loop, Goto
<1>2. Compares(h)'
  BY <1>1 DEF Compares
<1> QED
  BY <1>1, <1>2

\* A cut is made where the leader contradicts the log of old, and only the
\* part both share is left.
LEMMA CutKeepsLine ==
  ASSUME IInv, OneHistory, LineInv, NEW h \in Thread, TruncateSuffix(h), Compared
  PROVE  LineInv'
<1>1. /\ pc[h] = "cut" /\ UNCHANGED <<req, pos, scenario, ballot>>
      /\ log' = SubSeq(log, 1, Smaller(pos[h] - 1, Len(log)))
      /\ pc'[h] = "again" /\ \A g \in Thread : g # h => pc'[g] = pc[g]
  BY LineTypes DEF TruncateSuffix, At, Goto, Keep
<1> DEFINE p == pos[h]
<1>2. /\ req[h] \in scenario.sent /\ p \in 1 .. Len(req[h].entries)
      /\ p \in Nat /\ p >= 1 /\ p \in DOMAIN req[h].entries
      /\ Conflict(req[h], p)
  BY <1>1, LineTypes DEF LineInv, Compares
<1>3. p - 1 <= Len(log) /\ \A j \in 1 .. p - 1 : log[j] = scenario.log[j]
  BY <1>2 DEF LineInv, SharedStays
<1>4. /\ log' \in Seq(Entry) /\ Len(log') = p - 1 /\ DOMAIN log' = 1 .. p - 1
      /\ \A j \in 1 .. p - 1 : log'[j] = log[j] /\ j \in DOMAIN log
  <2>0. Len(log) \in Nat /\ p - 1 \in Nat
    BY <1>2, LineTypes
  <2>1. Smaller(p - 1, Len(log)) = p - 1
    BY <1>3, <2>0 DEF Smaller
  <2> QED
    BY <1>1, <1>2, <1>3, <2>1, LineTypes
<1> HIDE DEF p
<1>5. \A j \in 1 .. p - 1 : /\ log'[j] = scenario.log[j]
                            /\ j \in DOMAIN req[h].entries
                            /\ log'[j].term = req[h].entries[j].term
  BY <1>2, <1>3, <1>4, LineTypes DEF Conflict
<1>6. Sources'
  BY <1>1, <1>2, <1>4, <1>5 DEF Sources, LeaderSent
<1>7. SharedStays'
  <2> SUFFICES ASSUME NEW m \in scenario.sent, NEW q \in DOMAIN m.entries,
                      Conflict(m, q)
               PROVE  /\ q - 1 <= Len(log')
                      /\ \A j \in 1 .. q - 1 : log'[j] = scenario.log[j]
    BY <1>1 DEF SharedStays, Conflict
  <2>1. q = p
    BY <1>2, OneConflict DEF OneHistory
  <2> QED
    BY <1>2, <1>4, <1>5, <2>1
<1>8. TermsRise(log')
  BY <1>4 DEF LineInv, TermsRise
<1>9. BallotInv'
  <2> SUFFICES ASSUME ballot.at = "index"
               PROVE  /\ \A m \in scenario.sent : \A q \in DOMAIN m.entries :
                           Conflict(m, q) =>
                             \A j \in 1 .. q - 1 :
                               scenario.log[j].term <= ballot.lastTerm
                      /\ \/ fit'
                         \/ ballot.request.lastTerm < ballot.lastTerm
                         \/ /\ ballot.request.lastTerm = ballot.lastTerm
                            /\ ballot.request.lastIndex < Len(log')
    BY <1>1 DEF BallotInv, Conflict
  <2>1. \A m \in scenario.sent : \A q \in DOMAIN m.entries :
          Conflict(m, q) =>
            \A j \in 1 .. q - 1 : scenario.log[j].term <= ballot.lastTerm
    BY DEF LineInv, BallotInv
  <2>2. \/ fit
        \/ ballot.request.lastTerm < ballot.lastTerm
        \/ /\ ballot.request.lastTerm = ballot.lastTerm
           /\ ballot.request.lastIndex < Len(log)
    BY DEF LineInv, BallotInv
  <2>3. Voting' /\ (fit \/ UpToDate(ballot.request.lastIndex,
                                    ballot.request.lastTerm, log') => fit')
    BY <1>1 DEF Compared, Voting
  <2>4. /\ ballot.request.lastIndex \in Nat /\ ballot.lastTerm \in Nat
        /\ ballot.request.lastTerm \in Nat
    BY HandlersAssumption DEF IInv, Typed, BallotOK, NoBallot
  <2>5. CASE /\ ballot.request.lastTerm = ballot.lastTerm
             /\ ballot.request.lastIndex >= Len(log')
    <3>1. LastTerm(log') <= ballot.lastTerm /\ LastTerm(log') \in Nat
      <4>1. CASE p = 1
        BY <1>4, <2>4, <4>1 DEF LastTerm
      <4>2. CASE p # 1
        <5>1. p - 1 \in 1 .. p - 1 /\ log' # <<>>
          BY <1>2, <1>4, <4>2
        <5>2. scenario.log[p - 1].term <= ballot.lastTerm
          BY <1>2, <2>1, <5>1
        <5>3. LastTerm(log') = scenario.log[p - 1].term
          BY <1>4, <1>5, <5>1 DEF LastTerm
        <5>4. LastTerm(log') \in Nat
          BY <1>4, <5>1, <1>5, <5>3, LineTypes
        <5> QED
          BY <5>2, <5>3, <5>4
      <4> QED
        BY <4>1, <4>2
    <3> QED
      BY <2>1, <2>3, <2>4, <2>5, <3>1 DEF UpToDate, LastIndex
  <2>6. CASE ~(/\ ballot.request.lastTerm = ballot.lastTerm
               /\ ballot.request.lastIndex >= Len(log'))
    <3>1. Len(log') \in Nat
      BY <1>4
    <3> QED
      BY <2>1, <2>2, <2>3, <2>4, <2>6, <3>1
  <2> QED
    BY <2>5, <2>6
<1>10. ASSUME NEW g \in Thread PROVE Compares(g)'
  <2>1. CASE g = h
    BY <1>1, <1>2, <1>4, <1>5, <2>1 DEF Compares, p
  <2>2. CASE g # h
    <3>1. pc'[g] = pc[g] /\ pos'[g] = pos[g] /\ req'[g] = req[g] /\ Compares(g)
      BY <1>1, <2>2 DEF LineInv
    <3>2. ASSUME pc[g] \in {"look", "again", "append"}, NEW j \in DOMAIN log',
                 j < pos[g] \/ (j = pos[g] /\ pc[g] # "look")
          PROVE  log'[j].term = req[g].entries[j].term
      BY <1>4, <3>1, <3>2 DEF Compares
    <3>3. pc[g] = "cut" => Conflict(req[g], pos[g])
      BY <3>1 DEF Compares
    <3> QED
      BY <1>1, <3>1, <3>2, <3>3 DEF Compares, Conflict
  <2> QED
    BY <2>1, <2>2
<1> QED
  BY <1>1, <1>6, <1>7, <1>8, <1>9, <1>10 DEF LineInv

\* What is appended follows the entries before it in its own request.
LEMMA AppendKeepsLine ==
  ASSUME IInv, OneHistory, LineInv, NEW h \in Thread, pc[h] = "append",
         pos[h] = Len(log) + 1, Loop(h, pos[h] + 1),
         log' = Append(log, req[h].entries[pos[h]]),
         UNCHANGED <<req, scenario, ballot>>, Compared
  PROVE  LineInv'
<1> DEFINE n == Len(log)
           e == req[h].entries
<1>1. /\ n \in Nat /\ req[h] \in scenario.sent /\ n + 1 \in 1 .. Len(e)
      /\ e \in Seq(Entry) /\ TermsRise(e) /\ Len(e) \in Nat
      /\ n + 1 \in DOMAIN e /\ DOMAIN log = 1 .. n /\ log \in Seq(Entry)
  BY LineTypes DEF OneHistory
<1>2. /\ Len(log') = n + 1 /\ DOMAIN log' = 1 .. n + 1
      /\ \A j \in 1 .. n : log'[j] = log[j] /\ j \in DOMAIN log /\ j \in DOMAIN e
      /\ log'[n + 1] = e[n + 1]
  BY <1>1
<1>3. \A j \in 1 .. n : log[j].term = e[j].term
  BY <1>1 DEF LineInv, Compares
<1> HIDE DEF n, e
<1>4. Sources'
  <2> SUFFICES ASSUME NEW i \in DOMAIN log'
               PROVE  LeaderSent(i)' \/ (i <= Len(scenario.log) /\ NothingCut')
    BY DEF Sources
  <2>1. CASE i = n + 1
    <3>1. log'[i].term = req[h].entries[i].term /\ i \in DOMAIN req[h].entries
      BY <1>1, <1>2, <2>1 DEF e
    <3> QED
      BY <1>1, <3>1 DEF LeaderSent
  <2>2. CASE i \in 1 .. n
    <3>1. CASE LeaderSent(i)
      BY <1>2, <2>2, <3>1 DEF LeaderSent
    <3>2. CASE i <= Len(scenario.log) /\ NothingCut
      BY <1>1, <1>2, <3>2, LineTypes DEF NothingCut, n
    <3> QED
      BY <1>2, <2>2, <3>1, <3>2 DEF LineInv, Sources
  <2> QED
    BY <1>1, <1>2, <2>1, <2>2
<1>5. SharedStays'
  <2> SUFFICES ASSUME NEW m \in scenario.sent, NEW q \in DOMAIN m.entries,
                      Conflict(m, q)
               PROVE  /\ q - 1 <= Len(log')
                      /\ \A j \in 1 .. q - 1 : log'[j] = scenario.log[j]
    BY DEF SharedStays, Conflict
  <2>1. /\ q - 1 <= n /\ \A j \in 1 .. q - 1 : log[j] = scenario.log[j]
        /\ q \in Nat
    BY LineTypes DEF LineInv, SharedStays, n
  <2> QED
    BY <1>1, <1>2, <2>1
<1>6. TermsRise(log')
  <2> SUFFICES ASSUME NEW i \in 1 .. n + 1, NEW j \in 1 .. n + 1, i <= j
               PROVE  log'[i].term <= log'[j].term
    BY <1>2 DEF TermsRise
  <2>1. CASE j = n + 1
    <3>1. log'[i].term = e[i].term /\ i \in DOMAIN e
      BY <1>1, <1>2, <1>3
    <3> QED
      BY <1>1, <1>2, <2>1, <3>1 DEF TermsRise
  <2>2. CASE j # n + 1
    <3>1. i \in DOMAIN log /\ j \in DOMAIN log
      BY <1>1, <2>2
    <3>2. log'[i] = log[i] /\ log'[j] = log[j]
      BY <1>1, <1>2, <2>2
    <3> QED
      BY <3>1, <3>2 DEF LineInv, TermsRise
  <2> QED
    BY <2>1, <2>2
<1>7. BallotInv'
  <2> SUFFICES ASSUME ballot.at = "index"
               PROVE  \/ fit'
                      \/ ballot.request.lastTerm < ballot.lastTerm
                      \/ /\ ballot.request.lastTerm = ballot.lastTerm
                         /\ ballot.request.lastIndex < Len(log')
    BY DEF LineInv, BallotInv, Conflict
  <2>1. \/ fit
        \/ ballot.request.lastTerm < ballot.lastTerm
        \/ /\ ballot.request.lastTerm = ballot.lastTerm
           /\ ballot.request.lastIndex < n
    BY DEF LineInv, BallotInv, n
  <2>2. fit => fit'
    BY DEF Compared, Voting
  <2>3. ballot.request.lastIndex \in Nat
    BY HandlersAssumption DEF IInv, Typed, BallotOK, NoBallot
  <2> QED
    BY <1>1, <1>2, <2>1, <2>2, <2>3
<1>8. ASSUME NEW g \in Thread PROVE Compares(g)'
  <2>0. /\ Compares(h)'
        /\ \A k \in Thread : k # h => pc'[k] = pc[k] /\ pos'[k] = pos[k]
    <3>1. \A j \in DOMAIN log' : j < n + 2 => log'[j].term = req[h].entries[j].term
      BY <1>1, <1>2, <1>3 DEF e
    <3>2. Loop(h, n + 2) /\ n + 2 \in Nat
      BY <1>1 DEF n
    <3> QED
      BY <3>1, <3>2, LoopCompares
  <2>1. CASE g = h
    BY <2>0, <2>1
  <2>2. CASE g # h
    <3>1. pc'[g] = pc[g] /\ pos'[g] = pos[g] /\ req'[g] = req[g] /\ Compares(g)
      BY <2>0, <2>2 DEF LineInv
    <3>2. ASSUME pc[g] \in {"look", "again", "append"}, NEW j \in DOMAIN log',
                 j < pos[g] \/ (j = pos[g] /\ pc[g] # "look")
          PROVE  log'[j].term = req[g].entries[j].term
      <4>1. CASE j \in 1 .. n
        BY <1>2, <3>1, <3>2, <4>1 DEF Compares
      <4>2. CASE j = n + 1
        <5>1. /\ req[g] \in scenario.sent /\ pos[g] \in 1 .. Len(req[g].entries)
              /\ req[g].entries \in Seq(Entry)
          BY <3>2, LineTypes
        <5>2. j \in DOMAIN req[g].entries /\ j \in DOMAIN req[h].entries
          BY <1>1, <3>2, <4>2, <5>1 DEF e
        <5>3. req[g].entries[j] = req[h].entries[j]
          BY <1>1, <5>1, <5>2 DEF OneHistory, OneLeader, Agree
        <5> QED
          BY <1>2, <4>2, <5>3 DEF e
      <4> QED
        BY <1>1, <1>2, <4>1, <4>2
    <3>3. pc[g] = "cut" => Conflict(req[g], pos[g])
      BY <3>1 DEF Compares
    <3> QED
      BY <3>1, <3>2, <3>3 DEF Compares, Conflict
  <2> QED
    BY <2>1, <2>2
<1> QED
  BY <1>4, <1>5, <1>6, <1>7, <1>8 DEF LineInv

\* A conflict that a handler meets is with the log of old, nothing of which
\* is lost yet.
LEMMA LookCompares ==
  ASSUME IInv, OneHistory, LineInv, NEW h \in Thread, LookForConflict(h)
  PROVE  Compares(h)'
<1>1. /\ pc[h] = "look" /\ UNCHANGED <<log, req, pos, scenario>>
      /\ \/ /\ pos[h] \in DOMAIN log
            /\ log[pos[h]].term # req[h].entries[pos[h]].term
            /\ pc'[h] = "cut"
         \/ /\ ~(/\ pos[h] \in DOMAIN log
                 /\ log[pos[h]].term # req[h].entries[pos[h]].term)
            /\ pc'[h] = "again"
  BY LineTypes DEF LookForConflict, At, Keep, Goto, store
<1>2. /\ req[h] \in scenario.sent /\ pos[h] \in 1 .. Len(req[h].entries)
      /\ pos[h] \in DOMAIN req[h].entries
      /\ req[h].entries \in Seq(Entry) /\ Len(req[h].entries) \in Nat
  BY <1>1, LineTypes
<1>3. \A j \in DOMAIN log : j < pos[h] => log[j].term = req[h].entries[j].term
  BY <1>1 DEF LineInv, Compares
<1>4. CASE pos[h] \in DOMAIN log /\ log[pos[h]].term # req[h].entries[pos[h]].term
  <2>1. ~LeaderSent(pos[h])
    BY <1>2, <1>4 DEF LeaderSent, OneHistory, OneLeader, Agree
  <2>2. pos[h] <= Len(scenario.log) /\ NothingCut
    BY <1>4, <2>1 DEF LineInv, Sources
  <2>3. /\ pos[h] \in DOMAIN scenario.log /\ log[pos[h]] = scenario.log[pos[h]]
        /\ \A j \in 1 .. pos[h] - 1 : j \in DOMAIN log /\ log[j] = scenario.log[j]
    BY <1>2, <1>4, <2>2, LineTypes DEF NothingCut
  <2>4. Conflict(req[h], pos[h])
    <3>1. \A j \in 1 .. pos[h] - 1 :
            scenario.log[j].term = req[h].entries[j].term
      <4> SUFFICES ASSUME NEW j \in 1 .. pos[h] - 1
                   PROVE  scenario.log[j].term = req[h].entries[j].term
        OBVIOUS
      <4>1. j \in DOMAIN log /\ log[j] = scenario.log[j] /\ j < pos[h]
        BY <1>2, <2>3
      <4> QED
        BY <1>3, <4>1
    <3> QED
      BY <1>2, <1>4, <2>3, <3>1 DEF Conflict
  <2> QED
    BY <1>1, <1>4, <2>4 DEF Compares, Conflict
<1>5. CASE ~(/\ pos[h] \in DOMAIN log
             /\ log[pos[h]].term # req[h].entries[pos[h]].term)
  BY <1>1, <1>3, <1>5 DEF Compares
<1> QED
  BY <1>4, <1>5

\* Under one leader a step of a handler keeps what each thread is bound to
\* write a prefix of that leader's log.
LEMMA CallKeepsLine ==
  ASSUME IInv, OneHistory, LineInv, NEW h \in Thread, Handle(h)
  PROVE  LineInv'
<1>0. Compared /\ Call(h) /\ \A g \in Thread : Compares(g)
  BY DEF Handle, LineInv
<1>1. CASE TruncateSuffix(h)
  BY <1>0, <1>1, CutKeepsLine
<1>2. CASE AppendEntry(h) /\ log' # log
  BY <1>0, <1>2, AppendKeepsLine DEF AppendEntry, At, Keep
<1>3. CASE ~TruncateSuffix(h) /\ ~(AppendEntry(h) /\ log' # log)
  <2>1. UNCHANGED <<log, scenario, ballot, req>>
    BY <1>0, <1>3 DEF Call, ValidatePreviousLog, LookForConflict, LookAgain,
              AppendEntry, CommitTarget, BoundTarget, CompareTarget,
              SetCommitIndex, ApplyNext, Keep, store
  <2>2. /\ \A g \in Thread : g # h => pc'[g] = pc[g] /\ pos'[g] = pos[g]
        /\ Compares(h)'
    <3>1. CASE ValidatePreviousLog(h)
      <4>1. CASE Loop(h, 1)
        <5>1. \A j \in DOMAIN log' : j < 1 => log'[j].term = req[h].entries[j].term
          BY <2>1, LineTypes
        <5> QED
          BY <2>1, <4>1, <5>1, LoopCompares
      <4>2. CASE Goto(h, "idle") /\ UNCHANGED pos
        BY <4>2, LineTypes DEF Goto, Compares
      <4> QED
        BY <3>1, <4>1, <4>2 DEF ValidatePreviousLog
    <3>2. CASE LookForConflict(h)
      BY <3>2, LookCompares, LineTypes DEF LookForConflict, Goto, Keep
    <3>3. CASE LookAgain(h)
      <4>0. /\ pc[h] = "again" /\ pos[h] \in Nat
            /\ \A j \in DOMAIN log :
                 j < pos[h] \/ j = pos[h] => log[j].term = req[h].entries[j].term
        BY <1>0, <3>3, LineTypes DEF LookAgain, At, Compares
      <4>1. CASE Loop(h, pos[h] + 1)
        <5>1. \A j \in DOMAIN log' :
                j < pos[h] + 1 => log'[j].term = req[h].entries[j].term
          BY <2>1, <4>0, LineTypes
        <5>2. pos[h] + 1 \in Nat
          BY <4>0
        <5> QED
          BY <2>1, <4>1, <5>1, <5>2, LoopCompares
      <4>2. CASE Goto(h, "append") /\ UNCHANGED pos
        BY <2>1, <4>0, <4>2, LineTypes DEF Goto, Compares
      <4> QED
        BY <3>3, <4>1, <4>2 DEF LookAgain
    <3>4. CASE AppendEntry(h)
      <4>1. log' # log \/ (Goto(h, "idle") /\ UNCHANGED pos)
        <5>1. ASSUME log' = Append(log, req[h].entries[pos[h]]) PROVE log' # log
          <6>1. pc[h] = "append"
            BY <3>4 DEF AppendEntry, At
          <6>2. req[h].entries[pos[h]] \in Entry
            <7>1. /\ req[h] \in scenario.sent
                  /\ pos[h] \in 1 .. Len(req[h].entries)
              BY <6>1, LineTypes
            <7>2. req[h].entries \in Seq(Entry)
              BY <7>1, LineTypes
            <7> QED
              BY <7>1, <7>2
          <6>3. Len(log') = Len(log) + 1
            BY <5>1, <6>2, LineTypes
          <6> QED
            BY <6>3, LineTypes
        <5> QED
          BY <3>4, <5>1 DEF AppendEntry
      <4> QED
        BY <1>3, <3>4, <4>1, LineTypes DEF Goto, Compares
    <3>5. CASE \/ CommitTarget(h) \/ BoundTarget(h) \/ CompareTarget(h)
               \/ SetCommitIndex(h) \/ ApplyNext(h)
      <4>1. /\ UNCHANGED pos /\ \A g \in Thread : g # h => pc'[g] = pc[g]
            /\ pc'[h] \in {"idle", "bound", "compare", "set", "apply"}
        BY <3>5, LineTypes
        DEF CommitTarget, BoundTarget, CompareTarget, SetCommitIndex, ApplyNext,
            Succeed, Goto, At, Keep
      <4> QED
        BY <4>1 DEF Compares
    <3> QED
      BY <1>0, <1>3, <3>1, <3>2, <3>3, <3>4, <3>5 DEF Call
  <2>3. \A g \in Thread : Compares(g)'
    BY <1>0, <2>1, <2>2, OtherCompares
  <2> QED
    BY <1>0, <2>1, <2>3, QuietLine
<1> QED
  BY <1>1, <1>2, <1>3

\* The calls of a vote request change no log.
LEMMA VoteKeepsLine ==
  ASSUME IInv, LineInv, HandleVoteRequest, Compared
  PROVE  LineInv'
<1>1. UNCHANGED <<log, pc, req, pos, scenario>>
  BY DEF HandleVoteRequest, control
<1>2. Sources' /\ SharedStays' /\ TermsRise(log)' /\ \A h \in Thread : Compares(h)'
  BY <1>1 DEF LineInv, Sources, LeaderSent, NothingCut, SharedStays, Conflict,
              Compares
<1>3. BallotInv'
  <2>1. CASE ReadLastTerm
    <3>1. /\ ballot \in [at : {"term", "index"}, request : scenario.votes,
                         lastTerm : Nat]
          /\ ballot.request.lastTerm \in Nat /\ ballot.request.lastIndex \in Nat
      BY <2>1, HandlersAssumption DEF ReadLastTerm, IInv, Typed, BallotOK, NoBallot
    <3>2. ballot'.lastTerm = LastTerm(log) /\ ballot'.request = ballot.request
          /\ ballot'.at = "index"
      BY <2>1, <3>1 DEF ReadLastTerm
    <3>3. ASSUME NEW m \in scenario.sent, NEW p \in DOMAIN m.entries,
                 Conflict(m, p), NEW j \in 1 .. p - 1
          PROVE  scenario.log[j].term <= LastTerm(log)
      <4>0. p \in Nat
        BY LineTypes
      <4>1. p - 1 <= Len(log) /\ log[j] = scenario.log[j]
        BY <3>3 DEF LineInv, SharedStays
      <4>2. /\ j \in DOMAIN log /\ Len(log) \in DOMAIN log /\ j <= Len(log)
            /\ log # <<>>
        BY <4>0, <4>1, LineTypes
      <4> QED
        BY <4>1, <4>2 DEF LineInv, TermsRise, LastTerm
    <3>4. fit' \/ ~UpToDate(ballot.request.lastIndex, ballot.request.lastTerm, log)
      BY <1>1, <3>2 DEF Compared, Voting
    <3>5. LastTerm(log) \in Nat /\ Len(log) \in Nat
      BY LastTermIs, LineTypes
    <3>6. \/ fit'
          \/ ballot.request.lastTerm < LastTerm(log)
          \/ /\ ballot.request.lastTerm = LastTerm(log)
             /\ ballot.request.lastIndex < Len(log)
      BY <3>1, <3>4, <3>5 DEF UpToDate, LastIndex
    <3> QED
      BY <1>1, <3>2, <3>3, <3>6 DEF BallotInv, Conflict
  <2>2. CASE ~ReadLastTerm
    BY <2>2 DEF HandleVoteRequest, TakeVoteRequest, Vote, NoBallot, BallotInv
  <2> QED
    BY <2>1, <2>2
<1> QED
  BY <1>2, <1>3 DEF LineInv

\* The line of one leader's log is kept by every step.
LEMMA NextLine ==
  IInv /\ (OneHistory => LineInv) /\ [Next]_vars => (OneHistory => LineInv)'
<1> SUFFICES ASSUME IInv, OneHistory => LineInv, [Next]_vars, OneHistory'
             PROVE  LineInv'
  OBVIOUS
<1>1. scenario' = scenario
  BY DEF Next, Handle, Call, ValidatePreviousLog, LookForConflict,
         TruncateSuffix, LookAgain, AppendEntry, CommitTarget, BoundTarget,
         CompareTarget, SetCommitIndex, ApplyNext, Keep, ObserveLeader,
         HandleVoteRequest, vars
<1>2. OneHistory /\ LineInv
  BY <1>1 DEF OneHistory, OneLeader
<1>3. ASSUME NEW h \in Thread, Handle(h) PROVE LineInv'
  BY <1>2, <1>3, CallKeepsLine
<1>4. ASSUME NEW h \in Thread, NEW m \in pending, ObserveLeader(h, m), Compared
      PROVE  LineInv'
  <2>1. /\ UNCHANGED <<log, scenario, pos, ballot>>
        /\ pc[h] = "idle" /\ pc'[h] \in {"idle", "previous"}
        /\ \A g \in Thread : g # h => pc'[g] = pc[g] /\ req'[g] = req[g]
    BY <1>4 DEF ObserveLeader, At, Goto, IInv, Typed
  <2>2. Compares(h)'
    BY <2>1 DEF Compares
  <2>3. \A g \in Thread : Compares(g)'
    BY <1>2, <2>1, <2>2, OtherCompares DEF LineInv
  <2> QED
    BY <1>2, <1>4, <2>1, <2>3, QuietLine
<1>5. CASE HandleVoteRequest /\ Compared
  BY <1>2, <1>5, VoteKeepsLine
<1>6. CASE UNCHANGED vars
  BY <1>2, <1>6
  DEF vars, store, control, voting, LineInv, Sources, LeaderSent, NothingCut,
      SharedStays, Conflict, Compares, BallotInv
<1> QED
  BY <1>3, <1>4, <1>5, <1>6 DEF Next

\* A vote is given only to a candidate whose log was at some moment of the
\* call as up to date as the log here, although last term and last index are
\* read apart, as long as the requests of one leader are what is handled
\* meanwhile (election_manager.cpp:117).
THEOREM GrantsAreDue == Spec => []GrantIsDue
<1>1. IInv /\ (OneHistory => LineInv) => GrantIsDue
  <2> SUFFICES ASSUME IInv, LineInv, ballot.at = "index", CandidateIsCurrent
               PROVE  fit
    BY DEF GrantIsDue
  <2>1. /\ ballot.request.lastTerm \in Nat /\ ballot.request.lastIndex \in Nat
        /\ ballot.lastTerm \in Nat /\ Len(log) \in Nat
    BY HandlersAssumption, LineTypes DEF IInv, Typed, BallotOK, NoBallot
  <2> QED
    BY <2>1 DEF LineInv, BallotInv, CandidateIsCurrent, LastIndex
<1>2. Spec => [](IInv /\ (OneHistory => LineInv))
  BY InitIInv, NextIInv, InitLine, NextLine, PTL DEF Spec
<1> QED
  BY <1>1, <1>2, PTL

-----------------------------------------------------------------------------
\* A handler that no other overlaps, at each of its calls: the log and the
\* commit index are those it found, as far as its loop has come.
Contradicted(h) == FirstConflict(before.log, req[h].entries)

Untouched(h) == log = before.log /\ commit = before.commit

Extended(h) ==
  /\ log = MergedUpTo(before.log, req[h].entries, pos[h] - 1)
  /\ commit = Smaller(before.commit, Contradicted(h) - 1)

InLoop(h) ==
  /\ pc[h] = "look" => IF pos[h] <= Contradicted(h) THEN Untouched(h)
                                                   ELSE Extended(h)
  /\ pc[h] = "cut" => pos[h] = Contradicted(h) /\ Untouched(h)
  /\ pc[h] \in {"again", "append"} =>
       IF pos[h] < Contradicted(h) THEN Untouched(h) /\ pc[h] = "again"
                                   ELSE Extended(h)

\* The store after the loop, and what the commit index may rise to.
Looped(h) == WithLog(Observed(before, req[h].term),
                     Merged(before.log, req[h].entries))

Bound(h) == Smaller(req[h].commit, Len(Looped(h).log))

AfterLoop(h) ==
  pc[h] \in {"target", "bound", "compare", "set", "apply"} =>
    /\ log = Looped(h).log
    /\ pc[h] # "apply" => commit = Looped(h).commit
    /\ pc[h] # "target" => target[h] = Bound(h)
    /\ pc[h] \in {"set", "apply"} => Looped(h).commit < Bound(h)

\* How far ApplyThrough has come.
Applies(h) ==
  /\ pc[h] # "apply" => applied = before.applied
  /\ pc[h] = "apply" =>
       /\ commit = Bound(h)
       /\ Len(before.applied) <= Len(applied)
       /\ Len(applied) <= Bound(h) \/ applied = before.applied
       /\ applied = before.applied
                      \o SubSeq(log, Len(before.applied) + 1, Len(applied))

AtCall(h) ==
  /\ req[h].term >= before.term
  /\ pc[h] = "previous" => Untouched(h)
  /\ pc[h] # "previous" =>
       PreviousMatches(before.log, req[h].prevIndex, req[h].prevTerm)
  /\ InLoop(h) /\ AfterLoop(h) /\ Applies(h)

\* before is the state of a follower at rest.
Found == /\ before \in State /\ before.vote = None /\ before.role = Follower
         /\ before.commit <= Len(before.log)

Alone(h) == alone /\ pc[h] # "idle"

AloneInv ==
  /\ Found
  /\ \A h \in Thread : Alone(h) => /\ AtCall(h)
                                   /\ \A g \in Thread \ {h} : pc[g] = "idle"

\* A state is given by its fields.
LEMMA SameState ==
  ASSUME NEW s \in State, NEW t \in Nat, s.term = t, s.vote = None,
         s.role = Follower, s.log = log', s.commit = commit',
         s.applied = applied'
  PROVE  [Now' EXCEPT !.term = t] = s
  BY DEF Now, State

\* What is known of a handler that runs, and of its loop.
LEMMA AloneTypes ==
  ASSUME IInv, Found, NEW h \in Thread, pc[h] # "idle"
  PROVE  /\ before.log \in Seq(Entry) /\ Len(before.log) \in Nat
         /\ before.applied \in Seq(Entry) /\ Len(before.applied) \in Nat
         /\ before.commit \in Nat /\ before.term \in Nat
         /\ req[h].entries \in Seq(Entry) /\ Len(req[h].entries) \in Nat
         /\ req[h].term \in Nat /\ req[h].commit \in Nat
         /\ Contradicted(h) \in 1 .. Len(before.log) + 1
         /\ Contradicted(h) \in 1 .. Len(req[h].entries) + 1
         /\ \A j \in 1 .. Contradicted(h) - 1 :
              before.log[j].term = req[h].entries[j].term
         /\ Contradicted(h) <= Len(before.log)
              /\ Contradicted(h) <= Len(req[h].entries)
              => before.log[Contradicted(h)].term
                   # req[h].entries[Contradicted(h)].term
<1>1. /\ before.log \in Seq(Entry) /\ before.applied \in Seq(Entry)
      /\ before.commit \in Nat /\ before.term \in Nat
  BY DEF Found, State
<1>2. /\ req[h].entries \in Seq(Entry) /\ req[h].term \in Nat
      /\ req[h].commit \in Nat
  BY HandlersAssumption DEF IInv, Typed
<1> QED
  BY <1>1, <1>2, FirstConflictIs, LenProperties DEF Contradicted

\* The state that the whole call leaves after its loop over the entries.
LEMMA LoopedIs ==
  ASSUME IInv, Found, NEW h \in Thread, pc[h] # "idle",
         req[h].term >= before.term
  PROVE  /\ Looped(h) \in State /\ Looped(h).applied = before.applied
         /\ Looped(h).term = req[h].term /\ Looped(h).vote = None
         /\ Looped(h).role = Follower
         /\ Contradicted(h) > Len(req[h].entries) =>
              Looped(h).log = before.log /\ Looped(h).commit = before.commit
         /\ Contradicted(h) <= Len(req[h].entries) =>
              /\ Looped(h).log = MergedUpTo(before.log, req[h].entries,
                                            Len(req[h].entries))
              /\ Looped(h).commit = Smaller(before.commit, Contradicted(h) - 1)
<1> DEFINE s == Observed(before, req[h].term)
           w == Merged(before.log, req[h].entries)
           k == Smaller(before.commit, FirstConflict(before.log, w) - 1)
<1>1. /\ before \in State /\ before.vote = None
      /\ before.log \in Seq(Entry) /\ req[h].entries \in Seq(Entry)
      /\ req[h].term \in Nat /\ before.term \in Nat /\ before.commit \in Nat
      /\ before.commit <= Len(before.log) /\ Len(before.log) \in Nat
      /\ Contradicted(h) \in Nat /\ Len(req[h].entries) \in Nat
  BY AloneTypes DEF Found
<1>2. /\ s \in State /\ s.log = before.log /\ s.commit = before.commit
      /\ s.applied = before.applied /\ s.role = Follower
      /\ s.term = req[h].term /\ s.vote = None
  <2>1. /\ s \in State /\ s.log = before.log /\ s.commit = before.commit
        /\ s.applied = before.applied /\ s.role = Follower
        /\ req[h].term > before.term => s.term = req[h].term /\ s.vote = None
        /\ ~(req[h].term > before.term) =>
             s.term = before.term /\ s.vote = before.vote
    BY <1>1, ObservedIs
  <2> HIDE DEF s
  <2> QED
    BY <1>1, <2>1
<1>3. /\ w \in Seq(Entry)
      /\ Contradicted(h) > Len(req[h].entries) =>
           w = before.log /\ FirstConflict(before.log, w) = Len(before.log) + 1
      /\ Contradicted(h) <= Len(req[h].entries) =>
           /\ w = MergedUpTo(before.log, req[h].entries, Len(req[h].entries))
           /\ FirstConflict(before.log, w) = Contradicted(h)
  BY <1>1, MergeEnds DEF Contradicted
<1> HIDE DEF s, w
<1>4. Looped(h) = [s EXCEPT !.log = w, !.commit = k]
  BY <1>2 DEF Looped, WithLog, s, w
<1>5. /\ Looped(h) \in State /\ Looped(h).applied = s.applied
      /\ Looped(h).term = s.term /\ Looped(h).vote = s.vote
      /\ Looped(h).role = s.role /\ Looped(h).log = w
  BY <1>2, <1>3, WithLogIs DEF Looped, s, w
<1>6. Looped(h).commit = k
  BY <1>2, <1>4 DEF State
<1>7. Contradicted(h) > Len(req[h].entries) => k = before.commit
  BY <1>1, <1>3 DEF Smaller
<1>8. Contradicted(h) <= Len(req[h].entries) =>
        k = Smaller(before.commit, Contradicted(h) - 1)
  BY <1>3
<1> QED
  BY <1>2, <1>3, <1>5, <1>6, <1>7, <1>8

\* The loop goes on or ends as AtCall says if what it has done before entry i
\* is so.
LEMMA LoopGoesOn ==
  ASSUME IInv, Found, NEW h \in Thread, pc[h] # "idle",
         req[h].term >= before.term, applied = before.applied,
         PreviousMatches(before.log, req[h].prevIndex, req[h].prevTerm),
         NEW i \in Nat \ {0}, i <= Len(req[h].entries) + 1, Loop(h, i),
         UNCHANGED <<req, before, applied>>,
         IF i <= Contradicted(h)
         THEN log' = before.log /\ commit' = before.commit
         ELSE /\ log' = MergedUpTo(before.log, req[h].entries, i - 1)
              /\ commit' = Smaller(before.commit, Contradicted(h) - 1)
  PROVE  pc'[h] # "idle" /\ AtCall(h)'
<1>1. /\ pc'[h] \in {"look", "target"}
      /\ pc'[h] = "look" => pos'[h] = i
      /\ pc'[h] = "target" => ~(i <= Len(req[h].entries))
  BY DEF Loop, Goto, IInv, Typed
<1>2. /\ Contradicted(h)' = Contradicted(h) /\ Looped(h)' = Looped(h)
      /\ Contradicted(h) \in 1 .. Len(req[h].entries) + 1
      /\ Len(req[h].entries) \in Nat
  BY AloneTypes DEF Contradicted, Looped
<1>3. InLoop(h)'
  BY <1>1, <1>2 DEF InLoop, Untouched, Extended
<1>4. AfterLoop(h)'
  <2>1. CASE pc'[h] = "target"
    <3>1. i = Len(req[h].entries) + 1 /\ i - 1 = Len(req[h].entries)
      BY <1>1, <1>2, <2>1
    <3>2. log' = Looped(h).log /\ commit' = Looped(h).commit
      <4>1. CASE i <= Contradicted(h)
        <5>1. Contradicted(h) > Len(req[h].entries)
          BY <1>2, <3>1, <4>1
        <5> QED
          BY <4>1, <5>1, LoopedIs
      <4>2. CASE ~(i <= Contradicted(h))
        <5>1. Contradicted(h) <= Len(req[h].entries)
          BY <1>2, <3>1, <4>2
        <5> QED
          BY <3>1, <4>2, <5>1, LoopedIs
      <4> QED
        BY <4>1, <4>2
    <3> QED
      BY <1>2, <2>1, <3>2 DEF AfterLoop
  <2>2. CASE pc'[h] = "look"
    BY <2>2 DEF AfterLoop
  <2> QED
    BY <1>1, <2>1, <2>2
<1>5. Applies(h)'
  BY <1>1 DEF Applies
<1> QED
  BY <1>1, <1>3, <1>4, <1>5 DEF AtCall

\* One call of a handler that runs alone: it goes on as AtCall says, or has
\* done the whole.
LEMMA CallAlone ==
  ASSUME IInv, IInv', Found, NEW h \in Thread, AtCall(h), Call(h),
         UNCHANGED before
  PROVE  IF pc'[h] = "idle"
         THEN [Now' EXCEPT !.term = req[h].term] = WholeCall(before, req[h])
         ELSE AtCall(h)'
<1> DEFINE E == req[h].entries
           f == Contradicted(h)
           L == Looped(h)
<1>0. /\ pc[h] # "idle" /\ pc \in [Thread -> Labels]
      /\ UNCHANGED <<req, scenario>>
  BY DEF Call, ValidatePreviousLog, LookForConflict, TruncateSuffix, LookAgain,
         AppendEntry, CommitTarget, BoundTarget, CompareTarget,
         SetCommitIndex, ApplyNext, Keep, At, IInv, Typed
<1>1. /\ before.log \in Seq(Entry) /\ Len(before.log) \in Nat
      /\ before.applied \in Seq(Entry) /\ Len(before.applied) \in Nat
      /\ before.commit \in Nat /\ before.term \in Nat
      /\ before.commit <= Len(before.log)
      /\ E \in Seq(Entry) /\ Len(E) \in Nat
      /\ req[h].term \in Nat /\ req[h].commit \in Nat
      /\ f \in 1 .. Len(before.log) + 1 /\ f \in 1 .. Len(E) + 1
      /\ \A j \in 1 .. f - 1 : before.log[j].term = E[j].term
      /\ f <= Len(before.log) /\ f <= Len(E) => before.log[f].term # E[f].term
  BY <1>0, AloneTypes DEF Found
<1>2. /\ L \in State /\ L.applied = before.applied /\ L.term = req[h].term
      /\ L.vote = None /\ L.role = Follower /\ req[h].term >= before.term
  BY <1>0, LoopedIs DEF AtCall
<1>3. /\ f' = f /\ L' = L /\ Bound(h)' = Bound(h)
      /\ L.log \in Seq(Entry) /\ Len(L.log) \in Nat /\ L.commit \in Nat
      /\ Bound(h) \in Nat /\ Bound(h) <= Len(L.log)
  <2>1. f' = f /\ L' = L
    BY <1>0 DEF Contradicted, Looped
  <2>2. L.log \in Seq(Entry) /\ L.commit \in Nat
    BY <1>2 DEF State
  <2> HIDE DEF L
  <2>3. Len(L.log) \in Nat
    BY <2>2, LenProperties
  <2> QED
    BY <1>0, <1>1, <2>1, <2>2, <2>3, SmallerIs DEF Bound, L
<1>4. /\ log \in Seq(Entry) /\ Len(log) \in Nat /\ applied \in Seq(Entry)
      /\ Len(applied) \in Nat /\ pos[h] \in Nat
      /\ pc[h] \in {"look", "cut", "again", "append"} =>
           /\ pos[h] \in 1 .. Len(E) /\ pos[h] + 1 \in Nat \ {0}
           /\ pos[h] + 1 <= Len(E) + 1
  <2>1. pc[h] \in {"look", "cut", "again", "append"} => pos[h] \in 1 .. Len(E)
    BY <1>1 DEF IInv, Positioned
  <2>2. log \in Seq(Entry) /\ applied \in Seq(Entry) /\ pos[h] \in Nat
    BY DEF IInv, Typed
  <2> HIDE DEF E
  <2> QED
    BY <1>1, <2>1, <2>2, LenProperties
<1>5. /\ pc[h] # "apply" => applied = before.applied
      /\ pc[h] # "previous" =>
           PreviousMatches(before.log, req[h].prevIndex, req[h].prevTerm)
  BY DEF AtCall, Applies
\* Where the loop has cut or appended, its log ends before the entry it is at.
<1> HIDE DEF f, E
<1>6. ASSUME Extended(h), pc[h] \in {"look", "again", "append"}, f <= pos[h]
      PROVE  Len(log) = pos[h] - 1
  <2>1. pos[h] - 1 \in Nat /\ f - 1 <= pos[h] - 1 /\ pos[h] - 1 <= Len(E)
    <3>1. pos[h] \in 1 .. Len(E)
      BY <1>4, <1>6
    <3>2. f \in Nat /\ Len(E) \in Nat
      BY <1>1
    <3> QED
      BY <1>6, <3>1, <3>2
  <2> QED
    BY <1>1, <1>6, <2>1, MergedUpToIs DEF Extended, Contradicted, f, E
<1> HIDE DEF L
\* The log in which it has found nothing to do is the log cut at the end of
\* what it shares with the request.
<1>7. MergedUpTo(before.log, E, f - 1) = SubSeq(before.log, 1, f - 1)
  BY <1>1, MergeGoesOn DEF f, E, Contradicted
<1>a. CASE ValidatePreviousLog(h)
  <2>0. /\ pc[h] = "previous" /\ UNCHANGED <<log, commit, applied>>
        /\ log = before.log /\ commit = before.commit
    BY <1>a DEF ValidatePreviousLog, At, Keep, store, AtCall, Untouched
  <2>1. CASE PreviousMatches(before.log, req[h].prevIndex, req[h].prevTerm)
    <3>1. Loop(h, 1)
      BY <1>a, <2>0, <2>1 DEF ValidatePreviousLog
    <3>2. 1 \in Nat \ {0} /\ 1 <= Len(E) + 1 /\ 1 <= f
      BY <1>1
    <3> QED
      BY <1>0, <1>1, <1>2, <1>5, <2>0, <2>1, <3>1, <3>2, LoopGoesOn DEF f, E
  <2>2. CASE ~PreviousMatches(before.log, req[h].prevIndex, req[h].prevTerm)
    <3>1. pc'[h] = "idle"
      BY <1>0, <1>a, <2>0, <2>2 DEF ValidatePreviousLog, Goto
    <3> DEFINE s == Observed(before, req[h].term)
    <3>2. /\ s \in State /\ s.log = before.log /\ s.commit = before.commit
          /\ s.applied = before.applied /\ s.role = Follower
          /\ s.term = req[h].term /\ s.vote = None
      <4>1. /\ s \in State /\ s.log = before.log /\ s.commit = before.commit
            /\ s.applied = before.applied /\ s.role = Follower
            /\ req[h].term > before.term =>
                 s.term = req[h].term /\ s.vote = None
            /\ ~(req[h].term > before.term) =>
                 s.term = before.term /\ s.vote = before.vote
        BY <1>1, ObservedIs DEF Found
      <4> HIDE DEF s
      <4> QED
        BY <1>1, <1>2, <4>1 DEF Found
    <3>3. WholeCall(before, req[h]) = s
      BY <2>2 DEF WholeCall
    <3> HIDE DEF s
    <3>4. [Now' EXCEPT !.term = req[h].term] = s
      BY <1>1, <1>5, <2>0, <3>2, SameState
    <3> QED
      BY <3>1, <3>3, <3>4
  <2> QED
    BY <2>1, <2>2
<1>b. CASE LookForConflict(h)
  <2>0. /\ pc[h] = "look" /\ UNCHANGED <<log, commit, applied, pos>>
        /\ \/ /\ pos[h] \in DOMAIN log /\ log[pos[h]].term # E[pos[h]].term
              /\ pc'[h] = "cut"
           \/ /\ ~(pos[h] \in DOMAIN log /\ log[pos[h]].term # E[pos[h]].term)
              /\ pc'[h] = "again"
    BY <1>0, <1>b DEF LookForConflict, At, Keep, Goto, store, E
  <2>1. InLoop(h)'
    <3>1. CASE pos[h] <= f
      <4>0. log = before.log /\ commit = before.commit
        BY <2>0, <3>1 DEF AtCall, InLoop, Untouched, f
      <4>1. CASE pos[h] < f
        <5>1. pc'[h] = "again"
          BY <1>1, <1>4, <2>0, <4>0, <4>1
        <5> QED
          BY <1>0, <1>3, <2>0, <4>0, <4>1, <5>1 DEF InLoop, Untouched, f
      <4>2. CASE pos[h] = f /\ pc'[h] = "cut"
        BY <1>0, <1>3, <2>0, <4>0, <4>2 DEF InLoop, Untouched, f
      <4>3. CASE pos[h] = f /\ pc'[h] = "again"
        <5>1. f = Len(before.log) + 1
          <6>1. f <= Len(E) /\ ~(f \in DOMAIN before.log
                                 /\ before.log[f].term # E[f].term)
            BY <1>4, <2>0, <4>0, <4>3
          <6>2. ~(f <= Len(before.log))
            BY <1>1, <6>1
          <6> QED
            BY <1>1, <6>2
        <5>2. SubSeq(before.log, 1, f - 1) = before.log
          <6>1. f - 1 = Len(before.log)
            BY <1>1, <5>1
          <6> QED
            BY <1>1, <6>1, SubSeqFull
        <5>3. before.commit = Smaller(before.commit, f - 1)
          BY <1>1, <5>1 DEF Smaller
        <5>4. /\ log' = MergedUpTo(before.log, E, pos[h] - 1)
              /\ commit' = Smaller(before.commit, f - 1)
          BY <1>7, <2>0, <4>0, <4>3, <5>2, <5>3
        <5>5. Extended(h)'
          BY <1>0, <1>3, <2>0, <5>4 DEF Extended, f, E
        <5>6. ~(pos'[h] < f')
          BY <1>1, <1>3, <2>0, <4>3
        <5> QED
          BY <4>3, <5>5, <5>6 DEF InLoop, f
      <4> QED
        BY <1>1, <1>4, <2>0, <3>1, <4>1, <4>2, <4>3
    <3>2. CASE ~(pos[h] <= f)
      <4>1. Extended(h)
        BY <2>0, <3>2 DEF AtCall, InLoop, f
      <4>2. Len(log) = pos[h] - 1
        BY <1>1, <1>4, <1>6, <2>0, <3>2, <4>1
      <4>3. pc'[h] = "again"
        BY <1>4, <2>0, <4>2
      <4>4. Extended(h)' /\ ~(pos'[h] < f')
        BY <1>0, <1>1, <1>3, <1>4, <2>0, <3>2, <4>1 DEF Extended, f
      <4> QED
        BY <4>3, <4>4 DEF InLoop, f
    <3> QED
      BY <3>1, <3>2
  <2>2. AfterLoop(h)' /\ Applies(h)'
    BY <1>5, <2>0 DEF AfterLoop, Applies
  <2> QED
    BY <1>0, <1>2, <1>5, <2>0, <2>1, <2>2 DEF AtCall
<1>c. CASE TruncateSuffix(h)
  <2>0. /\ pc[h] = "cut" /\ pc'[h] = "again" /\ UNCHANGED <<applied, pos>>
        /\ log' = SubSeq(log, 1, Smaller(pos[h] - 1, Len(log)))
        /\ commit' = Smaller(commit, Len(log'))
        /\ pos[h] = f /\ log = before.log /\ commit = before.commit
    BY <1>0, <1>c DEF TruncateSuffix, At, Keep, Goto, AtCall, InLoop, Untouched, f
  <2>1. /\ Smaller(f - 1, Len(log)) = f - 1 /\ f - 1 \in 0 .. Len(before.log)
    BY <1>1, <2>0 DEF Smaller
  <2>2. log' = SubSeq(before.log, 1, f - 1) /\ Len(log') = f - 1
    BY <1>1, <2>0, <2>1, CutIs
  <2>3. Extended(h)' /\ ~(pos'[h] < f')
    <3>1. /\ log' = MergedUpTo(before.log, E, pos[h] - 1)
          /\ commit' = Smaller(before.commit, f - 1)
      BY <1>7, <2>0, <2>2
    <3>2. Extended(h)'
      BY <1>0, <1>3, <2>0, <3>1 DEF Extended, f, E
    <3> QED
      BY <1>1, <1>3, <2>0, <3>2
  <2>4. InLoop(h)' /\ AfterLoop(h)' /\ Applies(h)'
    BY <1>5, <2>0, <2>3 DEF InLoop, AfterLoop, Applies, f
  <2> QED
    BY <1>0, <1>2, <1>5, <2>0, <2>4 DEF AtCall
<1>d. CASE LookAgain(h)
  <2>0. /\ pc[h] = "again" /\ UNCHANGED <<log, commit, applied>>
        /\ \/ pos[h] \in DOMAIN log /\ Loop(h, pos[h] + 1)
           \/ /\ pos[h] \notin DOMAIN log /\ pc'[h] = "append"
              /\ UNCHANGED pos
    BY <1>0, <1>d DEF LookAgain, At, Keep, Goto, store
  <2>1. CASE pos[h] < f
    <3>1. log = before.log /\ commit = before.commit
      BY <2>0, <2>1 DEF AtCall, InLoop, Untouched, f
    <3>2. pos[h] \in DOMAIN log /\ pos[h] + 1 <= f
      BY <1>1, <1>4, <2>0, <2>1, <3>1
    <3> QED
      BY <1>0, <1>2, <1>4, <1>5, <2>0, <3>1, <3>2, LoopGoesOn DEF f, E
  <2>2. CASE ~(pos[h] < f)
    <3>1. Extended(h)
      BY <2>0, <2>2 DEF AtCall, InLoop, f
    <3>2. Len(log) = pos[h] - 1
      BY <1>1, <1>4, <1>6, <2>0, <2>2, <3>1
    <3>3. pos[h] \notin DOMAIN log
      BY <1>4, <2>0, <3>2
    <3>4. pc'[h] = "append" /\ UNCHANGED pos
      BY <2>0, <3>3
    <3>5. Extended(h)' /\ ~(pos'[h] < f')
      BY <1>0, <1>3, <2>0, <2>2, <3>1, <3>4 DEF Extended, f
    <3>6. InLoop(h)' /\ AfterLoop(h)' /\ Applies(h)'
      BY <1>5, <2>0, <3>4, <3>5 DEF InLoop, AfterLoop, Applies, f
    <3> QED
      BY <1>0, <1>2, <1>5, <2>0, <3>4, <3>6 DEF AtCall
  <2> QED
    BY <2>1, <2>2
<1>e. CASE AppendEntry(h)
  <2>0. pc[h] = "append" /\ UNCHANGED <<commit, applied>>
    BY <1>e DEF AppendEntry, At, Keep
  <2>1. Extended(h) /\ ~(pos[h] < f)
    BY <2>0 DEF AtCall, InLoop, f
  <2>2. pos[h] = Len(log) + 1
    BY <1>1, <1>4, <1>6, <2>0, <2>1
  <2>3. log' = Append(log, E[pos[h]]) /\ Loop(h, pos[h] + 1)
    BY <1>e, <2>2 DEF AppendEntry, E
  <2>4. log' = MergedUpTo(before.log, E, pos[h])
    <3>1. log = MergedUpTo(before.log, E, pos[h] - 1)
      BY <2>1 DEF Extended, E
    <3>2. /\ pos[h] - 1 \in Nat /\ f - 1 <= pos[h] - 1
          /\ (pos[h] - 1) + 1 <= Len(E) /\ (pos[h] - 1) + 1 = pos[h]
      BY <1>1, <1>4, <2>0, <2>1
    <3>3. Append(MergedUpTo(before.log, E, pos[h] - 1), E[(pos[h] - 1) + 1])
            = MergedUpTo(before.log, E, (pos[h] - 1) + 1)
      <4>1. \A k \in Nat :
              f - 1 <= k /\ k + 1 <= Len(E) =>
                Append(MergedUpTo(before.log, E, k), E[k + 1])
                  = MergedUpTo(before.log, E, k + 1)
        BY <1>1, MergeGoesOn DEF f, E, Contradicted
      <4> QED
        BY <3>2, <4>1
    <3> QED
      BY <2>3, <3>1, <3>2, <3>3
  <2>5. ~(pos[h] + 1 <= f) /\ (pos[h] + 1) - 1 = pos[h]
    BY <1>1, <1>4, <2>1
  <2>6. commit' = Smaller(before.commit, f - 1)
    BY <2>0, <2>1 DEF Extended, f
  <2> QED
    BY <1>0, <1>2, <1>4, <1>5, <2>0, <2>3, <2>4, <2>5, <2>6, LoopGoesOn DEF f, E
<1>f. CASE CommitTarget(h)
  <2>1. /\ pc[h] = "target" /\ pc'[h] = "bound"
        /\ UNCHANGED <<log, commit, applied>>
        /\ target'[h] = Smaller(req[h].commit, Len(log))
    BY <1>0, <1>f DEF CommitTarget, At, Keep, Goto, store, IInv, Typed
  <2>2. log = L.log /\ commit = L.commit
    BY <2>1 DEF AtCall, AfterLoop, L
  <2>3. AfterLoop(h)'
    BY <1>3, <2>1, <2>2 DEF AfterLoop, Bound, L
  <2>4. InLoop(h)' /\ Applies(h)'
    BY <1>5, <2>1 DEF InLoop, Applies
  <2> QED
    BY <1>0, <1>2, <1>5, <2>1, <2>3, <2>4 DEF AtCall
<1>g. CASE BoundTarget(h)
  <2>1. /\ pc[h] = "bound" /\ pc'[h] = "compare"
        /\ UNCHANGED <<log, commit, applied>>
        /\ target'[h] = Smaller(target[h], Len(log))
    BY <1>0, <1>g DEF BoundTarget, At, Keep, Goto, store, IInv, Typed
  <2>2. log = L.log /\ commit = L.commit /\ target[h] = Bound(h)
    BY <2>1 DEF AtCall, AfterLoop, L
  <2>3. target'[h] = Bound(h)
    BY <1>3, <2>1, <2>2 DEF Smaller
  <2>4. AfterLoop(h)'
    BY <1>3, <2>1, <2>2, <2>3 DEF AfterLoop, L
  <2>5. InLoop(h)' /\ Applies(h)'
    BY <1>5, <2>1 DEF InLoop, Applies
  <2> QED
    BY <1>0, <1>2, <1>5, <2>1, <2>4, <2>5 DEF AtCall
<1>w. pc[h] \in {"compare", "apply"} =>
        WholeCall(before, req[h]) =
          IF Bound(h) <= L.commit THEN L
          ELSE [L EXCEPT !.commit = Bound(h),
                         !.applied = @ \o SubSeq(L.log, Len(@) + 1, Bound(h))]
  <2> SUFFICES ASSUME pc[h] \in {"compare", "apply"}
               PROVE  WholeCall(before, req[h]) =
                        IF Bound(h) <= L.commit THEN L
                        ELSE [L EXCEPT !.commit = Bound(h),
                                       !.applied = @ \o SubSeq(L.log, Len(@) + 1,
                                                               Bound(h))]
    OBVIOUS
  <2>1. WholeCall(before, req[h]) = Committed(L, req[h].commit)
    BY <1>5 DEF WholeCall, L, Looped
  <2>2. Smaller(req[h].commit, LastIndex(L.log)) = Bound(h)
    BY DEF Bound, LastIndex, L
  <2>3. Committed(L, req[h].commit) =
          IF Bound(h) <= L.commit THEN L
          ELSE ApplyThrough([L EXCEPT !.commit = Bound(h)], Bound(h))
    BY <2>2 DEF Committed
  <2>4. Smaller(Bound(h), Len(L.log)) = Bound(h)
    BY <1>3 DEF Smaller
  <2> DEFINE c == [L EXCEPT !.commit = Bound(h)]
  <2>5. c.log = L.log /\ c.applied = L.applied
    BY <1>2 DEF State
  <2>6. ApplyThrough(c, Bound(h)) =
          [c EXCEPT !.applied = L.applied \o SubSeq(L.log, Len(L.applied) + 1,
                                                    Bound(h))]
    BY <2>4, <2>5 DEF ApplyThrough
  <2> QED
    BY <1>2, <2>1, <2>3, <2>6 DEF State
<1>i. CASE CompareTarget(h)
  <2>0. /\ pc[h] = "compare" /\ UNCHANGED <<log, commit, applied, target>>
        /\ IF target[h] <= commit THEN pc'[h] = "idle" ELSE pc'[h] = "set"
    BY <1>0, <1>i DEF CompareTarget, At, Keep, Goto, Succeed, store
  <2>1. log = L.log /\ commit = L.commit /\ target[h] = Bound(h)
    BY <2>0 DEF AtCall, AfterLoop, L
  <2>2. CASE target[h] <= commit
    <3>1. WholeCall(before, req[h]) = L
      BY <1>w, <2>0, <2>1, <2>2
    <3>2. [Now' EXCEPT !.term = req[h].term] = L
      BY <1>1, <1>2, <1>5, <2>0, <2>1, SameState
    <3> QED
      BY <2>0, <2>2, <3>1, <3>2
  <2>3. CASE ~(target[h] <= commit)
    <3>1. L.commit < Bound(h)
      BY <1>3, <2>1, <2>3
    <3>2. AfterLoop(h)'
      BY <1>3, <2>0, <2>1, <2>3, <3>1 DEF AfterLoop, L
    <3>3. InLoop(h)' /\ Applies(h)'
      BY <1>5, <2>0, <2>3 DEF InLoop, Applies
    <3> QED
      BY <1>0, <1>2, <1>5, <2>0, <2>3, <3>2, <3>3 DEF AtCall
  <2> QED
    BY <2>2, <2>3
<1>j. CASE SetCommitIndex(h)
  <2>0. /\ pc[h] = "set" /\ pc'[h] = "apply" /\ UNCHANGED <<log, applied, target>>
        /\ commit' = Smaller(target[h], Len(log))
    BY <1>0, <1>j DEF SetCommitIndex, At, Keep, Goto
  <2>1. /\ log = L.log /\ target[h] = Bound(h) /\ L.commit < Bound(h)
        /\ applied = before.applied
    BY <1>5, <2>0 DEF AtCall, AfterLoop, L
  <2>2. commit' = Bound(h)
    BY <1>3, <2>0, <2>1 DEF Smaller
  <2>3. AfterLoop(h)'
    BY <1>3, <2>0, <2>1 DEF AfterLoop, L
  <2>4. Applies(h)'
    <3>1. SubSeq(log, Len(before.applied) + 1, Len(before.applied)) = <<>>
      BY <1>1, SubSeqEmpty
    <3>2. applied' = before.applied
                       \o SubSeq(log', Len(before.applied) + 1, Len(applied'))
      BY <1>1, <2>0, <2>1, <3>1, ConcatEmptySeq
    <3>3. Len(before.applied) <= Len(applied') /\ applied' = before.applied
      BY <1>1, <2>0, <2>1
    <3> QED
      BY <1>3, <2>0, <2>2, <3>2, <3>3 DEF Applies
  <2>5. InLoop(h)'
    BY <2>0 DEF InLoop
  <2> QED
    BY <1>0, <1>2, <1>5, <2>0, <2>3, <2>4, <2>5 DEF AtCall
<1>k. CASE ApplyNext(h)
  <2>0. /\ pc[h] = "apply" /\ UNCHANGED <<log, commit, target>>
    BY <1>k DEF ApplyNext, At, Keep
  <2>1. /\ log = L.log /\ target[h] = Bound(h) /\ L.commit < Bound(h)
    BY <2>0 DEF AtCall, AfterLoop, L
  <2> DEFINE n == Len(before.applied)
             N == Len(applied)
  <2>2. /\ commit = Bound(h) /\ n <= N
        /\ N <= Bound(h) \/ applied = before.applied
        /\ applied = before.applied \o SubSeq(log, n + 1, N)
        /\ n \in Nat /\ N \in Nat
    BY <1>1, <1>4, <2>0 DEF AtCall, Applies
  <2>3. CASE N + 1 <= target[h] /\ N + 1 \in DOMAIN log
    <3>1. applied' = Append(applied, log[N + 1]) /\ UNCHANGED pc
      BY <1>k, <2>3 DEF ApplyNext
    <3>2. log[N + 1] \in Entry /\ N + 1 <= Bound(h)
      BY <1>4, <2>1, <2>3, ElementOfSeq
    <3>3. Len(applied') = N + 1
      BY <1>4, <3>1, <3>2, AppendProperties
    <3>4. applied' = before.applied \o SubSeq(log, n + 1, N + 1)
      <4>1. n + 1 \in 1 .. Len(log) /\ N + 1 \in n + 1 .. Len(log)
            /\ (N + 1) - 1 = N
        BY <1>4, <2>2, <2>3
      <4>2. SubSeq(log, n + 1, N + 1) = SubSeq(log, n + 1, N) \o <<log[N + 1]>>
        BY <1>4, <4>1, SubSeqRecursiveSecond
      <4>3. SubSeq(log, n + 1, N) \in Seq(Entry)
        <5>1. \A j \in n + 1 .. N : log[j] \in Entry
          BY <1>4, <2>2, <4>1, ElementOfSeq
        <5>2. n + 1 \in Int /\ N \in Int
          BY <2>2
        <5> QED
          BY <5>1, <5>2, SubSeqProperties
      <4>4. <<log[N + 1]>> \in Seq(Entry)
        BY <3>2
      <4>5. before.applied \o (SubSeq(log, n + 1, N) \o <<log[N + 1]>>)
              = (before.applied \o SubSeq(log, n + 1, N)) \o <<log[N + 1]>>
        <5> DEFINE u == SubSeq(log, n + 1, N)
                   v == <<log[N + 1]>>
                   w == before.applied
        <5> HIDE DEF u, v, w
        <5>1. w \in Seq(Entry) /\ u \in Seq(Entry) /\ v \in Seq(Entry)
          BY <1>1, <4>3, <4>4 DEF u, v, w
        <5>2. (w \o u) \o v = w \o (u \o v)
          BY <5>1, ConcatAssociative
        <5> QED
          BY <5>2 DEF u, v, w
      <4>6. Append(applied, log[N + 1]) = applied \o <<log[N + 1]>>
        BY <1>4, <3>2, AppendIsConcat
      <4> HIDE DEF n, N
      <4> QED
        BY <2>2, <3>1, <4>2, <4>5, <4>6
    <3>5. Applies(h)'
      <4>1. pc'[h] = "apply" /\ commit' = Bound(h)' /\ log' = log
        BY <1>3, <2>0, <2>2, <3>1
      <4>2. Len(before.applied) <= Len(applied') /\ Len(applied') <= Bound(h)
        BY <2>2, <3>2, <3>3
      <4>3. applied' = before.applied
                         \o SubSeq(log, Len(before.applied) + 1, Len(applied'))
        BY <3>3, <3>4
      <4> QED
        BY <1>3, <4>1, <4>2, <4>3 DEF Applies
    <3>6. AfterLoop(h)' /\ InLoop(h)'
      BY <1>3, <2>0, <2>1, <3>1 DEF AfterLoop, InLoop, L
    <3> QED
      BY <1>0, <1>2, <1>5, <2>0, <3>1, <3>5, <3>6 DEF AtCall
  <2>4. CASE ~(N + 1 <= target[h] /\ N + 1 \in DOMAIN log)
    <3>1. pc'[h] = "idle" /\ applied' = applied
      BY <1>0, <1>k, <2>4 DEF ApplyNext, Succeed, Goto
    <3>2. Bound(h) <= N
      BY <1>3, <1>4, <2>1, <2>2, <2>4
    <3>3. applied = before.applied \o SubSeq(log, n + 1, Bound(h))
      <4>1. CASE N = Bound(h)
        BY <2>2, <4>1
      <4>2. CASE N # Bound(h)
        <5>1. applied = before.applied /\ Bound(h) < n + 1
          <6>1. Bound(h) < N /\ applied = before.applied
            <7>1. /\ N \in Nat /\ Bound(h) \in Nat /\ Bound(h) <= N
                  /\ N # Bound(h)
                  /\ N <= Bound(h) \/ applied = before.applied
              BY <1>3, <2>2, <3>2, <4>2
            <7> HIDE DEF N
            <7> QED
              BY <7>1
          <6>2. n = N
            BY <6>1
          <6> HIDE DEF n, N
          <6> QED
            BY <1>3, <2>2, <6>1, <6>2
        <5>2. SubSeq(log, n + 1, Bound(h)) = <<>>
          BY <1>3, <2>2, <5>1, SubSeqEmpty
        <5> QED
          BY <1>1, <5>1, <5>2, ConcatEmptySeq
      <4> QED
        BY <4>1, <4>2
    <3> DEFINE s == [L EXCEPT !.commit = Bound(h),
                              !.applied = @ \o SubSeq(L.log, Len(@) + 1, Bound(h))]
    <3>4. WholeCall(before, req[h]) = s
      BY <1>3, <1>w, <2>0, <2>1
    <3>5. /\ s.term = L.term /\ s.vote = L.vote /\ s.role = L.role
          /\ s.log = L.log /\ s.commit = Bound(h)
          /\ s.applied = L.applied \o SubSeq(L.log, Len(L.applied) + 1, Bound(h))
      BY <1>2 DEF State
    <3>6. s.applied = applied
      BY <1>2, <2>1, <3>3, <3>5
    <3>7. s \in State
      BY <1>2, <1>3, <1>4, <3>5, <3>6 DEF State
    <3> HIDE DEF s
    <3>8. [Now' EXCEPT !.term = req[h].term] = s
      BY <1>1, <1>2, <2>0, <2>1, <2>2, <3>1, <3>5, <3>6, <3>7, SameState
    <3> QED
      BY <3>1, <3>4, <3>8
  <2> QED
    BY <2>3, <2>4
<1> QED
  BY <1>a, <1>b, <1>c, <1>d, <1>e, <1>f, <1>g, <1>i, <1>j, <1>k DEF Call

\* Nothing has begun yet.
LEMMA InitAlone == Init => AloneInv
<1> SUFFICES ASSUME Init PROVE AloneInv
  OBVIOUS
<1>1. /\ scenario \in Scenarios /\ log = scenario.log /\ commit = 0
      /\ applied = <<>> /\ before = Now /\ term = LastTerm(scenario.log)
      /\ \A h \in Thread : pc[h] = "idle"
  BY DEF Init
<1>2. log \in Seq(Entry) /\ term \in Nat /\ Len(log) \in Nat
  BY <1>1, HandlersAssumption, LastTermIs
<1>3. Now \in State /\ Now.vote = None /\ Now.role = Follower
      /\ Now.commit = 0 /\ Now.log = log
  BY <1>1, <1>2 DEF Now, State, Follower
<1> QED
  BY <1>1, <1>2, <1>3 DEF AloneInv, Found, Alone

\* A step of a handler leaves the position of the others alone.
LEMMA CallIsLocal ==
  ASSUME IInv, NEW h \in Thread, Call(h)
  PROVE  /\ pc[h] # "idle" /\ UNCHANGED <<before, alone, req>>
         /\ \A g \in Thread : g # h => pc'[g] = pc[g]
  BY DEF Call, ValidatePreviousLog, LookForConflict, TruncateSuffix, LookAgain,
         AppendEntry, CommitTarget, BoundTarget, CompareTarget,
         SetCommitIndex, ApplyNext, Keep, At, Goto, Loop, Succeed, IInv, Typed

\* A handler nobody disturbed has done a part of the whole call after each
\* of its steps, and all of it after its last one.
LEMMA NextAlone ==
  IInv /\ AloneInv /\ [Next]_vars =>
    /\ AloneInv'
    /\ \A h \in Thread :
         alone /\ pc[h] # "idle" /\ pc'[h] = "idle"
           => [Now' EXCEPT !.term = req[h].term] = WholeCall(before, req[h])
<1> SUFFICES ASSUME IInv, AloneInv, [Next]_vars
             PROVE  /\ AloneInv'
                    /\ \A h \in Thread :
                         alone /\ pc[h] # "idle" /\ pc'[h] = "idle"
                           => [Now' EXCEPT !.term = req[h].term]
                                = WholeCall(before, req[h])
  OBVIOUS
<1>0. IInv' /\ Found
  BY NextIInv DEF AloneInv
<1>1. ASSUME NEW h \in Thread, Handle(h)
      PROVE  /\ AloneInv'
             /\ \A g \in Thread :
                  alone /\ pc[g] # "idle" /\ pc'[g] = "idle"
                    => [Now' EXCEPT !.term = req[g].term]
                         = WholeCall(before, req[g])
  <2>1. /\ pc[h] # "idle" /\ UNCHANGED <<before, alone, req>>
        /\ \A g \in Thread : g # h => pc'[g] = pc[g]
        /\ Call(h)
    BY <1>1, CallIsLocal DEF Handle
  <2>2. CASE alone
    <3>1. AtCall(h) /\ \A g \in Thread \ {h} : pc[g] = "idle"
      BY <2>1, <2>2 DEF AloneInv, Alone
    <3>2. IF pc'[h] = "idle"
          THEN [Now' EXCEPT !.term = req[h].term] = WholeCall(before, req[h])
          ELSE AtCall(h)'
      BY <1>0, <2>1, <3>1, CallAlone
    <3>3. \A g \in Thread \ {h} : pc[g] = "idle" /\ pc'[g] = "idle"
      BY <2>1, <3>1
    <3>4. Found'
      BY <1>0, <2>1 DEF Found
    <3>5. AloneInv'
      BY <3>2, <3>3, <3>4 DEF AloneInv, Alone
    <3> QED
      BY <3>2, <3>3, <3>5
  <2>3. CASE ~alone
    <3>1. Found' /\ ~alone'
      BY <1>0, <2>1, <2>3 DEF Found
    <3> QED
      BY <2>3, <3>1 DEF AloneInv, Alone
  <2> QED
    BY <2>2, <2>3
<1>2. ASSUME NEW h \in Thread, NEW m \in pending, ObserveLeader(h, m)
      PROVE  /\ AloneInv'
             /\ \A g \in Thread : ~(pc[g] # "idle" /\ pc'[g] = "idle")
  <2>0. /\ pc[h] = "idle" /\ UNCHANGED <<log, commit, applied, pos, target>>
        /\ term \in Nat /\ m.term \in Nat
    BY <1>2, HandlersAssumption DEF ObserveLeader, At, IInv, Typed
  <2>1. CASE m.term < term
    <3>1. UNCHANGED <<pc, req, alone, before>>
      BY <1>2, <2>1 DEF ObserveLeader
    <3> QED
      BY <2>0, <3>1
      DEF AloneInv, Found, Alone, AtCall, InLoop, AfterLoop, Applies, Untouched,
          Extended, Contradicted, Looped, Bound
  <2>2. CASE ~(m.term < term)
    <3>1. /\ pc'[h] = "previous" /\ req'[h] = m
          /\ \A g \in Thread : g # h => pc'[g] = pc[g]
          /\ alone' = \A k \in Thread : pc[k] = "idle"
          /\ before' = IF alone' THEN Now ELSE before
      BY <1>2, <2>2 DEF ObserveLeader, At, Goto, IInv, Typed
    <3>2. Now \in State /\ Now.vote = None /\ Now.role = Follower
          /\ Now.commit = commit /\ Now.log = log /\ Now.term = term
          /\ Now.applied = applied /\ commit <= Len(log)
      BY DEF Now, State, Follower, IInv, Typed, CommitWithinLog
    <3>3. Found'
      BY <1>0, <3>1, <3>2 DEF Found
    <3>4. ASSUME alone' PROVE AtCall(h)' /\ \A g \in Thread \ {h} : pc'[g] = "idle"
      <4>1. /\ before' = Now /\ \A g \in Thread \ {h} : pc'[g] = "idle"
        BY <3>1, <3>4
      <4>2. m.term >= term
        BY <2>0, <2>2
      <4>3. Untouched(h)'
        BY <2>0, <3>2, <4>1 DEF Untouched
      <4>4. InLoop(h)' /\ AfterLoop(h)' /\ Applies(h)'
        BY <2>0, <3>1, <3>2, <4>1 DEF InLoop, AfterLoop, Applies
      <4> QED
        BY <3>1, <3>2, <4>1, <4>2, <4>3, <4>4 DEF AtCall
    <3>5. AloneInv'
      <4> SUFFICES ASSUME NEW g \in Thread, Alone(g)'
                   PROVE  AtCall(g)' /\ \A k \in Thread \ {g} : pc'[k] = "idle"
        BY <3>3 DEF AloneInv
      <4>1. g = h
        BY <3>1, <3>4 DEF Alone
      <4> QED
        BY <3>4, <4>1 DEF Alone
    <3> QED
      BY <2>0, <3>1, <3>5
  <2> QED
    BY <2>1, <2>2
<1>3. CASE HandleVoteRequest \/ UNCHANGED vars
  <2>1. UNCHANGED <<log, commit, applied, pc, req, pos, target, alone, before>>
    BY <1>3 DEF HandleVoteRequest, control, history, vars, store
  <2> QED
    BY <2>1
    DEF AloneInv, Found, Alone, AtCall, InLoop, AfterLoop, Applies, Untouched,
        Extended, Contradicted, Looped, Bound
<1> QED
  BY <1>1, <1>2, <1>3 DEF Next

\* A handler that no other overlapped has done to the store, one call at a
\* time, what RaftLocal says of the whole call in one step: the merge of
\* LogReplicator::AppendFromLeader, then CommitManager::AdvanceCommit.  So
\* RaftSerial, which takes it in one step, is right about such a handler.
THEOREM CallsMakeWhole == Spec => EffectIsWholeCall
<1>1. IInv /\ AloneInv /\ [Next]_vars =>
        [\A h \in Thread :
           alone /\ pc[h] # "idle" /\ pc'[h] = "idle"
             => [Now' EXCEPT !.term = req[h].term]
                  = WholeCall(before, req[h])]_vars
  BY NextAlone
<1>2. IInv /\ AloneInv /\ [Next]_vars => AloneInv'
  BY NextAlone
<1> QED
  BY <1>1, <1>2, InitIInv, NextIInv, InitAlone, PTL DEF Spec, EffectIsWholeCall
=============================================================================
