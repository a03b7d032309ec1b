-------------------------- MODULE MCAppendHandlers --------------------------
(***************************************************************************)
(* AppendHandlers for TLC: what leaders and candidates of a cluster send   *)
(* to one of its nodes.                                                    *)
(***************************************************************************)
EXTENDS AppendHandlers

CONSTANTS old, new,   \* two leaders
          x, y, a, b  \* commands

\* What the leader of term t sends while its log, of which the first `base'
\* entries are older than its term, grows to `final': the log after each
\* proposal with the commit index of that time, and the notification of each
\* commit.
SentBy(leader, t, final, base) ==
  LET s(k, c) == [Initial EXCEPT !.term = t, !.log = SubSeq(final, 1, k),
                                 !.commit = c]
      grown == base + 1 .. Len(final)
  IN  {FullRequest(s(k, IF k = base + 1 THEN 0 ELSE k - 1), leader) :
         k \in grown}
        \cup {Notification(s(k, k), leader) : k \in grown}

At1(c) == [term |-> 1, cmd |-> c]
At2(c) == [term |-> 2, cmd |-> c]

NewLeader == SentBy(new, 2, <<At2(a), At2(b)>>, 0)

\* The old leader's proposal of y, behind x, which reached no majority.
OldLeader == {FullRequest([Initial EXCEPT !.term = 1,
                                          !.log = <<At1(x), At1(y)>>], old)}

\* A new leader that had already x from the old one.
HeirOfOld == SentBy(new, 2, <<At1(x), At2(a), At2(b)>>, 1)

\* A vote request of term t from the holder of a log that ends so.
Ballot(t, index, lastTerm) ==
  [term |-> t, lastIndex |-> index, lastTerm |-> lastTerm]

\* The follower has x from the old leader, whose late request meets those of
\* a leader without x; or it has x and y, and only that leader sends; or it
\* has x like its leader; or it has nothing.  Candidates come late, or from a
\* term to come.
MCScenarios ==
  {[sent |-> OldLeader \cup NewLeader, log |-> <<At1(x)>>, votes |-> {}],
   [sent |-> NewLeader, log |-> <<At1(x), At1(y)>>,
    votes |-> {Ballot(3, 1, 1), Ballot(3, 1, 2)}],
   [sent |-> HeirOfOld, log |-> <<At1(x)>>, votes |-> {Ballot(3, 1, 1)}],
   [sent |-> NewLeader, log |-> <<>>, votes |-> {Ballot(2, 0, 0)}]}
=============================================================================
