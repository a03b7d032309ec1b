--------------------------- MODULE RaftLocalProofs ---------------------------
(***************************************************************************)
(* Lemmas about the operators of RaftLocal: what they return, preserve and *)
(* bound, whatever the logs and the states.  They hold of one node, and    *)
(* the proofs about the modules that compose these operators cite them.    *)
(***************************************************************************)
EXTENDS RaftLocal, FiniteSetTheorems, SequenceTheorems, TLAPS

\* u is the beginning of w.
Begins(u, w) == Len(u) <= Len(w) /\ \A i \in 1 .. Len(u) : w[i] = u[i]

-----------------------------------------------------------------------------
\* A set of numbers has a least one.
LEMMA Least ==
  ASSUME NEW T \in SUBSET Nat, T # {}
  PROVE  \E x \in T : \A y \in T : x <= y
<1> DEFINE Below(n) == 0 .. n - 1
           B == {Below(n) : n \in T}
           R == StrictSubsetOrdering(Nat)
<1>1. B \subseteq FiniteSubsetsOf(Nat) /\ B # {}
  <2>1. ASSUME NEW n \in T
        PROVE  Below(n) \in FiniteSubsetsOf(Nat)
    <3>1. n - 1 \in Int /\ 0 \in Int
      OBVIOUS
    <3>2. IsFiniteSet(Below(n))
      BY <3>1, FS_Interval
    <3> QED
      BY <3>2 DEF FiniteSubsetsOf
  <2> QED
    BY <2>1
<1>2. IsWellFoundedOn(R, FiniteSubsetsOf(Nat))
  BY FS_StrictSubsetOrderingWellFounded
<1> HIDE DEF B, R
<1>3. PICK X \in B : \A Y \in B : <<Y, X>> \notin R
  BY <1>1, <1>2, WFMin
<1>4. PICK x \in T : X = Below(x)
  BY DEF B
<1>5. ASSUME NEW y \in T, y < x PROVE FALSE
  <2>1. Below(y) \in B
    BY DEF B
  <2>2. Below(y) \subseteq Below(x) /\ Below(y) # Below(x)
    <3>1. y \in Below(x) /\ y \notin Below(y)
      BY <1>5
    <3>2. Below(y) \subseteq Below(x)
      BY <1>5
    <3> QED
      BY <3>1, <3>2
  <2>3. <<Below(y), Below(x)>> \in R
    BY <2>2 DEF R, StrictSubsetOrdering
  <2> QED
    BY <1>3, <1>4, <2>1, <2>3
<1> QED
  BY <1>5

\* std::min.
LEMMA SmallerIs ==
  ASSUME NEW a \in Nat, NEW b \in Nat
  PROVE  /\ Smaller(a, b) \in Nat /\ Smaller(a, b) <= a /\ Smaller(a, b) <= b
         /\ Smaller(a, b) = a \/ Smaller(a, b) = b
  BY DEF Smaller

\* LogStore::LastTerm of a log is a term.
LEMMA LastTermIs ==
  ASSUME NEW l \in Seq(Entry)
  PROVE  /\ LastTerm(l) \in Nat /\ LastTerm(<<>>) = 0
         /\ l # <<>> => /\ Len(l) \in 1 .. Len(l)
                        /\ LastTerm(l) = l[Len(l)].term
<1>1. ASSUME l # <<>> PROVE Len(l) \in 1 .. Len(l) /\ l[Len(l)] \in Entry
  BY <1>1, EmptySeq, ElementOfSeq
<1> QED
  BY <1>1 DEF LastTerm, Entry

\* The first k entries of a log.
LEMMA CutIs ==
  ASSUME NEW l \in Seq(Entry), NEW k \in 0 .. Len(l)
  PROVE  /\ SubSeq(l, 1, k) \in Seq(Entry) /\ Len(SubSeq(l, 1, k)) = k
         /\ \A i \in 1 .. k : SubSeq(l, 1, k)[i] = l[i]
<1>1. \A i \in 1 .. k : l[i] \in Entry
  BY ElementOfSeq
<1>2. k \in Int
  BY LenProperties
<1> QED
  BY <1>1, <1>2, SubSeqProperties

\* Logs of one length that agree are one log.
LEMMA SameLog ==
  ASSUME NEW u \in Seq(Entry), NEW w \in Seq(Entry), Begins(u, w),
         Len(w) <= Len(u)
  PROVE  u = w
<1>1. Len(u) = Len(w)
  BY LenProperties DEF Begins
<1> QED
  BY <1>1, SeqEqual DEF Begins

\* What begins a log is its first entries.
LEMMA BeginsIsCut ==
  ASSUME NEW u \in Seq(Entry), NEW w \in Seq(Entry), Begins(u, w)
  PROVE  u = SubSeq(w, 1, Len(u))
<1>1. Len(u) \in 0 .. Len(w)
  BY LenProperties DEF Begins
<1>2. /\ SubSeq(w, 1, Len(u)) \in Seq(Entry)
      /\ Len(SubSeq(w, 1, Len(u))) = Len(u)
      /\ \A i \in 1 .. Len(u) : SubSeq(w, 1, Len(u))[i] = w[i]
  BY <1>1, CutIs
<1> QED
  BY <1>2, SeqEqual DEF Begins

\* Beginnings of beginnings, and of one log.
LEMMA BeginsAgain ==
  ASSUME NEW u \in Seq(Entry), NEW v \in Seq(Entry), NEW w \in Seq(Entry)
  PROVE  /\ Begins(u, u)
         /\ Begins(u, v) /\ Begins(v, w) => Begins(u, w)
         /\ Begins(u, w) /\ Begins(v, w) /\ Len(u) <= Len(v) => Begins(u, v)
<1>1. Len(u) \in Nat /\ Len(v) \in Nat /\ Len(w) \in Nat
  BY LenProperties
<1> QED
  BY <1>1 DEF Begins

\* A log cut off begins the log, and what begins a log is a part cut off.
LEMMA CutBegins ==
  ASSUME NEW u \in Seq(Entry), NEW w \in Seq(Entry)
  PROVE  /\ \A k \in 0 .. Len(w) : Begins(SubSeq(w, 1, k), w)
         /\ Begins(u, w) => \A k \in 0 .. Len(u) : SubSeq(u, 1, k) = SubSeq(w, 1, k)
<1>1. Len(u) \in Nat /\ Len(w) \in Nat
  BY LenProperties
<1>2. ASSUME NEW k \in 0 .. Len(w)
      PROVE  Begins(SubSeq(w, 1, k), w)
  BY <1>1, CutIs DEF Begins
<1>3. ASSUME Begins(u, w), NEW k \in 0 .. Len(u)
      PROVE  SubSeq(u, 1, k) = SubSeq(w, 1, k)
  <2>1. k \in 0 .. Len(w)
    BY <1>1, <1>3 DEF Begins
  <2>2. /\ SubSeq(u, 1, k) \in Seq(Entry) /\ Len(SubSeq(u, 1, k)) = k
        /\ SubSeq(w, 1, k) \in Seq(Entry) /\ Len(SubSeq(w, 1, k)) = k
        /\ \A j \in 1 .. k : SubSeq(u, 1, k)[j] = u[j]
        /\ \A j \in 1 .. k : SubSeq(w, 1, k)[j] = w[j]
    BY <1>3, <2>1, CutIs
  <2>3. \A j \in 1 .. k : u[j] = w[j]
    BY <1>1, <1>3 DEF Begins
  <2> QED
    BY <2>2, <2>3, SeqEqual
<1> QED
  BY <1>2, <1>3

-----------------------------------------------------------------------------
\* The first conflict exists and is what its name says.
LEMMA FirstConflictIs ==
  ASSUME NEW log \in Seq(Entry), NEW entries \in Seq(Entry)
  PROVE  LET i == FirstConflict(log, entries) IN
         /\ i \in 1 .. Len(log) + 1 /\ i \in 1 .. Len(entries) + 1
         /\ \A j \in 1 .. i - 1 : log[j].term = entries[j].term
         /\ i <= Len(log) /\ i <= Len(entries)
              => log[i].term # entries[i].term
<1> DEFINE n == Smaller(Len(log), Len(entries))
           D == {i \in 1 .. n + 1 : i <= n => log[i].term # entries[i].term}
<1>1. /\ n \in Nat /\ n <= Len(log) /\ n <= Len(entries)
      /\ n = Len(log) \/ n = Len(entries)
      /\ Len(log) \in Nat /\ Len(entries) \in Nat
  BY SmallerIs, LenProperties
<1> HIDE DEF n
<1>2. n + 1 \in D /\ D \in SUBSET Nat
  BY <1>1
<1>3. PICK x \in D : \A y \in D : x <= y
  BY <1>2, Least
<1>4. /\ x \in 1 .. n + 1
      /\ \A j \in 1 .. n : j < x => log[j].term = entries[j].term
      /\ x \in 1 .. n => log[x].term # entries[x].term
  <2>1. ASSUME NEW j \in 1 .. n, j < x PROVE log[j].term = entries[j].term
    BY <1>1, <1>3, <2>1
  <2> QED
    BY <1>1, <1>3, <2>1
<1> DEFINE f == FirstConflict(log, entries)
<1>5. /\ f \in 1 .. n + 1
      /\ \A j \in 1 .. n : j < f => log[j].term = entries[j].term
      /\ f \in 1 .. n => log[f].term # entries[f].term
  BY <1>4 DEF FirstConflict, n
<1> HIDE DEF f
<1>6. f \in 1 .. Len(log) + 1 /\ f \in 1 .. Len(entries) + 1
  BY <1>1, <1>5
<1>7. \A j \in 1 .. f - 1 : log[j].term = entries[j].term
  BY <1>1, <1>5
<1>8. f <= Len(log) /\ f <= Len(entries) => log[f].term # entries[f].term
  BY <1>1, <1>5
<1> QED
  BY <1>1, <1>6, <1>7, <1>8 DEF f

\* Where two logs have the same term they are the same up to there.
Match(log, entries) ==
  \A i \in 1 .. Len(log) :
    i <= Len(entries) /\ log[i].term = entries[i].term
      => \A j \in 1 .. i : log[j] = entries[j]

\* The merge of logs that match leaves the log or makes it the one sent.
LEMMA MergedIs ==
  ASSUME NEW log \in Seq(Entry), NEW entries \in Seq(Entry),
         Match(log, entries)
  PROVE  LET i == FirstConflict(log, entries) IN
         /\ \A j \in 1 .. i - 1 : log[j] = entries[j]
         /\ i > Len(entries) => /\ Merged(log, entries) = log
                               /\ Begins(entries, log)
         /\ i <= Len(entries) => Merged(log, entries) = entries
<1> DEFINE f == FirstConflict(log, entries)
<1>1. /\ f \in 1 .. Len(log) + 1 /\ f \in 1 .. Len(entries) + 1
      /\ \A j \in 1 .. f - 1 : log[j].term = entries[j].term
      /\ Len(log) \in Nat /\ Len(entries) \in Nat
  BY FirstConflictIs, LenProperties
<1>2. Merged(log, entries) =
        IF f > Len(entries) THEN log
        ELSE SubSeq(log, 1, f - 1) \o SubSeq(entries, f, Len(entries))
  BY DEF Merged
<1> HIDE DEF f
<1>3. \A j \in 1 .. f - 1 : log[j] = entries[j]
  <2>1. CASE f = 1
    BY <2>1
  <2>2. CASE f # 1
    <3>1. f - 1 \in 1 .. Len(log) /\ f - 1 <= Len(entries)
          /\ log[f - 1].term = entries[f - 1].term
      BY <1>1, <2>2
    <3> QED
      BY <3>1 DEF Match
  <2> QED
    BY <2>1, <2>2
<1>4. ASSUME f > Len(entries)
      PROVE  Merged(log, entries) = log /\ Begins(entries, log)
  BY <1>1, <1>2, <1>3, <1>4 DEF Begins
<1>5. ASSUME f <= Len(entries)
      PROVE  Merged(log, entries) = entries
  <2> DEFINE head == SubSeq(log, 1, f - 1)
             tail == SubSeq(entries, f, Len(entries))
  <2>1. head \in Seq(Entry) /\ Len(head) = f - 1
        /\ \A j \in 1 .. f - 1 : head[j] = entries[j]
    <3>1. f - 1 \in 0 .. Len(log)
      BY <1>1
    <3> QED
      BY <1>3, <3>1, CutIs
  <2>2. tail \in Seq(Entry) /\ Len(tail) = Len(entries) - f + 1
        /\ \A j \in 1 .. Len(entries) - f + 1 : tail[j] = entries[f + j - 1]
    <3>1. \A j \in f .. Len(entries) : entries[j] \in Entry
      BY <1>1, ElementOfSeq
    <3>2. f \in Int /\ Len(entries) \in Int
      BY <1>1
    <3> QED
      BY <1>1, <1>5, <3>1, <3>2, SubSeqProperties
  <2> HIDE DEF head, tail
  <2> DEFINE both == head \o tail
  <2>3. /\ both \in Seq(Entry) /\ Len(both) = Len(entries)
        /\ \A j \in 1 .. Len(entries) :
             both[j] = IF j <= f - 1 THEN head[j] ELSE tail[j - (f - 1)]
    <3>1. Len(head) + Len(tail) = Len(entries)
      BY <1>1, <2>1, <2>2
    <3> QED
      BY <2>1, <2>2, <3>1, ConcatProperties
  <2> HIDE DEF both
  <2>4. ASSUME NEW j \in 1 .. Len(entries)
        PROVE  both[j] = entries[j]
    <3>1. CASE j <= f - 1
      <4>1. j \in 1 .. f - 1
        BY <1>1, <3>1
      <4>2. both[j] = head[j]
        BY <2>3, <3>1
      <4> QED
        BY <2>1, <4>1, <4>2
    <3>2. CASE ~(j <= f - 1)
      <4>1. j - (f - 1) \in 1 .. Len(entries) - f + 1
            /\ f + (j - (f - 1)) - 1 = j
        BY <1>1, <3>2
      <4>2. tail[j - (f - 1)] = entries[f + (j - (f - 1)) - 1]
        BY <2>2, <4>1
      <4> QED
        BY <2>3, <3>2, <4>1, <4>2
    <3> QED
      BY <3>1, <3>2
  <2>5. both = entries
    BY <2>3, <2>4, SeqEqual
  <2> QED
    BY <1>1, <1>2, <1>5, <2>5 DEF both, head, tail
<1> QED
  BY <1>3, <1>4, <1>5 DEF f

\* Every log on disk during the merge: the old one, or as much of the one
\* sent as the two agree on and then some.
LEMMA DuringMergeIs ==
  ASSUME NEW log \in Seq(Entry), NEW entries \in Seq(Entry),
         Match(log, entries), NEW new \in DuringMerge(log, entries)
  PROVE  LET i == FirstConflict(log, entries) IN
         \/ new = log
         \/ \E k \in 0 .. Len(entries) :
              /\ i <= Len(entries) /\ i - 1 <= k
              /\ new = SubSeq(entries, 1, k)
<1> DEFINE f == FirstConflict(log, entries)
<1>1. f \in 1 .. Len(entries) + 1 /\ Len(entries) \in Nat
  BY FirstConflictIs, LenProperties
<1>2. f <= Len(entries) => Merged(log, entries) = entries
  BY MergedIs
<1>3. \/ new = log
      \/ \E k \in f - 1 .. Len(entries) :
           f <= Len(entries) /\ new = SubSeq(Merged(log, entries), 1, k)
  BY DEF DuringMerge
<1> HIDE DEF f
<1>4. ASSUME NEW k \in f - 1 .. Len(entries) PROVE k \in 0 .. Len(entries)
  BY <1>1
<1>5. \/ new = log
      \/ \E k \in 0 .. Len(entries) :
           /\ f <= Len(entries) /\ f - 1 <= k
           /\ new = SubSeq(entries, 1, k)
  BY <1>1, <1>2, <1>3, <1>4
<1> QED
  BY <1>5 DEF f

\* After the whole merge the log begins with the entries sent.
LEMMA MergedBegins ==
  ASSUME NEW log \in Seq(Entry), NEW entries \in Seq(Entry),
         Match(log, entries)
  PROVE  Begins(entries, Merged(log, entries))
<1> DEFINE i == FirstConflict(log, entries)
<1>1. /\ i > Len(entries) => /\ Merged(log, entries) = log
                             /\ Begins(entries, log)
      /\ i <= Len(entries) => Merged(log, entries) = entries
  BY MergedIs
<1>2. i \in Nat /\ Len(entries) \in Nat
  BY FirstConflictIs, LenProperties
<1>3. Begins(entries, entries)
  BY BeginsAgain
<1> HIDE DEF i
<1> QED
  BY <1>1, <1>2, <1>3

\* What begins the log and does not contradict the request stays.
LEMMA KeepsBeginning ==
  ASSUME NEW log \in Seq(Entry), NEW entries \in Seq(Entry),
         Match(log, entries), NEW new \in DuringMerge(log, entries),
         NEW u \in Seq(Entry), Begins(u, log),
         Begins(u, entries) \/ Begins(entries, u)
  PROVE  Begins(u, new)
<1> DEFINE i == FirstConflict(log, entries)
<1>1. /\ i \in 1 .. Len(log) + 1 /\ i \in 1 .. Len(entries) + 1
      /\ i <= Len(log) /\ i <= Len(entries) => log[i].term # entries[i].term
      /\ Len(log) \in Nat /\ Len(entries) \in Nat /\ Len(u) \in Nat
  BY FirstConflictIs, LenProperties
<1>2. \/ new = log
      \/ \E k \in 0 .. Len(entries) :
           /\ i <= Len(entries) /\ i - 1 <= k
           /\ new = SubSeq(entries, 1, k)
  BY DuringMergeIs
<1> HIDE DEF i
<1>3. ASSUME NEW k \in 0 .. Len(entries), i <= Len(entries), i - 1 <= k,
             new = SubSeq(entries, 1, k)
      PROVE  Begins(u, new)
  <2>1. i > Len(u)
    <3> SUFFICES ASSUME i <= Len(u) PROVE FALSE
      BY <1>1
    <3>1. i <= Len(log) /\ log[i] = u[i]
      BY <1>1 DEF Begins
    <3>2. entries[i] = u[i]
      BY <1>1, <1>3 DEF Begins
    <3> QED
      BY <1>1, <1>3, <3>1, <3>2
  <2>2. Len(u) <= k
    BY <1>1, <1>3, <2>1
  <2>3. Begins(u, entries)
    <3>1. CASE Begins(entries, u)
      <4>1. Len(entries) <= Len(u)
        BY <3>1 DEF Begins
      <4> QED
        BY <1>1, <1>3, <2>1, <4>1
    <3> QED
      BY <3>1
  <2>4. Len(new) = k /\ \A j \in 1 .. k : new[j] = entries[j]
    BY <1>3, CutIs
  <2> QED
    BY <1>1, <1>3, <2>2, <2>3, <2>4 DEF Begins
<1> QED
  BY <1>2, <1>3

\* The merge is a log whatever the two are.
LEMMA MergedIsLog ==
  ASSUME NEW log \in Seq(Entry), NEW entries \in Seq(Entry)
  PROVE  /\ Merged(log, entries) \in Seq(Entry)
         /\ DuringMerge(log, entries) \subseteq Seq(Entry)
<1> DEFINE f == FirstConflict(log, entries)
           head == SubSeq(log, 1, f - 1)
           tail == SubSeq(entries, f, Len(entries))
           both == Merged(log, entries)
<1>1. /\ f \in 1 .. Len(log) + 1 /\ f \in 1 .. Len(entries) + 1
      /\ Len(log) \in Nat /\ Len(entries) \in Nat
  BY FirstConflictIs, LenProperties
<1>2. both = IF f > Len(entries) THEN log ELSE head \o tail
  BY DEF Merged
<1>3. \A new \in DuringMerge(log, entries) :
        \/ new = log
        \/ \E k \in f - 1 .. Len(entries) :
             f <= Len(entries) /\ new = SubSeq(both, 1, k)
  BY DEF DuringMerge
<1> HIDE DEF f, both
<1>4. head \in Seq(Entry) /\ Len(head) = f - 1
  <2>1. f - 1 \in 0 .. Len(log)
    BY <1>1
  <2> QED
    BY <2>1, CutIs
<1>5. ASSUME f <= Len(entries)
      PROVE  tail \in Seq(Entry) /\ Len(tail) = Len(entries) - f + 1
  <2>1. \A j \in f .. Len(entries) : entries[j] \in Entry
    BY <1>1, ElementOfSeq
  <2>2. f \in Int /\ Len(entries) \in Int
    BY <1>1
  <2> QED
    BY <1>1, <1>5, <2>1, <2>2, SubSeqProperties
<1> HIDE DEF head, tail
<1>6. ASSUME f <= Len(entries)
      PROVE  both \in Seq(Entry) /\ Len(both) = Len(entries)
  <2>1. /\ head \o tail \in Seq(Entry)
        /\ Len(head \o tail) = Len(head) + Len(tail)
    BY <1>4, <1>5, <1>6, ConcatProperties
  <2> QED
    BY <1>1, <1>2, <1>4, <1>5, <1>6, <2>1
<1>7. both \in Seq(Entry)
  BY <1>1, <1>2, <1>6
<1>8. ASSUME NEW k \in f - 1 .. Len(entries), f <= Len(entries)
      PROVE  SubSeq(both, 1, k) \in Seq(Entry)
  <2>1. k \in 0 .. Len(both)
    BY <1>1, <1>6, <1>8
  <2> QED
    BY <1>7, <2>1, CutIs
<1> QED
  BY <1>3, <1>7, <1>8 DEF both

\* The whole merge is one of them.
LEMMA MergedIsDuring ==
  ASSUME NEW log \in Seq(Entry), NEW entries \in Seq(Entry),
         Match(log, entries)
  PROVE  Merged(log, entries) \in DuringMerge(log, entries)
<1> DEFINE f == FirstConflict(log, entries)
<1>1. f \in 1 .. Len(entries) + 1 /\ Len(entries) \in Nat
  BY FirstConflictIs, LenProperties
<1>2. CASE f > Len(entries)
  BY <1>2, MergedIs DEF DuringMerge
<1>3. CASE f <= Len(entries)
  <2>1. Merged(log, entries) = SubSeq(Merged(log, entries), 1, Len(entries))
    BY <1>3, MergedIs, SubSeqFull
  <2>2. Len(entries) \in {j \in f - 1 .. Len(entries) : f <= Len(entries)}
    BY <1>1, <1>3
  <2> QED
    BY <2>1, <2>2 DEF DuringMerge
<1> QED
  BY <1>1, <1>2, <1>3

\* The commit index follows the cut, and stays if the logs agree that far.
LEMMA CommitFollowsCut ==
  ASSUME NEW log \in Seq(Entry), NEW new \in Seq(Entry), NEW c \in Nat
  PROVE  LET k == Smaller(c, FirstConflict(log, new) - 1) IN
         /\ k \in Nat /\ k <= c /\ k <= Len(new)
         /\ c <= Len(log) /\ c <= Len(new) /\ (\A i \in 1 .. c : log[i] = new[i])
              => k = c
<1> DEFINE f == FirstConflict(log, new)
<1>1. /\ f \in 1 .. Len(log) + 1 /\ f \in 1 .. Len(new) + 1
      /\ f <= Len(log) /\ f <= Len(new) => log[f].term # new[f].term
      /\ Len(log) \in Nat /\ Len(new) \in Nat
  BY FirstConflictIs, LenProperties
<1> HIDE DEF f
<1>2. f - 1 \in Nat /\ f - 1 <= Len(new)
  BY <1>1
<1>3. ASSUME c <= Len(log), c <= Len(new), \A i \in 1 .. c : log[i] = new[i]
      PROVE  c <= f - 1
  <2>1. ASSUME f <= c PROVE FALSE
    <3>1. f \in 1 .. c
      BY <1>1, <2>1
    <3> QED
      BY <1>1, <1>3, <3>1
  <2> QED
    BY <1>1, <2>1
<1>4. /\ Smaller(c, f - 1) \in Nat
      /\ Smaller(c, f - 1) <= c /\ Smaller(c, f - 1) <= f - 1
      /\ c <= f - 1 => Smaller(c, f - 1) = c
  BY <1>2, SmallerIs DEF Smaller
<1> QED
  BY <1>2, <1>3, <1>4 DEF f

-----------------------------------------------------------------------------
\* What each change of a node's state returns.
LEMMA AdoptIs ==
  ASSUME NEW s \in State, NEW t \in Nat
  PROVE  LET a == Adopt(s, t) IN
         /\ a \in State /\ a.log = s.log /\ a.commit = s.commit
         /\ a.applied = s.applied
         /\ t > s.term => a.term = t /\ a.vote = None /\ a.role = Follower
         /\ ~(t > s.term) => a = s
  BY DEF Adopt, State, Follower, Candidate, Leader

\* What each of the node's operations does to the state: a term alone,
LEMMA TermOnlyIs ==
  ASSUME NEW s \in State, NEW t \in Nat
  PROVE  LET a == TermOnly(s, t) IN
         /\ a \in State /\ a.log = s.log /\ a.commit = s.commit
         /\ a.applied = s.applied /\ a.term = t /\ a.vote = s.vote
         /\ a.role = s.role
  BY DEF TermOnly, State

\* a candidacy,
LEMMA CampaigningIs ==
  ASSUME NEW s \in State, NEW n \in Node
  PROVE  LET a == Campaigning(s, n) IN
         /\ a \in State /\ a.log = s.log /\ a.commit = s.commit
         /\ a.applied = s.applied /\ a.term = s.term + 1 /\ a.vote = n
         /\ a.role = Candidate
<1> DEFINE b == [s EXCEPT !.term = s.term + 1]
           c == [b EXCEPT !.vote = n]
<1>1. /\ b \in State /\ b.term = s.term + 1 /\ b.log = s.log
      /\ b.commit = s.commit /\ b.applied = s.applied
  BY DEF State
<1> HIDE DEF b
<1>2. /\ c \in State /\ c.term = b.term /\ c.log = b.log
      /\ c.commit = b.commit /\ c.applied = b.applied /\ c.vote = n
  BY <1>1 DEF State
<1>3. Campaigning(s, n) = [c EXCEPT !.role = Candidate]
  BY DEF Campaigning, b
<1> HIDE DEF c
<1> QED
  BY <1>1, <1>2, <1>3 DEF State, Follower, Candidate, Leader

\* a vote,
LEMMA VotedIs ==
  ASSUME NEW s \in State, NEW m, m.term \in Nat, m.cand \in Node
  PROVE  LET a == Voted(s, m) IN
         /\ a \in State /\ a.log = s.log /\ a.commit = s.commit
         /\ a.applied = s.applied
         /\ m.term > s.term => a.term = m.term /\ a.role = Follower
         /\ ~(m.term > s.term) => a.term = s.term /\ a.role = s.role
         /\ Grants(s, m) => /\ a.term = m.term /\ a.vote = m.cand
                            /\ m.term = s.term => s.vote \in {None, m.cand}
                            /\ UpToDate(m.lastIndex, m.lastTerm, s.log)
         /\ ~Grants(s, m) => a = Adopt(s, m.term)
<1> DEFINE a == Adopt(s, m.term)
           b == [a EXCEPT !.vote = m.cand]
<1>1. /\ a \in State /\ a.log = s.log /\ a.commit = s.commit
      /\ a.applied = s.applied
      /\ m.term > s.term => a.term = m.term /\ a.vote = None /\ a.role = Follower
      /\ ~(m.term > s.term) => a = s
  BY AdoptIs
<1>2. Voted(s, m) = IF Grants(s, m) THEN b ELSE a
  BY DEF Voted
<1>3. Grants(s, m) => /\ m.term >= s.term /\ a.vote \in {None, m.cand}
                      /\ UpToDate(m.lastIndex, m.lastTerm, s.log)
  BY DEF Grants
<1> HIDE DEF a
<1>4. /\ b \in State /\ b.log = a.log /\ b.commit = a.commit
      /\ b.applied = a.applied /\ b.term = a.term /\ b.role = a.role
      /\ b.vote = m.cand
  BY <1>1 DEF State
<1> HIDE DEF b
<1>5. s.term \in Nat
  BY DEF State
<1>6. CASE Grants(s, m)
  BY <1>1, <1>2, <1>3, <1>4, <1>5, <1>6
<1>7. CASE ~Grants(s, m)
  BY <1>1, <1>2, <1>5, <1>7 DEF a
<1> QED
  BY <1>6, <1>7

\* a higher term seen,
LEMMA ObservedIs ==
  ASSUME NEW s \in State, NEW t \in Nat
  PROVE  /\ Observed(s, t) = SteppedDown(s, t)
         /\ LET a == Observed(s, t) IN
            /\ a \in State /\ a.log = s.log /\ a.commit = s.commit
            /\ a.applied = s.applied /\ a.role = Follower
            /\ t > s.term => a.term = t /\ a.vote = None
            /\ ~(t > s.term) => a.term = s.term /\ a.vote = s.vote
<1> DEFINE a == Adopt(s, t)
<1>1. /\ a \in State /\ a.log = s.log /\ a.commit = s.commit
      /\ a.applied = s.applied
      /\ t > s.term => a.term = t /\ a.vote = None
      /\ ~(t > s.term) => a = s
  BY AdoptIs
<1>2. Observed(s, t) = [a EXCEPT !.role = Follower]
  BY DEF Observed
<1>3. Observed(s, t) = SteppedDown(s, t)
  BY DEF Observed, SteppedDown
<1> HIDE DEF a
<1> QED
  BY <1>1, <1>2, <1>3 DEF State, Follower, Candidate, Leader

\* a victory,
LEMMA CrownedIs ==
  ASSUME NEW s \in State
  PROVE  LET a == Crowned(s) IN
         /\ a \in State /\ a.log = s.log /\ a.commit = s.commit
         /\ a.applied = s.applied /\ a.term = s.term /\ a.vote = s.vote
         /\ a.role = Leader
  BY DEF Crowned, State, Follower, Candidate, Leader

\* an entry appended by the leader,
LEMMA ProposedIs ==
  ASSUME NEW s \in State, NEW e \in Entry
  PROVE  LET a == Proposed(s, e) IN
         /\ a \in State /\ a.commit = s.commit /\ a.applied = s.applied
         /\ a.term = s.term /\ a.vote = s.vote /\ a.role = s.role
         /\ Len(a.log) = Len(s.log) + 1 /\ a.log[Len(a.log)] = e
         /\ LastTerm(a.log) = e.term /\ Begins(s.log, a.log)
<1> DEFINE a == Proposed(s, e)
<1>1. s.log \in Seq(Entry)
  BY DEF State
<1>2. /\ Append(s.log, e) \in Seq(Entry) /\ Append(s.log, e) # <<>>
      /\ Len(Append(s.log, e)) = Len(s.log) + 1
      /\ \A i \in 1 .. Len(s.log) : Append(s.log, e)[i] = s.log[i]
      /\ Append(s.log, e)[Len(s.log) + 1] = e
  BY <1>1, AppendProperties
<1>3. /\ a \in State /\ a.commit = s.commit /\ a.applied = s.applied
      /\ a.term = s.term /\ a.vote = s.vote /\ a.role = s.role
      /\ a.log = Append(s.log, e)
  BY <1>2 DEF Proposed, State
<1>4. LastTerm(a.log) = e.term
  BY <1>2, <1>3 DEF LastTerm
<1>5. Begins(s.log, a.log)
  <2>1. Len(s.log) \in Nat
    BY <1>1, LenProperties
  <2> QED
    BY <1>2, <1>3, <2>1 DEF Begins
<1> HIDE DEF a
<1>6. Len(a.log) = Len(s.log) + 1 /\ a.log[Len(a.log)] = e
  BY <1>2, <1>3
<1> QED
  BY <1>3, <1>4, <1>5, <1>6 DEF a

\* What is applied goes up to the target, if it began the log.
LEMMA ApplyThroughIs ==
  ASSUME NEW s \in State, NEW target \in Nat
  PROVE  LET a == ApplyThrough(s, target) IN
         /\ a \in State /\ a.log = s.log /\ a.commit = s.commit
         /\ a.term = s.term /\ a.vote = s.vote /\ a.role = s.role
         /\ \A k \in 0 .. Len(s.log) :
              s.applied = SubSeq(s.log, 1, k) /\ k <= target /\ target <= Len(s.log)
                => a.applied = SubSeq(s.log, 1, target)
<1> DEFINE bound == Smaller(target, Len(s.log))
           more == SubSeq(s.log, Len(s.applied) + 1, bound)
           a == ApplyThrough(s, target)
<1>1. /\ s.log \in Seq(Entry) /\ s.applied \in Seq(Entry)
      /\ Len(s.log) \in Nat /\ Len(s.applied) \in Nat
  BY LenProperties DEF State
<1>2. /\ bound \in Nat /\ bound <= Len(s.log)
      /\ target <= Len(s.log) => bound = target
  BY <1>1, SmallerIs DEF Smaller
<1>3. a = [s EXCEPT !.applied = @ \o more]
  BY DEF ApplyThrough
<1> HIDE DEF bound, a
<1>4. more \in Seq(Entry)
  <2>1. \A i \in Len(s.applied) + 1 .. bound : s.log[i] \in Entry
    BY <1>1, <1>2, ElementOfSeq
  <2>2. Len(s.applied) + 1 \in Int /\ bound \in Int
    BY <1>1, <1>2
  <2> QED
    BY <2>1, <2>2, SubSeqProperties
<1>5. s.applied \o more \in Seq(Entry)
  BY <1>1, <1>4, ConcatProperties
<1>6. ASSUME NEW k \in 0 .. Len(s.log), s.applied = SubSeq(s.log, 1, k),
             k <= target, target <= Len(s.log)
      PROVE  s.applied \o more = SubSeq(s.log, 1, target)
  <2>1. Len(s.applied) = k
    BY <1>1, <1>6, CutIs
  <2>2. /\ 1 \in 1 .. Len(s.log) + 1 /\ k \in 1 - 1 .. Len(s.log)
        /\ target \in k .. Len(s.log)
    BY <1>1, <1>6
  <2> QED
    BY <1>1, <1>2, <1>6, <2>1, <2>2, ConcatAdjacentSubSeq
<1> DEFINE both == s.applied \o more
<1> HIDE DEF more, both
<1>7. /\ a \in State /\ a.log = s.log /\ a.commit = s.commit
      /\ a.term = s.term /\ a.vote = s.vote /\ a.role = s.role
      /\ a.applied = both
  BY <1>3, <1>5 DEF State, both
<1>8. \A k \in 0 .. Len(s.log) :
        s.applied = SubSeq(s.log, 1, k) /\ k <= target /\ target <= Len(s.log)
          => both = SubSeq(s.log, 1, target)
  BY <1>6 DEF both
<1> QED
  BY <1>7, <1>8 DEF a

\* a move of the commit index with what it applies,
LEMMA CommittedIs ==
  ASSUME NEW s \in State, NEW target \in Nat
  PROVE  LET a == Committed(s, target) IN
         /\ a \in State /\ a.log = s.log
         /\ a.term = s.term /\ a.vote = s.vote /\ a.role = s.role
         /\ \/ a.commit = s.commit
            \/ a.commit > s.commit /\ a.commit <= Len(s.log) /\ a.commit <= target
         /\ s.commit <= Len(s.log) /\ s.applied = SubSeq(s.log, 1, s.commit)
              => a.applied = SubSeq(a.log, 1, a.commit)
<1> DEFINE b == Smaller(target, LastIndex(s.log))
           c == [s EXCEPT !.commit = b]
<1>1. /\ s.log \in Seq(Entry) /\ Len(s.log) \in Nat /\ s.commit \in Nat
  BY LenProperties DEF State
<1>2. b \in Nat /\ b <= Len(s.log) /\ b <= target
  BY <1>1, SmallerIs DEF LastIndex
<1>3. Committed(s, target) = IF b <= s.commit THEN s ELSE ApplyThrough(c, b)
  BY DEF Committed
<1> HIDE DEF b
<1>4. /\ c \in State /\ c.log = s.log /\ c.commit = b /\ c.applied = s.applied
      /\ c.term = s.term /\ c.vote = s.vote /\ c.role = s.role
  BY <1>2 DEF State
<1> HIDE DEF c
<1>5. CASE b <= s.commit
  BY <1>3, <1>5
<1>6. CASE ~(b <= s.commit)
  <2> DEFINE a == ApplyThrough(c, b)
  <2>1. /\ a \in State /\ a.log = c.log /\ a.commit = c.commit
        /\ a.term = c.term /\ a.vote = c.vote /\ a.role = c.role
        /\ \A k \in 0 .. Len(c.log) :
             c.applied = SubSeq(c.log, 1, k) /\ k <= b /\ b <= Len(c.log)
               => a.applied = SubSeq(c.log, 1, b)
    BY <1>2, <1>4, ApplyThroughIs
  <2> HIDE DEF a
  <2>2. s.commit <= Len(s.log) /\ s.applied = SubSeq(s.log, 1, s.commit)
          => a.applied = SubSeq(a.log, 1, a.commit)
    <3>1. s.commit <= Len(s.log) => s.commit \in 0 .. Len(s.log)
      BY <1>1
    <3> QED
      BY <1>1, <1>2, <1>4, <1>6, <2>1, <3>1
  <2> QED
    BY <1>1, <1>2, <1>3, <1>4, <1>6, <2>1, <2>2 DEF a
<1> QED
  BY <1>5, <1>6

\* a restart,
LEMMA RestartedIs ==
  ASSUME NEW s \in State
  PROVE  LET a == Restarted(s) IN
         /\ a \in State /\ a.log = s.log /\ a.commit = s.commit
         /\ a.term = s.term /\ a.vote = s.vote /\ a.role = Follower
         /\ s.commit <= Len(s.log) => a.applied = SubSeq(a.log, 1, a.commit)
<1> DEFINE c == [s EXCEPT !.role = Follower, !.applied = <<>>]
           a == ApplyThrough(c, s.commit)
<1>1. /\ s.log \in Seq(Entry) /\ Len(s.log) \in Nat /\ s.commit \in Nat
      /\ <<>> \in Seq(Entry)
  BY LenProperties, EmptySeq DEF State
<1>2. /\ c \in State /\ c.log = s.log /\ c.commit = s.commit
      /\ c.applied = <<>> /\ c.term = s.term /\ c.vote = s.vote
      /\ c.role = Follower
  BY <1>1 DEF State, Follower, Candidate, Leader
<1>3. Restarted(s) = a
  BY DEF Restarted
<1>4. c.applied = SubSeq(c.log, 1, 0)
  BY <1>2, SubSeqEmpty
<1> HIDE DEF c
<1>5. /\ a \in State /\ a.log = c.log /\ a.commit = c.commit
      /\ a.term = c.term /\ a.vote = c.vote /\ a.role = c.role
      /\ \A k \in 0 .. Len(c.log) :
           c.applied = SubSeq(c.log, 1, k) /\ k <= s.commit
               /\ s.commit <= Len(c.log)
             => a.applied = SubSeq(c.log, 1, s.commit)
  BY <1>1, <1>2, ApplyThroughIs
<1> HIDE DEF a
<1>6. 0 \in 0 .. Len(c.log) /\ 0 <= s.commit
  BY <1>1, <1>2
<1> QED
  BY <1>2, <1>3, <1>4, <1>5, <1>6

\* and a log put in place of the log.
LEMMA WithLogIs ==
  ASSUME NEW s \in State, NEW log \in Seq(Entry)
  PROVE  LET a == WithLog(s, log) IN
         /\ a \in State /\ a.log = log /\ a.applied = s.applied
         /\ a.term = s.term /\ a.vote = s.vote /\ a.role = s.role
         /\ a.commit <= s.commit /\ a.commit <= Len(log)
         /\ s.commit <= Len(s.log) /\ s.commit <= Len(log)
              /\ (\A i \in 1 .. s.commit : s.log[i] = log[i])
              => a.commit = s.commit
<1> DEFINE k == Smaller(s.commit, FirstConflict(s.log, log) - 1)
<1>1. s.log \in Seq(Entry) /\ s.commit \in Nat
  BY DEF State
<1>2. /\ k \in Nat /\ k <= s.commit /\ k <= Len(log)
      /\ s.commit <= Len(s.log) /\ s.commit <= Len(log)
           /\ (\A i \in 1 .. s.commit : s.log[i] = log[i]) => k = s.commit
  BY <1>1, CommitFollowsCut
<1>3. WithLog(s, log) = [s EXCEPT !.log = log, !.commit = k]
  BY DEF WithLog
<1> HIDE DEF k
<1> QED
  BY <1>2, <1>3 DEF State

-----------------------------------------------------------------------------
\* No other index is as FirstConflictIs says.
LEMMA FirstConflictUnique ==
  ASSUME NEW log \in Seq(Entry), NEW entries \in Seq(Entry),
         NEW i \in 1 .. Len(log) + 1, i \in 1 .. Len(entries) + 1,
         \A j \in 1 .. i - 1 : log[j].term = entries[j].term,
         i <= Len(log) /\ i <= Len(entries) => log[i].term # entries[i].term
  PROVE  FirstConflict(log, entries) = i
<1> DEFINE f == FirstConflict(log, entries)
<1>1. /\ f \in 1 .. Len(log) + 1 /\ f \in 1 .. Len(entries) + 1
      /\ \A j \in 1 .. f - 1 : log[j].term = entries[j].term
      /\ f <= Len(log) /\ f <= Len(entries) => log[f].term # entries[f].term
      /\ Len(log) \in Nat /\ Len(entries) \in Nat
  BY FirstConflictIs, LenProperties
<1> HIDE DEF f
<1>2. ASSUME f < i PROVE FALSE
  <2>1. f \in 1 .. i - 1 /\ f <= Len(log) /\ f <= Len(entries)
    BY <1>1, <1>2
  <2> QED
    BY <1>1, <2>1
<1>3. ASSUME i < f PROVE FALSE
  <2>1. i \in 1 .. f - 1 /\ i <= Len(log) /\ i <= Len(entries)
    BY <1>1, <1>3
  <2> QED
    BY <1>1, <2>1
<1> QED
  BY <1>1, <1>2, <1>3 DEF f

\* The log when the loop of AppendFromLeader has cut it, if it had to, and
\* is through with the first k entries.
MergedUpTo(log, entries, k) ==
  SubSeq(log, 1, FirstConflict(log, entries) - 1)
    \o SubSeq(entries, FirstConflict(log, entries), k)

\* The merged log after k entries of the request.
LEMMA MergedUpToIs ==
  ASSUME NEW log \in Seq(Entry), NEW entries \in Seq(Entry), NEW k \in Nat,
         FirstConflict(log, entries) - 1 <= k, k <= Len(entries)
  PROVE  LET w == MergedUpTo(log, entries, k)
             i == FirstConflict(log, entries) IN
         /\ w \in Seq(Entry) /\ Len(w) = k
         /\ \A j \in 1 .. k : w[j] = IF j < i THEN log[j] ELSE entries[j]
<1> DEFINE f == FirstConflict(log, entries)
           head == SubSeq(log, 1, f - 1)
           more == SubSeq(entries, f, k)
           w == MergedUpTo(log, entries, k)
<1>1. /\ f \in 1 .. Len(log) + 1 /\ f \in 1 .. Len(entries) + 1
      /\ Len(log) \in Nat /\ Len(entries) \in Nat /\ f - 1 <= k
  BY FirstConflictIs, LenProperties
<1>2. w = head \o more
  BY DEF MergedUpTo
<1> HIDE DEF f, w
<1>3. head \in Seq(Entry) /\ Len(head) = f - 1
      /\ \A j \in 1 .. f - 1 : head[j] = log[j]
  <2>1. f - 1 \in 0 .. Len(log)
    BY <1>1
  <2> QED
    BY <2>1, CutIs
<1>4. more \in Seq(Entry) /\ Len(more) = k - f + 1
      /\ \A j \in 1 .. k - f + 1 : more[j] = entries[f + j - 1]
  <2>1. \A j \in f .. k : entries[j] \in Entry
    BY <1>1, ElementOfSeq
  <2>2. f \in Int /\ k \in Int
    BY <1>1
  <2> QED
    BY <1>1, <2>1, <2>2, SubSeqProperties
<1> HIDE DEF head, more
<1>5. /\ w \in Seq(Entry) /\ Len(w) = k
      /\ \A j \in 1 .. k :
           w[j] = IF j <= f - 1 THEN head[j] ELSE more[j - (f - 1)]
  <2>1. Len(head) + Len(more) = k
    BY <1>1, <1>3, <1>4
  <2> QED
    <3>1. /\ head \o more \in Seq(Entry) /\ Len(head \o more) = k
          /\ \A j \in 1 .. k :
               (head \o more)[j] = IF j <= Len(head) THEN head[j]
                                   ELSE more[j - Len(head)]
      BY <1>3, <1>4, <2>1, ConcatProperties
    <3> QED
      BY <1>2, <1>3, <3>1
<1>6. ASSUME NEW j \in 1 .. k
      PROVE  w[j] = IF j < f THEN log[j] ELSE entries[j]
  <2>1. CASE j < f
    <3>1. j \in 1 .. f - 1 /\ j <= f - 1
      BY <1>1, <2>1
    <3> QED
      BY <1>3, <1>5, <2>1, <3>1
  <2>2. CASE ~(j < f)
    <3>1. j - (f - 1) \in 1 .. k - f + 1 /\ f + (j - (f - 1)) - 1 = j
          /\ ~(j <= f - 1)
      BY <1>1, <2>2
    <3>2. more[j - (f - 1)] = entries[f + (j - (f - 1)) - 1]
      BY <1>4, <3>1
    <3> QED
      BY <1>5, <2>2, <3>1, <3>2
  <2> QED
    BY <2>1, <2>2
<1> QED
  BY <1>5, <1>6 DEF f, w

\* It is extended by one entry at a time, from the log cut at the conflict.
LEMMA MergeGoesOn ==
  ASSUME NEW log \in Seq(Entry), NEW entries \in Seq(Entry)
  PROVE  LET i == FirstConflict(log, entries) IN
         /\ MergedUpTo(log, entries, i - 1) = SubSeq(log, 1, i - 1)
         /\ \A k \in Nat :
              i - 1 <= k /\ k + 1 <= Len(entries) =>
                Append(MergedUpTo(log, entries, k), entries[k + 1])
                  = MergedUpTo(log, entries, k + 1)
<1> DEFINE f == FirstConflict(log, entries)
<1>1. /\ f \in 1 .. Len(log) + 1 /\ f \in 1 .. Len(entries) + 1
      /\ Len(log) \in Nat /\ Len(entries) \in Nat
  BY FirstConflictIs, LenProperties
<1>2. MergedUpTo(log, entries, f - 1) = SubSeq(log, 1, f - 1)
  <2>1. SubSeq(entries, f, f - 1) = <<>>
    BY <1>1, SubSeqEmpty
  <2>2. SubSeq(log, 1, f - 1) \in Seq(Entry)
    <3>1. f - 1 \in 0 .. Len(log)
      BY <1>1
    <3> QED
      BY <3>1, CutIs
  <2> QED
    BY <2>1, <2>2, ConcatEmptySeq DEF MergedUpTo
<1>3. ASSUME NEW k \in Nat, f - 1 <= k, k + 1 <= Len(entries)
      PROVE  Append(MergedUpTo(log, entries, k), entries[k + 1])
               = MergedUpTo(log, entries, k + 1)
  <2> DEFINE u == MergedUpTo(log, entries, k)
             w == MergedUpTo(log, entries, k + 1)
             v == Append(u, entries[k + 1])
  <2>1. /\ u \in Seq(Entry) /\ Len(u) = k
        /\ \A j \in 1 .. k : u[j] = IF j < f THEN log[j] ELSE entries[j]
    BY <1>1, <1>3, MergedUpToIs
  <2>2. /\ w \in Seq(Entry) /\ Len(w) = k + 1
        /\ \A j \in 1 .. k + 1 : w[j] = IF j < f THEN log[j] ELSE entries[j]
    BY <1>1, <1>3, MergedUpToIs
  <2>3. entries[k + 1] \in Entry
    BY <1>1, <1>3, ElementOfSeq
  <2> HIDE DEF u, w, f
  <2>4. /\ v \in Seq(Entry) /\ Len(v) = k + 1
        /\ \A j \in 1 .. k : v[j] = u[j]
        /\ v[k + 1] = entries[k + 1]
    BY <2>1, <2>3, AppendProperties
  <2> HIDE DEF v
  <2>5. \A j \in 1 .. k + 1 : v[j] = w[j]
    <3> SUFFICES ASSUME NEW j \in 1 .. k + 1 PROVE v[j] = w[j]
      OBVIOUS
    <3>1. CASE j \in 1 .. k
      BY <2>1, <2>2, <2>4, <3>1
    <3>2. CASE j = k + 1
      BY <1>1, <1>3, <2>2, <2>4, <3>2
    <3> QED
      BY <3>1, <3>2
  <2>6. v = w
    BY <2>2, <2>4, <2>5, SeqEqual
  <2> QED
    BY <2>6 DEF u, w, v
<1> QED
  BY <1>2, <1>3

\* The whole merge, whatever the log and the entries, and the commit index
\* that has followed the cut.
LEMMA MergeEnds ==
  ASSUME NEW log \in Seq(Entry), NEW entries \in Seq(Entry)
  PROVE  LET i == FirstConflict(log, entries)
             w == Merged(log, entries) IN
         /\ w \in Seq(Entry)
         /\ i > Len(entries) => w = log /\ FirstConflict(log, w) = Len(log) + 1
         /\ i <= Len(entries) => /\ w = MergedUpTo(log, entries, Len(entries))
                                 /\ FirstConflict(log, w) = i
<1> DEFINE f == FirstConflict(log, entries)
           w == Merged(log, entries)
<1>1. /\ f \in 1 .. Len(log) + 1 /\ f \in 1 .. Len(entries) + 1
      /\ \A j \in 1 .. f - 1 : log[j].term = entries[j].term
      /\ f <= Len(log) /\ f <= Len(entries) => log[f].term # entries[f].term
      /\ Len(log) \in Nat /\ Len(entries) \in Nat
  BY FirstConflictIs, LenProperties
<1>2. CASE f > Len(entries)
  <2>1. w = log
    BY <1>2 DEF Merged
  <2>2. FirstConflict(log, log) = Len(log) + 1
    <3>1. Len(log) + 1 \in 1 .. Len(log) + 1
      BY <1>1
    <3>2. ~(Len(log) + 1 <= Len(log))
      BY <1>1
    <3> QED
      BY <3>1, <3>2, FirstConflictUnique
  <2> QED
    BY <1>1, <1>2, <2>1, <2>2
<1>3. CASE f <= Len(entries)
  <2>1. w = MergedUpTo(log, entries, Len(entries))
    <3>1. ~(f > Len(entries))
      BY <1>1, <1>3
    <3> QED
      BY <3>1 DEF Merged, MergedUpTo
  <2>2. /\ w \in Seq(Entry) /\ Len(w) = Len(entries)
        /\ \A j \in 1 .. Len(entries) :
             w[j] = IF j < f THEN log[j] ELSE entries[j]
    <3>1. f - 1 <= Len(entries) /\ Len(entries) \in Nat /\ Len(entries) <= Len(entries)
      BY <1>1
    <3> QED
      BY <2>1, <3>1, MergedUpToIs
  <2> HIDE DEF w, f
  <2>3. f \in 1 .. Len(w) + 1
    BY <1>1, <2>2
  <2>4. \A j \in 1 .. f - 1 : log[j].term = w[j].term
    BY <1>1, <1>3, <2>2
  <2>5. f <= Len(log) /\ f <= Len(w) => log[f].term # w[f].term
    BY <1>1, <1>3, <2>2
  <2>6. FirstConflict(log, w) = f
    BY <1>1, <2>2, <2>3, <2>4, <2>5, FirstConflictUnique
  <2> QED
    BY <1>1, <1>3, <2>1, <2>2, <2>6 DEF w, f
<1> QED
  BY <1>1, <1>2, <1>3
==============================================================================
