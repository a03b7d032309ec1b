--------------------------- MODULE LogStoreProofs ---------------------------
(***************************************************************************)
(* Theorems about LogStore for every set of candidates and commands, every *)
(* bound, every set of crash points, and saves that may fail.              *)
(***************************************************************************)
EXTENDS LogStore, TLAPS, SequenceTheorems

\* The invariant that is inductive: success and whole replacement files are
\* what makes the end of a save leave a sound file.
IInv == TypeOK /\ AlwaysSound /\ SuccessIsDurable /\ ReplacementIsWhole

\* In a contiguous log the last index is the length (log_store.cpp:131-134).
LEMMA LastIndexIsLen ==
  ASSUME NEW s \in Store, Contiguous(s)
  PROVE  LastIndex(s.log) = Len(s.log)
  BY SMTT(20) DEF LastIndex, Contiguous, Store, Entry

\* std::lower_bound on a contiguous log finds the position of the index, or
\* the end (log_store.cpp:83-85).
LEMMA LowerBoundIsPosition ==
  ASSUME NEW s \in Store, Contiguous(s), NEW k \in Nat \ {0}
  PROVE  LowerBound(s.log, k) = IF k <= Len(s.log) THEN k ELSE Len(s.log) + 1
<1> DEFINE n == Len(s.log)
           p == IF k <= n THEN k ELSE n + 1
           IsBound(pos) == /\ \A j \in 1 .. pos - 1 : s.log[j].index < k
                           /\ pos <= n => s.log[pos].index >= k
<1>1. n \in Nat
  BY DEF Store
<1>2. p \in 1 .. n + 1 /\ IsBound(p)
  BY <1>1 DEF Contiguous
<1>3. ASSUME NEW q \in 1 .. n + 1, IsBound(q)
      PROVE  q = p
  <2>1. CASE q < p
    <3>1. s.log[q].index = q
      BY <1>1, <2>1 DEF Contiguous
    <3> QED
      BY <1>1, <1>3, <2>1, <3>1
  <2>2. CASE q > p
    <3>1. p \in 1 .. q - 1 /\ p = k /\ s.log[p].index = p
      BY <1>1, <2>2 DEF Contiguous
    <3> QED
      BY <1>1, <1>3, <3>1
  <2> QED
    BY <1>1, <2>1, <2>2
<1>4. LowerBound(s.log, k) = CHOOSE pos \in 1 .. n + 1 : IsBound(pos)
  BY DEF LowerBound
<1> QED
  BY <1>2, <1>3, <1>4

\* Truncation keeps a prefix and pulls the commit index back to its end
\* (log_store.cpp:79-94).
LEMMA TruncatedIsSound ==
  ASSUME NEW s \in Store, Sound(s), NEW k \in Nat \ {0}
  PROVE  Truncated(s, k) \in Store /\ Sound(Truncated(s, k))
<1> DEFINE keep == LowerBound(s.log, k) - 1
           kept == SubSeq(s.log, 1, keep)
<1>1. keep \in 0 .. Len(s.log)
  BY LowerBoundIsPosition DEF Store, Sound
<1>2. /\ kept \in Seq(Entry)
      /\ Len(kept) = keep
      /\ \A i \in 1 .. keep : kept[i] = s.log[i]
  BY <1>1 DEF Store
<1>3. \A i \in 1 .. Len(kept) : kept[i].index = i
  BY <1>1, <1>2 DEF Sound, Contiguous, Store
<1> DEFINE a == [s EXCEPT !.log = kept]
           t == Truncated(s, k)
<1>4. t = [a EXCEPT !.commit = Capped(s.commit, kept)]
  BY DEF Truncated
<1>5. a \in Store /\ a.log = kept
  BY <1>2 DEF Store
<1> HIDE DEF kept, a, t
<1>6. LastIndex(kept) = Len(kept)
  BY <1>1, <1>2, <1>3 DEF LastIndex
<1>7. Capped(s.commit, kept) \in 0 .. Len(kept)
  BY <1>1, <1>2, <1>6 DEF Capped, Store
<1>8. t.log = kept /\ t.commit = Capped(s.commit, kept) /\ t \in Store
  <2>1. Capped(s.commit, kept) \in Nat
    BY <1>1, <1>2, <1>7
  <2> QED
    BY <1>4, <1>5, <2>1 DEF Store
<1>9. Sound(t)
  BY <1>1, <1>2, <1>3, <1>7, <1>8 DEF Sound, Contiguous
<1> QED
  BY <1>8, <1>9 DEF t

\* An entry that follows the last one keeps the log contiguous
\* (log_store.cpp:68-75).
LEMMA AppendIsSound ==
  ASSUME NEW s \in Store, Sound(s), NEW e \in Entry,
         e.index = LastIndex(s.log) + 1
  PROVE  LET t == [s EXCEPT !.log = Append(@, e)]
         IN  t \in Store /\ Sound(t)
<1> DEFINE t == [s EXCEPT !.log = Append(@, e)]
<1>1. e.index = Len(s.log) + 1
  BY LastIndexIsLen DEF Sound
<1>2. /\ t.log = Append(s.log, e) /\ t.commit = s.commit
      /\ t \in Store
  BY DEF Store
<1>3. /\ Len(t.log) = Len(s.log) + 1
      /\ \A i \in 1 .. Len(s.log) : t.log[i] = s.log[i]
      /\ t.log[Len(s.log) + 1] = e
  BY <1>2 DEF Store
<1>4. \A i \in 1 .. Len(t.log) : t.log[i].index = i
  BY <1>1, <1>3 DEF Sound, Contiguous, Store
<1> QED
  BY <1>2, <1>3, <1>4 DEF Sound, Contiguous, Store

\* A new store that is sound enters the save without disturbing the files.
LEMMA MutateKeepsIInv ==
  ASSUME IInv, NEW s \in Store, Sound(s), Mutate(s)
  PROVE  IInv'
  BY DEF IInv, TypeOK, AlwaysSound, SuccessIsDurable, ReplacementIsWhole,
         Mutate, Sound, Contiguous, OnDisk

\* No call of the callers breaks the invariant (log_store.cpp:65-94,156-178).
LEMMA CallerKeepsIInv ==
  ASSUME IInv, Caller
  PROVE  IInv'
<1> USE StoreAssumption
<1>0. mem \in Store /\ Sound(mem)
  BY DEF IInv, TypeOK, AlwaysSound
<1>1. ASSUME NEW i \in 1 .. MaxIndex, NEW t \in 1 .. mem.term,
             NEW c \in Command,
             AppendEntry([index |-> i, term |-> t, cmd |-> c])
      PROVE  IInv'
  <2> DEFINE e == [index |-> i, term |-> t, cmd |-> c]
  <2>1. e \in Entry
    BY <1>0 DEF Entry, Store
  <2>2. CASE e.index = LastIndex(mem.log) + 1
    <3>1. Mutate([mem EXCEPT !.log = Append(@, e)])
      BY <1>1, <2>2 DEF AppendEntry
    <3> QED
      BY <1>0, <2>1, <2>2, <3>1, AppendIsSound, MutateKeepsIInv
  <2>3. CASE e.index # LastIndex(mem.log) + 1
    BY <1>1, <2>3 DEF AppendEntry, IInv, TypeOK, AlwaysSound,
       SuccessIsDurable, ReplacementIsWhole, OnDisk, Sound, Contiguous
  <2> QED
    BY <2>2, <2>3
<1>2. ASSUME NEW k \in 1 .. MaxIndex, TruncateSuffix(k)
      PROVE  IInv'
  BY <1>0, <1>2, TruncatedIsSound, MutateKeepsIInv DEF TruncateSuffix
<1>3. ASSUME NEW t \in 1 .. MaxTerm, SetCurrentTerm(t)
      PROVE  IInv'
  <2> DEFINE s == [mem EXCEPT !.term = t]
  <2>1. s \in Store /\ Sound(s)
    BY <1>0 DEF Store, Sound, Contiguous
  <2> QED
    BY <1>3, <2>1, MutateKeepsIInv DEF SetCurrentTerm
<1>4. ASSUME NEW c \in Candidate \cup {NoVote}, SetVotedFor(c)
      PROVE  IInv'
  <2> DEFINE s == [mem EXCEPT !.vote = c]
  <2>1. s \in Store /\ Sound(s)
    BY <1>0 DEF Store, Sound, Contiguous
  <2> QED
    BY <1>4, <2>1, MutateKeepsIInv DEF SetVotedFor
<1>5. ASSUME NEW c \in 1 .. MaxIndex, SetCommitIndex(c)
      PROVE  IInv'
  <2> DEFINE s == [mem EXCEPT !.commit = Capped(c, mem.log)]
  <2>0. LastIndex(mem.log) = Len(mem.log)
    BY <1>0, LastIndexIsLen DEF Sound
  <2>1. s \in Store /\ Sound(s)
    BY <1>0, <2>0 DEF Store, Sound, Contiguous, Capped
  <2> QED
    BY <1>5, <2>1, MutateKeepsIInv DEF SetCommitIndex
<1> QED
  BY <1>1, <1>2, <1>3, <1>4, <1>5 DEF Caller

\* A sound store needs no repair when it is loaded (log_store.cpp:57-62).
LEMMA NothingToRepair ==
  ASSUME NEW s \in Store, Sound(s)
  PROVE  [s EXCEPT !.commit = Capped(@, s.log)] = s
<1>1. Capped(s.commit, s.log) = s.commit
  BY LastIndexIsLen DEF Sound, Capped, Store
<1> QED
  BY <1>1 DEF Store

\* The empty store of a first start is sound (log_store.cpp:14-15).
LEMMA FreshIsSound == Fresh \in Store /\ Sound(Fresh)
  BY DEF Fresh, Store, Sound, Contiguous

\* A store that was never written is sound.
LEMMA InitIInv == Init => IInv
  BY FreshIsSound
     DEF Init, IInv, TypeOK, AlwaysSound, SuccessIsDurable,
         ReplacementIsWhole, OnDisk

\* No mutator, file-system call, failure, crash or Load breaks the
\* invariant.
LEMMA NextIInv == IInv /\ [Next]_vars => IInv'
<1> SUFFICES ASSUME IInv, [Next]_vars PROVE IInv'
  OBVIOUS
<1> USE StoreAssumption, FilesAreNotStores
        DEF IInv, TypeOK, AlwaysSound, SuccessIsDurable, ReplacementIsWhole,
            OnDisk
<1>0. OnDisk \in Store
  BY FreshIsSound
<1>1. CASE Caller
  BY <1>1, CallerKeepsIInv
<1>2. CASE SaveOpen
  BY <1>2 DEF SaveOpen, Sound, Contiguous
<1>3. CASE SaveWrite
  BY <1>3 DEF SaveWrite, Sound, Contiguous
<1>4. CASE SaveRemove
  BY <1>4, FreshIsSound DEF SaveRemove, Sound, Contiguous, Fresh
<1>5. CASE SaveRename
  BY <1>5 DEF SaveRename, Return, Sound, Contiguous
<1>6. CASE SaveFails
  BY <1>6 DEF SaveFails, Return, Sound, Contiguous
<1>7. CASE Crash
  BY <1>7, FreshIsSound DEF Crash, Sound, Contiguous, Fresh
<1>8. CASE Load
  <2>1. mem' = OnDisk /\ pc' = "idle"
    BY <1>0, <1>8, NothingToRepair DEF Load
  <2> QED
    BY <1>0, <1>8, <2>1 DEF Load, Sound, Contiguous
<1>9. CASE UNCHANGED vars
  BY <1>9 DEF vars, Sound, Contiguous
<1> QED
  BY <1>1, <1>2, <1>3, <1>4, <1>5, <1>6, <1>7, <1>8, <1>9 DEF Next, Save

\* The inductive invariant holds always.
LEMMA SpecIInv == Spec => []IInv
  BY InitIInv, NextIInv, PTL DEF Spec

\* Type correctness of the store.
THEOREM TypeCorrect == Spec => []TypeOK
  BY SpecIInv, PTL DEF IInv

\* The log in memory, the log on disk and the log about to replace it stay
\* contiguous and hold everything they call committed, whatever the callers
\* do and wherever the process dies or a save fails.
THEOREM StoreAlwaysSound == Spec => []AlwaysSound
  BY SpecIInv, PTL DEF IInv

\* A mutator that returned TRUE is on disk.
THEOREM SuccessDurable == Spec => []SuccessIsDurable
  BY SpecIInv, PTL DEF IInv

-----------------------------------------------------------------------------
\* Whatever fails and wherever the process dies, the store is the one the
\* callers rely on: a save is durable at one instant.  It can lose something
\* only if a rename may fail or the process may die right before one.
THEOREM Refinement == Spec => ImplementsStableStore
<1>1. Init => Abstract!SInit
  BY DEF Init, Abstract!SInit, OnDisk
<1>2. IInv /\ IInv' /\ [Next]_vars => [Abstract!SNext]_(Abstract!svars)
  <2> SUFFICES ASSUME IInv, IInv', [Next]_vars
               PROVE  [Abstract!SNext]_(Abstract!svars)
    OBVIOUS
  <2> USE FilesAreNotStores DEF Abstract!SNext, Abstract!svars, OnDisk
  <2>0. mem \in Store /\ mem' \in Store
    BY DEF IInv, TypeOK
  <2>1. CASE Caller
    <3>1. ASSUME NEW s, Mutate(s)
          PROVE  Abstract!Modify
      BY <2>0, <3>1 DEF Mutate, Abstract!Modify
    <3>2. ASSUME NEW e, AppendEntry(e)
          PROVE  Abstract!Modify
      BY <2>0, <3>1, <3>2 DEF AppendEntry, Abstract!Modify
    <3>3. Abstract!Modify
      BY <2>1, <3>1, <3>2 DEF Caller, TruncateSuffix, SetCurrentTerm,
                              SetVotedFor, SetCommitIndex
    <3> QED
      BY <3>3
  <2>2. CASE SaveOpen \/ SaveWrite
    BY <2>2 DEF SaveOpen, SaveWrite
  <2>3. CASE SaveRemove
    <3>1. tmp = mem
      BY <2>3 DEF IInv, ReplacementIsWhole, SaveRemove
    <3>2. Abstract!Persist
      BY <2>3, <3>1 DEF SaveRemove, Abstract!Persist
    <3> QED
      BY <3>2
  <2>4. CASE SaveRename
    <3>1. tmp = mem /\ tmp # NoFile
      BY <2>0, <2>4 DEF IInv, ReplacementIsWhole, SaveRename
    <3>2. Abstract!Persist
      BY <2>4, <3>1 DEF SaveRename, Return, Abstract!Persist
    <3> QED
      BY <3>2
  <2>5. CASE SaveFails
    <3>1. CASE pc \in {"open", "write"}
      BY <2>5, <3>1 DEF SaveFails, Return
    <3>2. CASE pc = "remove" /\ file = NoFile
      <4>1. tmp = mem
        BY <3>2 DEF IInv, ReplacementIsWhole
      <4>2. Abstract!Persist
        BY <2>5, <3>2, <4>1 DEF SaveFails, Return, Abstract!Persist
      <4> QED
        BY <4>2
    <3>3. CASE pc = "remove" /\ file # NoFile
      BY <2>5, <3>3 DEF SaveFails, Return
    <3>4. CASE pc = "rename" /\ file = NoFile
      <4>1. Abstract!Lose
        BY <2>5, <3>4 DEF SaveFails, Return, Abstract!Lose
      <4> QED
        BY <4>1
    <3>5. CASE pc = "rename" /\ file # NoFile
      BY <2>5, <3>5 DEF SaveFails, Return
    <3> QED
      BY <2>5, <3>1, <3>2, <3>3, <3>4, <3>5 DEF SaveFails
  <2>6. CASE Crash
    <3>1. pc # "down"
      BY <2>6, StoreAssumption DEF Crash
    <3>2. CASE pc = "rename" /\ file = NoFile
      <4>1. Abstract!Lose
        BY <2>6, <3>2 DEF Crash, Abstract!Lose
      <4> QED
        BY <4>1
    <3>3. CASE ~(pc = "rename" /\ file = NoFile)
      <4>1. Abstract!Die
        BY <2>6, <3>1, <3>3 DEF Crash, Abstract!Die
      <4> QED
        BY <4>1
    <3> QED
      BY <3>2, <3>3
  <2>7. CASE Load
    <3>1. OnDisk \in Store /\ Sound(OnDisk)
      BY FreshIsSound DEF IInv, TypeOK, AlwaysSound
    <3>2. mem' = OnDisk /\ pc' = "idle" /\ UNCHANGED <<file, tmp>>
      BY <2>7, <3>1, NothingToRepair DEF Load
    <3>3. Abstract!Recover
      BY <2>7, <3>2 DEF Load, Abstract!Recover
    <3> QED
      BY <3>3
  <2>8. CASE UNCHANGED vars
    BY <2>8 DEF vars
  <2> QED
    BY <2>1, <2>2, <2>3, <2>4, <2>5, <2>6, <2>7, <2>8 DEF Next, Save
<1> QED
  BY <1>1, <1>2, SpecIInv, PTL DEF Spec, ImplementsStableStore, Abstract!SSpec

\* If saves do not fail and the process does not die between remove and
\* rename, a restart finds what the last completed save wrote
\* (log_store.cpp:185).
THEOREM NoSaveIsLost ==
  ASSUME "rename" \notin CrashPoints, ~SaveMayFail
  PROVE  Spec => []LastSaveSurvives
<1> DEFINE J == pc # "rename" => OnDisk = saved
<1>1. Init => J
  BY DEF Init, OnDisk
<1>2. IInv /\ J /\ [Next]_vars => J'
  <2> SUFFICES ASSUME IInv, J, [Next]_vars PROVE J'
    OBVIOUS
  <2> USE FilesAreNotStores, StoreAssumption DEF OnDisk
  <2>1. CASE Caller
    <3>1. ASSUME NEW s, Mutate(s)
          PROVE  J'
      BY <3>1 DEF Mutate
    <3>2. ASSUME NEW e, AppendEntry(e)
          PROVE  J'
      BY <3>1, <3>2 DEF AppendEntry
    <3> QED
      BY <2>1, <3>1, <3>2 DEF Caller, TruncateSuffix, SetCurrentTerm,
                              SetVotedFor, SetCommitIndex
  <2>2. SaveRename => J'
    BY DEF SaveRename, Return, IInv, TypeOK, ReplacementIsWhole
  <2>3. SaveOpen \/ SaveWrite \/ SaveRemove \/ UNCHANGED vars => J'
    BY DEF SaveOpen, SaveWrite, SaveRemove, vars
  <2>4. Crash \/ Load => J'
    BY DEF Crash, Load
  <2> QED
    BY <2>1, <2>2, <2>3, <2>4 DEF Next, Save, SaveFails
<1>3. J => LastSaveSurvives
  BY DEF LastSaveSurvives
<1> QED
  BY SpecIInv, <1>1, <1>2, <1>3, PTL DEF Spec
=============================================================================
