------------------------------ MODULE LogStore ------------------------------
(***************************************************************************)
(* The persistent store of ONE Raft node (src/log_store.cpp): the state in *)
(* memory, the file raft.log and the file raft.log.tmp, with SaveUnlocked  *)
(* broken into the file-system calls it makes.  mutex_ is held from the    *)
(* change in memory to the end of the save, so operations do not overlap;  *)
(* the process may die between any two file-system calls (CrashPoints).    *)
(* The machine and its page cache survive: the code calls no fsync and     *)
(* says so.                                                                *)
(***************************************************************************)
EXTENDS Naturals, Sequences

CONSTANTS
  Candidate,     \* node ids that may be voted for
  NoVote,        \* voted_for_ = ""
  NoFile,        \* the file does not exist
  Torn,          \* the file exists but its writing did not finish
  Command,       \* payloads of log entries
  MaxTerm,       \* bound: highest term a caller sets
  MaxIndex,      \* bound: longest log
  CrashPoints,   \* values of pc at which the process may die
  SaveMayFail    \* TRUE: open, write and rename may fail

ASSUME StoreAssumption ==
  /\ NoVote \notin Candidate
  /\ MaxTerm \in Nat
  /\ MaxIndex \in Nat
  /\ CrashPoints \subseteq {"idle", "open", "write", "remove", "rename"}
  /\ SaveMayFail \in BOOLEAN

Entry == [index : Nat, term : Nat, cmd : Command]

\* What SaveUnlocked writes: the META line and the LOG lines.
Store == [log : Seq(Entry), term : Nat, vote : Candidate \cup {NoVote},
          commit : Nat]

ASSUME FilesAreNotStores ==
  NoFile \notin Store /\ Torn \notin Store /\ NoFile # Torn

Fresh == [log |-> <<>>, term |-> 0, vote |-> NoVote, commit |-> 0]

VARIABLES
  mem,       \* entries_, current_term_, voted_for_, commit_index_
  file,      \* raft.log
  tmp,       \* raft.log.tmp
  pc,        \* next step of SaveUnlocked; "idle" outside it, "down" when dead
  result,    \* what the last finished mutator returned to its caller
  saved      \* history: what the last completed rename put into raft.log

vars == <<mem, file, tmp, pc, result, saved>>

-----------------------------------------------------------------------------
\* entries_.empty() ? 0 : entries_.back().index
LastIndex(log) == IF log = <<>> THEN 0 ELSE log[Len(log)].index

\* std::lower_bound over entries_: the first position whose index is not
\* below the target, one past the end when there is none.
LowerBound(log, target) ==
  CHOOSE pos \in 1 .. Len(log) + 1 :
    /\ \A j \in 1 .. pos - 1 : log[j].index < target
    /\ pos <= Len(log) => log[pos].index >= target

\* commit_index_ never points behind the last entry.
Capped(c, log) == IF c > LastIndex(log) THEN LastIndex(log) ELSE c

\* entries_.erase(lower_bound(first), end()), then the commit index follows.
Truncated(s, first) ==
  LET kept == SubSeq(s.log, 1, LowerBound(s.log, first) - 1) IN
  [s EXCEPT !.log = kept, !.commit = Capped(@, kept)]

-----------------------------------------------------------------------------
Init == /\ mem = Fresh
        /\ file = NoFile
        /\ tmp = NoFile
        /\ pc = "idle"
        /\ result = TRUE
        /\ saved = Fresh

\* Every mutator changes the fields, then runs SaveUnlocked under mutex_.
Mutate(new) == /\ pc = "idle"
               /\ mem' = new
               /\ pc' = "open"
               /\ UNCHANGED <<file, tmp, result, saved>>

\* Mutants, here and below, are what a plausible slip would have written in
\* place of the definition that follows them.  This one: the index
\* is not checked.
AppendAnything(e) == Mutate([mem EXCEPT !.log = Append(@, e)])

\* An entry that does not follow the last one is refused before any change.
AppendEntry(e) ==
  IF e.index = LastIndex(mem.log) + 1
  THEN Mutate([mem EXCEPT !.log = Append(@, e)])
  ELSE /\ pc = "idle"
       /\ result' = FALSE
       /\ UNCHANGED <<mem, file, tmp, pc, saved>>

TruncateSuffix(first) == Mutate(Truncated(mem, first))

SetCurrentTerm(t) == Mutate([mem EXCEPT !.term = t])

SetVotedFor(c) == Mutate([mem EXCEPT !.vote = c])

SetCommitIndex(c) == Mutate([mem EXCEPT !.commit = Capped(c, mem.log)])

\* What the callers pass: the term only grows; an entry is the next one or,
\* when two threads append at once, one that is not.
Caller ==
  \/ \E i \in 1 .. MaxIndex, t \in 1 .. mem.term, c \in Command :
       AppendEntry([index |-> i, term |-> t, cmd |-> c])
  \/ \E first \in 1 .. MaxIndex : TruncateSuffix(first)
  \/ \E t \in 1 .. MaxTerm : t > mem.term /\ SetCurrentTerm(t)
  \/ \E c \in Candidate \cup {NoVote} : SetVotedFor(c)
  \/ \E c \in 1 .. MaxIndex : c > mem.commit /\ SetCommitIndex(c)

-----------------------------------------------------------------------------
\* SaveUnlocked, one file-system call at a time.
Return(ok) == pc' = "idle" /\ result' = ok

\* std::ofstream(tmp, trunc): an old temporary file is emptied.
SaveOpen == /\ pc = "open"
            /\ tmp' = Torn
            /\ pc' = "write"
            /\ UNCHANGED <<mem, file, result, saved>>

\* META and LOG lines, flush, good, close.
SaveWrite == /\ pc = "write"
             /\ tmp' = mem
             /\ pc' = "remove"
             /\ UNCHANGED <<mem, file, result, saved>>

\* remove(FilePath(), error): the error code is overwritten by the rename.
SaveRemove == /\ pc = "remove"
              /\ file' = NoFile
              /\ pc' = "rename"
              /\ UNCHANGED <<mem, tmp, result, saved>>

SaveRename == /\ pc = "rename"
              /\ file' = tmp
              /\ tmp' = NoFile
              /\ saved' = tmp
              /\ Return(TRUE)
              /\ UNCHANGED mem

\* Mutant: SaveUnlocked reports success whatever rename returned.
RenameNotChecked == /\ SaveMayFail
                    /\ pc = "rename" /\ Return(TRUE)
                    /\ UNCHANGED <<mem, file, tmp, saved>>

\* A call fails: open and write return before the file is touched, a failed
\* remove goes on, a failed rename leaves whatever remove left.  That
\* create_directories throws before the open leaves the files and the memory
\* as a failing open does, and success is not reported either.
SaveFails == /\ SaveMayFail
             /\ \/ pc \in {"open", "write", "rename"} /\ Return(FALSE)
                \/ pc = "remove" /\ pc' = "rename" /\ UNCHANGED result
             /\ UNCHANGED <<mem, file, tmp, saved>>

-----------------------------------------------------------------------------
\* The process dies: memory is gone, the two files stay as they are.
Crash == /\ pc \in CrashPoints
         /\ pc' = "down"
         /\ mem' = Fresh
         /\ UNCHANGED <<file, tmp, result, saved>>

\* What a restart finds: Load opens raft.log only, never raft.log.tmp.
OnDisk == IF file = NoFile THEN Fresh ELSE file

\* Mutant: the vote is not read back.
LoadForgetsVote == /\ pc = "down"
                   /\ mem' = [OnDisk EXCEPT !.vote = NoVote]
                   /\ pc' = "idle"
                   /\ UNCHANGED <<file, tmp, result, saved>>

\* Load, with its repair of a commit index beyond the log.
Load == /\ pc = "down"
        /\ LET repaired == [OnDisk EXCEPT !.commit = Capped(@, OnDisk.log)] IN
           /\ mem' = repaired
           /\ pc' = IF repaired = OnDisk THEN "idle" ELSE "open"
        /\ UNCHANGED <<file, tmp, result, saved>>

Save == SaveOpen \/ SaveWrite \/ SaveRemove \/ SaveRename \/ SaveFails

Next == Caller \/ Save \/ Crash \/ Load

Spec == Init /\ [][Next]_vars

-----------------------------------------------------------------------------
\* Types of the variables.
TypeOK == /\ mem \in Store
          /\ file \in Store \cup {NoFile}
          /\ tmp \in Store \cup {NoFile, Torn}
          /\ pc \in {"idle", "open", "write", "remove", "rename", "down"}
          /\ result \in BOOLEAN
          /\ saved \in Store

\* The entry at position i has index i, so that lower_bound is a lookup by
\* index and prev_log checks mean something (log_store.cpp:68).
Contiguous(s) == \A i \in 1 .. Len(s.log) : s.log[i].index = i

\* A store a caller may see: contiguous, and committed only what it holds.
Sound(s) == Contiguous(s) /\ s.commit <= Len(s.log)

\* Whatever memory holds, and whatever a restart or the end of the running
\* save would find, is sound: no interleaving of appends with wrong indexes,
\* truncations below the commit index, failed saves and crashes breaks it.
AlwaysSound == /\ Sound(mem)
               /\ Sound(OnDisk)
               /\ tmp \notin {NoFile, Torn} => Sound(tmp)

\* When a mutator has returned TRUE, raft.log holds exactly what memory
\* holds: success is reported only for what a restart will find again.
SuccessIsDurable == pc = "idle" /\ result => OnDisk = mem

\* The temporary file that is about to replace raft.log is complete and is
\* the current state (log_store.cpp:203).
ReplacementIsWhole == pc \in {"remove", "rename"} => tmp = mem

\* A restart finds what the last completed save wrote (log_store.cpp:185).
\* It needs renames that succeed and no crash right before one.
LastSaveSurvives == pc = "down" => OnDisk = saved

-----------------------------------------------------------------------------
\* In the window between remove and rename the durable state is in tmp; a
\* crash there, or a rename that fails, loses it.
Abstract == INSTANCE StableStore WITH
  volatile <- mem,
  durable  <- IF pc = "rename" /\ file = NoFile THEN tmp ELSE OnDisk,
  alive    <- pc # "down",
  MayLose  <- SaveMayFail \/ "rename" \in CrashPoints

\* LogStore implements the store RaftNode relies on: every save becomes
\* durable at one instant, whatever calls of it fail, and a restart starts
\* from the durable state or, after a loss, from nothing; it never finds a
\* part of a save, a mixture of two or an older one (log_store.cpp:185,203).
ImplementsStableStore == Abstract!SSpec
=============================================================================
