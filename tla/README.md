# A verification project for example_cpp

`example_cpp` is a collection of small C++ systems. Its largest is a Raft
key/value store over gRPC; around it stand a parallel file slicer, a token
bucket, two timer managers, a memory pool and some pure computations. This
directory holds TLA+ models of those of them that keep state which several
threads or machines change, TLC configurations that check them on small
instances, and proofs, checked by TLAPS, of theorems that hold for every
instance. `PROJECT.json` lists the components, the runs, the source lines each
definition stands for, the hazards of the code and which property watches each.

Paths below are relative to `src/`; `R/` stands for
`simple_raft_grpc_chinese_comments/simple_raft_grpc/`.

    tlc -workers 2 -config LogStore.cfg LogStore.tla      # one run
    tlapm ElectionProofs.tla                              # one module's proofs

## 1. The system: inventory

### 1.1 Raft (`R/`)

A cluster of nodes, one process each, connected by gRPC. There are no timers:
elections and proposals are triggered by an operator with the command-line
client, each runs inside the RPC that triggered it, and it calls the peers one
after the other with a deadline of 800 ms each. A gRPC server runs the calls of
one node on several threads.

| Component | State | Operations | What makes it correct |
|---|---|---|---|
| `LogStore` | entries, term, vote, commit index in memory; `raft.log`, `raft.log.tmp` on disk; one mutex | `Append`, `TruncateSuffix`, `SetCurrentTerm`, `SetVotedFor`, `SetCommitIndex`, `Load`, `SaveUnlocked` | indexes are contiguous, the commit index is within the log, TRUE means on disk, a restart finds a whole save |
| `ElectionManager` | role, leader id; one mutex; term and vote in `LogStore` | `StartElection`, `HandleVoteRequest`, `CompleteElection`, `ObserveLeader`, `StepDown` | one vote per term, one leader per term, votes survive crashes |
| `LogReplicator` | none | `ValidatePreviousLog`, `AppendFromLeader` | logs that agree at an entry agree below it; acknowledged entries stay |
| `CommitManager`, `StateMachine` | `last_applied_`, the key/value map; one mutex | `Recover`, `AdvanceCommit`, `ApplyThrough` | committed entries are applied once, in order, never taken back |
| `PeerReplicator` | stubs | `RequestVotes`, `Replicate`, `BroadcastCommit` | counts only answers to its own request; returns although peers do not |
| `RaftNode` | the components above, wired together; no mutex of its own | `Initialize`, `StartElection`, `ProposeCommand`, `HandleRequestVote`, `HandleAppendEntries`, `GetStatus` | what clients were told is durable; all state machines follow one log |
| `CatchUpManager` | none | builds batches of entries | the batch is the whole log when its only caller asks |
| `RaftServiceImpl`, `ServerApplication` | the gRPC server | convert messages, call `RaftNode` | nothing of their own |
| `ClientApplication` | none | one RPC per start of the program | nothing of its own |
| types, protocol, build | none | records and messages | nothing of their own |

Interaction: a handler of `RaftNode` calls `ElectionManager`, `LogReplicator`,
`CommitManager` and `LogStore` in turn. Each of these locks its own mutex for
one call (the first three hold it while they call `LogStore`), and no lock spans
two calls of a handler. Between two calls everything another thread does can
happen; between two file-system calls of a save the process can die.

### 1.2 The other systems

| Component | State | Operations | What makes it correct |
|---|---|---|---|
| `Data_Slicing`: `ChunkManager`, `ReaderWorker`, `WriterWorker`, `TaskQueue`, `BufferPool`, `FileWriter`, flush thread | two queues, a buffer pool, an error flag, the output files | `slice()` hands chunks to readers, these fill buffers for writers | bytes of chunks never mix, TRUE means all were written, buffers come back, `slice()` returns |
| `Data_Slicing`: `FileSlicer` | a list of chunks | `slice()` without threads, a file after the other | TRUE means all were written |
| `Data_Slicing`: `FileReader`, `WriteStatistics`, `main` | a counter | input, statistics, one `slice()` per file | nothing to add |
| `produce_consume` | tokens, one mutex, one condition variable, stop flags | `addTaken`, `consumetoken`, `tryConsumeToken`, `stop` | the bucket is never overdrawn or overfull; nobody sleeps beside a full bucket; all are served |
| `TimeManage_consume_model`: `TimerManager`, `ThreadPool` | a heap of timers, a queue of tasks, two `running` flags | add and remove timers, manager thread, workers, destructors | one-shot timers are submitted once; removed ones are quiet; nothing queued is dropped; destructors return |
| `Time`: `Timer`, `TimerManager` | a heap of pointers to timers whose keys change underneath it | `start`, `restart`, `stop`, manager thread, destructor | callbacks are paid for by starts; a stopped timer is quiet; entries leave the heap unless restarts disturb it for ever |
| `momery_pool`: `FixedSizePool` | pages, a free list inside the blocks | `allocate`, `dealloccate`, `expand` | the list holds every free block once; blocks do not overlap |
| `async` | a matrix four tasks write | `func` starts, awaits and repeats a convolution | the blocks are apart and make up the sequential result; nobody writes what is read or freed |
| `SHA-256` | none between calls | reads a file into OpenSSL's digest | the hash is OpenSSL's |
| `ThreadPool` | a task queue | does not compile as committed | none |

### 1.3 Behaviours that are hard to test

The `hazards` of `PROJECT.json` name each at its line. In short: calls of one
node that interleave between two locks (`raft_node.cpp`, `log_replicator.cpp`,
`commit_manager.cpp`); two saves for one change of term; a save that fails or a
process that dies in the middle; requests that are lost, late or reordered;
leaders that come back after several terms; `notify_one` that wakes the wrong
thread; threads that wait for each other's buffers; flags that are looked at
before a wait and set after it; heap keys that change without a lock; a free
list that lives in memory users write to.

## 2. The modules

Each model keeps the control of its code (every branch, early return and the
order of calls) and abstracts data to what properties can tell apart. What is
under one mutex in the code is one action, unless it makes a call that can fail
or lets the process die in between. The lines each definition stands for are in
`PROJECT.json` under `map`. A definition whose comment starts with "Mutant" is
not part of a specification: it is the code with one plausible slip, and shows
of one property that the slip would have been noticed.

    StableStore     what a node expects of its disk
      ^ implemented by
    LogStore        one node's store, one file-system call per step
                        |  assumed by
    Election        terms, votes, roles of a cluster     (saves are atomic)
    RaftLocal       one node's state and what each locked section does to it
      |- RaftSerial       a cluster, one handler section at a time per node
      |     |   implements ReplicatedLog, what clients are promised
      |     |- RaftThreads    the same without one thing it takes for granted
      |- AppendHandlers   a follower whose handlers overlap, call by call
      |     each handler that runs alone is RaftLocal's (EffectIsWholeCall)
      |- ProposeThreads   a leader whose proposals overlap, call by call
    ChunkPipeline, Convolution, TokenBucket, TimerPool, TimerThread,
    FixedSizePool

**LogStore** (`R/src/log_store.cpp`). `mem` is the four fields, `file` and `tmp`
the two files (`Torn` between open and the end of the write), `pc` the next call
of `SaveUnlocked`. A mutator changes `mem` and enters the save; `SaveOpen`,
`SaveWrite`, `SaveRemove`, `SaveRename` are its calls and `SaveFails` is any of
them failing, with the branch the code has for it (a failed `remove` goes on,
since the rename overwrites its error code). `Crash` may come before any of
them, `Load` is the restart, with its repair of the commit index. The text
format is the record it stands for. **StableStore** is the abstraction:
`Modify`, then `Persist` in one step; a crash restarts from what was persistent.
With `MayLose` everything may also be lost at once, but never a part.

**Election** (`R/src/election_manager.cpp`, `RaftNode::StartElection` in
`raft_node.cpp`, `RequestVotes` in `peer_replicator.cpp`). Term, vote, role and
leader id per node; `calls` are the elections in progress with the peers still to
ask, the one waited for, the votes and the higher terms answered. Every method
of `ElectionManager` is one action. A request stays in `requests` after its
deadline and may be handled then. `announced` is what leaders claim in
`AppendEntries`: the term is read again for each request, after the role was
checked, so it may be a term the node has only observed. `CrashBetweenSaves`
leaves a new term with the old vote. The log comparison is any Boolean, so what
holds here holds for any logs.

**RaftLocal** has no variables. A node is a record, and each locked section is an
operator on it: `Merged` (the loop of `AppendFromLeader`), `Committed`
(`AdvanceCommit`), `Voted`, `Adopt`, `Restarted` and so on. The entry at
position i has index i, which `LogStore` shows. The state machine is the sequence
of entries it was given.

**RaftSerial** runs them for a cluster. `StartElection`/`FinishElection` and
`Propose`/`FinishProposal` are the two ends of the calls that wait for peers; in
between, the node handles what arrives. Requests are never removed from
`voteRequests` and `appendRequests`, so each may be handled never, late, again
or by a restarted node, and its answer may be lost; handling one a second time
is more than the code needs (gRPC calls at most once), which is sound for safety.
`CrashInTermChange` and `CrashInAppend` are the crashes inside a handler.
`ballots`, `elected`, `accepted` and `acknowledged` are histories: every vote,
every election won, every log a node has confirmed, every command a client was
told of. Only properties and proofs read them.
**ReplicatedLog** is what clients are promised: one growing sequence that every
state machine follows.

**RaftThreads** extends `RaftSerial`. An execution lacks one of six things
(`gap`), and each is missing in the code:

* `append`: `PassObserveLeader` and `FinishAppend` are the two halves of
  `HandleAppendEntries`, and anything may come between them;
* `propose`: `ReadIndex` and `AppendDraft` are those of `ProposeCommand`, whose
  role and index are read before the term;
* `election`: `StartAgain` begins a second election while the first one, now
  `older`, still waits; `FinishOlder` counts its votes for the newer term;
* `save`: `VoteUnsaved` answers with a vote no save has written;
* `retry`: `AppendUnsaved` leaves in memory an entry its save did not write, and
  a second `ProposeCommand` runs beside the first (`ProposeBeside`, `earlier`);
* `rename`: `RestartEmpty` is the crash between `remove` and `rename`.

`disk` is what the last successful save has written; `RestartFromDisk` starts a
node from it.

**AppendHandlers** takes `HandleAppendEntries` apart on one follower: each call
into `LogStore` is a step of a thread, `CommitManager`'s mutex is held from
`BoundTarget` to the end of `ApplyNext`. `scenario` is a set of requests that
leaders may send together with what is in the log already; a request is taken
once. **ProposeThreads** does the same with `ProposeCommand` on a leader; the
peers answer, refuse, ignore, or depose it (`FollowOther`, whose new log keeps
what a majority has stored, as the election restriction of the real peers
ensures). `AppendHandlers` also takes the voter's side of `HandleRequestVote`
apart: `LastTerm` and `LastIndex` of the log are two reads (`ballot`) with the
handlers of other threads in between, and `fit` remembers whether the request
was due to the log of some moment in between.

**TokenBucket**: `AddTaken` with `notify_one` to any waiting thread, `Take`/`Wait`
as the two outcomes of the predicate, spurious wake-ups, both `stop` methods.
`runState` is a plain `bool` written without the mutex, so a producer may go on
after `stop()`. **ChunkPipeline**: the calling thread, readers, writers and the
flush thread of `slice()`; each queue and pool operation is a step; a wait is a
guard because its predicate changes under the mutex and is followed by a
notification. Reading, opening, writing may fail; `Torn` is a file whose `close`
failed, which the code does not look at. The same module has the sequential
`FileSlicer::slice` as a second program (`SlicerOpens`, `SlicerCopies`,
`SlicerReturns`), with the same files and failures. **Convolution**: `func` and
its tasks, a cell per step; a sum is the set of the products it adds; a task
may fail to start, and then `func` is unwound while others still write.
**TimerPool**: the owner, the manager
thread (its `pc` has a step wherever the mutex is released or an unprotected
field is read), the pool's queue and workers, both destructors in the order
`main.cpp` has. **TimerThread**: `start` writes the flag
(`Start`) and then the time (`SetExpiry`) without the manager's mutex and pushes
the pointer again (`AddTimer`), so `entries` counts how often a timer is in the
heap, and `disorder` says that a key has changed inside it: then any entry may be
on top. Starts are not counted out: a timer may be restarted for ever. `owed` is
how many of them have not yet had their callback. **FixedSizePool**: blocks as `<<page, offset>>`, the
first word of each block as a pointer that users overwrite (`WriteBlock`), sizes
modulo `Wrap`; a pointer of a page is computed as in `expand`.

`MCElection`, `MCRaftSerial`, `MCRaftThreads`, `MCAppendHandlers`,
`MCConvolution`, `MCTokenBucket`, `MCTimerPool` only give constants that a `.cfg` cannot (symmetry sets, functions, request
sets).

The theorems are in modules of their own: `LogStoreProofs`, `ElectionProofs`,
`RaftSerialProofs`, `AppendHandlersProofs` and `ProposeThreadsProofs` extend the
module they are named after (`RaftSerialProofs` by way of `RaftThreads`, which
its last part is about). `RaftLocalProofs` has what the operators of
`RaftLocal` do, for the last three. `TaskQueueProofs` is about the two programs
that hand tasks to threads through queues, `ChunkPipeline` and `TimerPool`, and
begins with their lemmas on queues; `StandaloneProofs` is about the four small
systems, one after the other. A module that extends several others needs their
names to differ, so that some have a prefix (`TimerSpec`, `PoolInit`,
`convolutionVars`).

## 3. The runs

| Run | Instance | Shows |
|---|---|---|
| `LogStore` | 2 candidates, terms to 2, logs to 2, every call may fail, crash at every point | memory and disk are always sound (`AlwaysSound`), TRUE means durable (`SuccessIsDurable`), `StableStore` is implemented |
| `Election` | 3 nodes, 2 campaign, terms to 2, crashes, one election at a time per node | `VoteOnce`, `ElectionSafety`, `PromiseKept` |
| `RaftSerial` | 3 nodes, 2 of them campaign, a command per node, leader logs to 2; all may crash in 2 terms, or none in 3 terms | `LogMatching`, `LeaderCompleteness`, `AcknowledgedIsDurable`, `AppliedIsCommitted`, `ReplicatedLog` is implemented |
| `RaftThreads` | the same cluster, 2 terms, crashes, the six gaps | **violation** of `LeaderCompleteness`, see section 6 |
| `AppendHandlers` | 2 threads, 4 scenarios: old and new leader meet, a new leader with an old suffix, a new leader with an entry in common, an empty follower; vote requests in three of them | `CommitWithinLog` and `EffectIsWholeCall` always; `AppliedIsCommitted`, `AckedStays` where no request contradicts another one or the log; `GrantIsDue` under one leader (`OneHistory`); `HandlerReturns` |
| `ProposeThreads` | 3 nodes, 2 proposals at once, other leaders of terms to 3 | `AcceptedIsInLog`, `CommitHasQuorum`, `AppliedIsCommitted` while it leads; `ProposalReturns` always |
| `TokenBucket` | 2 producers, 3 consumers with demands 1, 2 and the whole bucket of 4, stops of three threads | `FullIsNoticed`, `AllServed`, `StopReturns` |
| `Convolution` | inputs of 1 to 5, kernels of 1 to 3, each of the four tasks may fail to start | `ParallelIsSequential` |
| `ChunkPipeline` | 2 readers, 1 writer, 3 buffers, 4 chunks; or the sequential program | `BytesNeverMix`, `TrueMeansComplete`, `ReturnsClean`, `SliceReturns` |
| `TimerPool` | 2 one-shot timers and a repeating one of 1, 3 and 2 ticks, 2 workers | `OneShot`, `QuietOnceRemoved`, `NothingIsDropped`, `StopReturns`, `TimersFire` |
| `TimerThread` | 2 timers, delays 1 and 2, up to 3 entries of each, any number of starts | `RunsPaidByStarts`, `QuietOnceStopped`, `DestructorReturns`, `EntriesLeave` |
| `FixedSizePool` | sizes 4 (below a pointer) and 9 (not a multiple), 3 blocks a page, 2 pages, 8-bit sizes | `ListIsIntact`, `BlocksAreApart` |

Type correctness is proved for every instance of every module with a
specification but `RaftThreads`; in most of them it is also the first conjunct of
an invariant that is checked (`AppliedIsCommitted`, `OneShot`,
`RunsPaidByStarts`, `BytesNeverMix`). `FixedSizePool` and `LogStore` explore every
sequence of calls within their bounds.

**Bounds, by name.** `MaxTerm` bounds elections (not what a node adopts): two
terms give a deposed leader and a late vote. `Bounds` of `RaftSerial` is a set of
what one execution may contain: crashes of any node in two terms, or three terms
without crashes, because the classical danger to `LeaderCompleteness`, a leader
of term 1 that comes back in term 3 over the leader of term 2, needs three. Both
at once is more than TLC finishes, and the theorems have neither bound.
`Offers` gives each node's clients a command of their own, so that entries of
one term and index but of different leaders are told apart. `MaxLog`/`MaxIndex` 2 gives one
conflicting entry and one behind it. `MaxBacklog` stops the clock of `TimerPool`
while two tasks wait, else a repeating timer would fill the queue for ever; so
the workers are never more than two tasks behind. `MaxEntries` 3 puts a timer
into the heap three times at once, and `MaxLate` 1 keeps which of two expired
timers expired first, one step back. Both leave restarts unbounded: a timer that
leaves the heap may be started again. `MaxPages` 2 gives blocks of different pages and a
list across them. In `TokenBucket` each `Tries` is used once and `Rounds` bound
the consumers as `consume_num` does in the code. Counters of histories (`shots`,
`late`) stop at 2, since the properties compare them with 1.

**Deadlock.** It is checked where the system never stops (LogStore, the Raft
cluster, elections). The other systems end: requests, chunks and rounds run out
and destructors return; there `CHECK_DEADLOCK FALSE`, and liveness properties
say that they end properly.

**Symmetry and view.** `Election` and `RaftSerial` use symmetry between the nodes
that are triggered and between those that are not. No temporal property other
than action properties and step refinement is checked there, no constant
distinguishes the permuted values, and each `CHOOSE` chooses a value that is
unique in every state that satisfies the invariants. `RaftSerial` has a `VIEW`
besides: it drops the requests that nobody can accept or count any more (every
peer is past their term, and `Adopt`, `Grants` and `HandleAppendEntries` refuse
those) and the histories no checked property reads.

**Fairness.** Only weak fairness, per thread, on steps the thread can make alone.
A thread that can run does; a mutex held for finitely many steps is obtained; a
deadline passes (`NotAcknowledged` in `ProposeThreads`, because gRPC enforces the
800 ms, while no peer is assumed to answer); time passes (`Tick`). Nothing is
assumed that the code does not give: spurious wake-ups need never come,
`notify_one` may prefer anybody for ever, owners need never call `stop` or
destroy anything, commands and requests need never arrive. For the token bucket
a producer that has not been stopped keeps adding, since `produce::start` loops
once a second. `main.cpp` of `produce_consume` never stops its producers before
its consumers; the run stops one of two (`MayStop`), because a consumer that
waits when the last producer has ended does wait for ever.

## 4. The proofs

Everything below holds for every value of the constants under the named
assumptions of the modules, which TLC evaluates in the runs and which ask only
that ids are distinct from `None`, sets of nodes finite and bounds natural
numbers. Exceptions that say more: `BucketAssumption` (no consumer demands more
than the bucket holds, as `main.cpp` has it), `HandlersAssumption` (requests and
logs are well typed), `ProposeAssumption` (what another leader writes is a
command), `TimerAssumption` of `TimerPool` (timeouts are positive, and timers are
not the words that say what a worker does), `PoolAssumption` (a page has at least one block and its size does
not wrap around: the constructor checks neither and leaves both to its caller, and
`Fixed_size_pool.h:105`, the only one, is far from either), `PipelineAssumption` (there are a reader and a writer, which
are different threads; the code starts four and two).

**LogStoreProofs.** Inductive invariant: `TypeOK /\ AlwaysSound /\
SuccessIsDurable /\ ReplacementIsWhole`. `AlwaysSound` alone is not inductive: a
rename puts `tmp` into `raft.log`, and only `ReplacementIsWhole` says that it is
the sound memory. Two lemmas reduce the code's `lower_bound` to positions
(`LowerBoundIsPosition`, which needs contiguity) and show that a truncation keeps
soundness. `TypeCorrect`, `StoreAlwaysSound`, `SuccessDurable` follow.
`Refinement` shows that each step is a step of `StableStore` or a stutter: while
`raft.log` is removed the durable state is in `tmp`, so the removal is the
`Persist` and the rename that follows a stutter; where the removal failed, the
rename is the `Persist`. A crash or a failed rename between the two is the
`Lose`. `NoSaveIsLost` adds that without failing calls and without a crash right
before the rename a restart finds the last save (`LastSaveSurvives`, with the
strengthening that outside the rename the disk is `saved`). That is the exact
size of the code's window, and the hypothesis cannot be dropped.

**ElectionProofs.** `VoteInv` = `TypeOK /\ BallotsRecorded /\ VoteOnce`: every
ballot of a node's current term is the vote on its disk, and none is of a later
term. With it `VotesOnce` and `PromisesKept` hold for any cluster, *with*
overlapping elections and with crashes between the two saves of a change of term
(the new term is written first, so the old vote can at worst block a vote).
`WinInv` = `VotesGranted /\ CallIsCurrent /\ OneCall /\ WonByMajority /\
LeaderWonItsTerm`: a call's votes were granted for its term, and a candidate's
only call is for the term it is in. From it and the intersection of majorities
(`QuorumsMeet`) follow `OneWinnerPerTerm` and `LeadersWon`. They assume
`~Overlap`, and the gap `election` of `RaftThreads` shows that they must.

**RaftSerialProofs.** The safety of the cluster, for any number of nodes, terms,
commands, requests and crashes. The lemmas of
`RaftLocalProofs` say what each operator does to a log (the merge loop keeps what
it finds of the leader's log and ends with it; a cut takes the commit index
along); the module begins with one lemma per action that says which variables
change and how (`...Does`). The inductive invariant `Inv` has the types and four layers, each of which uses the
ones above it:

1. *Votes* (`VoteInv`): a ballot of the current term is the vote on disk, a node
   votes once in a term, winners had a majority and leaders have won. Two
   majorities meet, so a term has one winner.
2. *Written logs* (`LogInv`): `Written` are the logs leaders have ever sent. What
   begins one was written itself; those of one term are one line, since only the
   winner of the term writes them; every log on a disk is one of them. This is
   what `LogMatching` needs, which is not inductive: the merge loop compares terms
   only and says nothing about the entries below.
3. *Choice* (`ChoiceInv`): a log *may be chosen* while the nodes that have
   confirmed it and those that still may (their term is no later) are a majority
   (`Reachable`). Every log written in a later term, every leader of one, and the
   disk of everyone who confirmed it begin with such a log. A vote makes
   `Reachable` smaller, never larger; a new leader has the votes of a majority,
   which meets the confirmers, and whoever confirmed grants only to a log that
   has it (`CandidatesHaveIt`).
4. *Commitment* (`CommitInv`): what a node has committed, what a request makes its
   receiver commit and what a client was told is the beginning of a chosen log,
   and the state machine shows exactly the committed part.

The history variables `ballots`, `elected` and `accepted` exist for this
argument: `node` alone forgets who voted and who confirmed. `Safety` is
`Spec => []Inv`. From it follow `LogsStayMatched`, `LeadersStayComplete`,
`AcknowledgedStaysDurable`, `AppliedStaysCommitted`, that no commit index falls
while the node runs or across a restart (`CommitNeverFalls`), and that each step
is a step of `ReplicatedLog` or a stutter (`Refinement`).

The last part is about `RaftThreads`. Log matching and all that rests on it are
lost there, but not the argument about votes: `OneWinnerDespiteThreads` says that
an execution whose gap is `append`, `propose` or `retry` still has one winner per
term (`OneWinner`, and two nodes never lead in one term, `OneLeader`). These gaps
do change the state: half a handler or half a proposal runs in a term its node has
left, and a node restarts with the log and the term of a disk that missed a save.
`ThreadsInv` therefore takes from `Inv` only the layer of the votes (`VoteInv`)
and adds what the disk owes them: its term is not above the memory's, and is the
same, with the vote, once the node has voted, campaigns or leads (`TermOnDisk`);
and every vote a node has given is of a term its disk has not left, and is on
the disk if it is of that term (`VotesOnDisk`). Each step of a thread keeps
both, because none of these three gaps loses a save that goes with a vote. The
hypothesis cannot be weaker: with `gap` one of `election`, `save` and `rename`
(`VoteGaps`) TLC finds two winners of one term within a second.

**AppendHandlersProofs.** `Typed /\ Positioned /\ CommitWithinLog` is inductive:
however many threads handle whatever requests, the commit index stays within the
log (`CommitStaysWithinLog`). `Positioned` says that the loop is at an entry of
its request, which the types of what it appends need. Under `Uncontested` there
is a second invariant, `GrowInv` = `Grown /\ Stored /\ Bounded /\ Followed`: the
log only grows, no handler meets a conflict, what a handler has passed stays, and
one handler at a time moves the commit index, never past the log. From it follow
`AppliedStaysCommitted` and `AcknowledgedStays` for any number of threads and
requests.

`GrantsAreDue` is about the vote that reads the log twice. Its invariant,
`LineInv`, holds where the requests are those of one leader (`OneHistory`):
`Sources` (an entry is the leader's, or nothing of the old log has been cut),
`SharedStays` (all requests that contradict the old log do so at the same entry,
and what precedes it is never cut), `Compares` (what a handler has passed agrees
with its request) and `BallotInv`: a candidate that lags behind every log of the
call lags behind the length of the present one, because what a cut leaves has no
later term than the last one read. That terms never fall along a log is needed
exactly there, and section 6 has what happens without it.

`CallsMakeWhole` says that the handler taken apart call by call implements the
whole one: `EffectIsWholeCall`. Its invariant `AloneInv` is a simulation. At each
call of a handler that no other overlaps, `log` and `commit` are what `RaftLocal`
computes from `before`, as far as the loop has come (`MergedUpTo`), and the state
machine has what `ApplyThrough` has given it so far. This is what lets
`RaftSerial` take the handler as one step.

**ProposeThreadsProofs.** Any number of proposals at once on a leader, each of
which counts its own answers only. The invariant `ProposeInv` holds always of the
types, of the commit index within the log and of `CommitManager`'s mutex
(`OneCommits`), and of the rest while the node leads (`LeaderInv`): a thread's
entry is where it was put (`EntryInPlace`), what it has asked the peers to store
is a beginning of the log with that entry, and those it counts have stored it
(`RequestInLog`), and it raises the commit index only to its own entry, with a
quorum (`CommitsOwnEntry`). A quorum that stores one entry stores all below it,
hence `CommitKeepsQuorum`, although the entries below may be of threads that have
counted nobody. `AcceptedStaysInLog` and `LeaderAppliesInOrder`
follow too. What is true of every node, deposed or not, is that the commit index
stays within the log (`KeptIs`, `FollowKeeps`).

**TaskQueueProofs.** *`slice()`.* A chunk is in one place (`OnePlace`: still to
come, queued, with a thread, done), a buffer has one owner (`OneOwner`: the pool,
or one chunk between `Acquire` and `Release`), the bytes in it are that chunk's
until they are written (`BytesInPlace`), queues close behind the threads that fill
them (`ClosedInOrder`), and without a reported failure nothing that was handed out
is forgotten (`NothingForgotten`). `BytesStayApart`, `TrueIsComplete` and
`ReturnIsClean` follow for any number of chunks, buffers and threads.
`NobodyIsStuck` is the safety half of `SliceReturns`: whoever waits for a buffer,
a task or the end of a thread, somebody else can go on, because a buffer that is
not in the pool is with a chunk that a reader or writer has or will take.

*`TimerPool`.* `OneShot` says how often a timer was submitted, but not that it
will not be again. `TimerPoolInv` adds `SubmittedOnce` (while a one-shot timer is
still on its way to a submission, `Ahead`, it has not been submitted),
`LateIsLast` (a timer that was submitted after its removal never gets to the heap
again) and `FlagsAreSet` (a worker ends only when the pool is stopped).
`OneShotFiresOnce`, `RemovedIsQuiet` and `TasksAreNotDropped` hold for any timers,
timeouts, workers and backlog. `EarliestIsFirst` says that the heap stays in the
order of expiry (`HeapInOrder`) whatever is pushed into it, so that the timer the
manager looks at is one that expires first: the safety half of `TimersFire`.

**StandaloneProofs.** *`FixedSizePool`.* `PoolTypeOK /\ blockSize > 0 /\
ListIsIntact` is inductive, with `chain`, the history of the free blocks, as the
witness of the list: each action is a head or tail operation on it, and `expand`
puts the blocks of a new page before it in descending order (`Expansion`).
`FreeListIntact` for all block and page sizes. `BlocksStayApart` adds the
arithmetic: a page is divided into whole blocks (`DivMod`, `NoRemainder`,
`Monotone`), and `AdjustBlockSize` has room for the request and the link and is a
multiple of a pointer (`SizeIsAdjusted`).

*`Convolution`.* `BehindIsDone` says that what a call's loops have passed holds
the sum, `StageKnows` which calls exist at which stage of `func`, and
`BlocksPartition` that the four blocks are apart and cover the output, odd sides
included. `ParallelConvolution` for every size of input and kernel.

*`TokenBucket`.* `TypeOK /\ RoundsLeft /\ FullIsNoticed` is inductive:
`NoticedWhenFull` for any threads and demands. A consumer that has been woken
next to a full bucket takes its tokens, whoever it is, because nobody demands
more than the bucket holds; that is where the assumption is needed.

*`TimerThread`.* `RunsPaidByStarts` is inductive with the types it begins with:
an entry of the heap, or one that a `start` is about to push, is owed a callback
by a start (`owed`), and a run pays it back, however disordered the heap is. `CaughtInWindow` (a stopped timer past the look at
`is_stopped` is remembered in `window`) makes `StoppedIsQuiet` a fact of each
step. `StopIsNoticed` is the safety half of `DestructorReturns`: once
`stopped_flag` is set the thread is about to look at it or has returned, and never
waits again, since it holds `mtx` from its look to its wait.

**Only model-checked.** The liveness properties, since TLAPS 1.4.5 does neither
fairness nor ENABLED: `HandlerReturns`, `ProposalReturns`, `SliceReturns`,
`AllServed`, `StopReturns`, `TimersFire`, `DestructorReturns`, `EntriesLeave`. All
invariants and action properties of the passing runs, and both refinements, are
proved. What a definition computes by recursion over data cannot be proved with
the provers used; no module here declares a `RECURSIVE` operator.

## 5. What is assumed between the models

`Election` and `RaftSerial` treat a save as one step that succeeds. `LogStore`
shows that this is right when no call fails and no crash hits the window before
the rename. `RaftSerial` treats what a node does between two waits as one step,
and its nodes run one election and one proposal at a time. `AppendHandlers` and
`ProposeThreads` show where that is right when calls overlap: `EffectIsWholeCall`
for handlers that are alone, the guarded properties for overlapping ones that do
not contradict each other. Where any of this does not hold the code has less than
`RaftSerial`, and `RaftThreads` shows of each of these assumptions that it cannot
be dropped. `Election` has no logs and keeps calls of one node apart; it is the
authority for votes.

## 6. Where the code and its documentation disagree

**Found by a run.** `RaftThreads` is violated by what the code does. The property
is `LeaderCompleteness`: a leader has every command that was reported committed
in its term or before. The run ends at the first counterexample; with
`Gaps = {"append"}` and so on in `RaftThreads.cfg` it shows each in turn, within
seconds. With any other name in `Gaps` the module is `RaftSerial`, and TLC finds no
error in its 559,965 states. `RaftSerial` lets a
request be handled twice, which gRPC does not do; where that could matter, in
`retry`, the request that was not saved is not delivered again.

* `append`. A request of an old leader that has passed `ObserveLeader` works on
  after its node has voted in a newer term (`R/src/raft_node.cpp:41`); its success
  is counted, and the new leader lacks the entry. `election_manager.cpp:60` says
  that a stale leader's log must not be accepted.
* `propose`. A node deposed between the check of its role and the read of its term
  writes an entry of a term it has only observed (`raft_node.cpp:94`); line 87
  says that a follower must not create entries.
* `election`. `CompleteElection` (`election_manager.cpp:81`) looks at the role and
  the number of votes, not at the term they were asked for; line 80 speaks of the
  unique leader of a term.
* `save`. `SetVotedFor` ignores the result of its save (`log_store.cpp:169`);
  line 167 says that the vote must be persisted at once.
* `retry`. `Append` keeps in memory an entry whose save failed (`log_store.cpp:75`).
  A follower fails to save an entry when it comes with a second proposal, finds
  it in memory when the request of the first arrives, and answers with success
  without a save (`log_replicator.cpp:41`); the leader reports the command
  committed, and a restart forgets it. Line 39 says that an entry that is already
  there need not be written again. Without the failing save, overlapping
  proposals alone violate nothing (1,273,975 states).
* `rename`. A crash between `remove` and `rename` loses the whole store, since
  `Load` never opens `raft.log.tmp` (`log_store.cpp:206`); line 185 speaks of a
  crash that must not lose the whole log. `StableStore` has it as `MayLose`.

**Met while modelling**, and the reason for guards in models and properties:

* A leader that observed a newer term during a proposal sends that term under
  its own id (`raft_node.cpp:151`; `types.h:69-70` has term and id of the leader).
  `announced` and `CountAcks` have it.
* A deposed leader answers "command committed" although a newer leader has cut
  the entry (`raft_node.cpp:113`, `types.h:94`), so the properties of
  `ProposeThreads` are about a node that still leads.
* Two overlapping requests of one leader on a follower with an old suffix: the
  second cuts at a conflict the first has already replaced, committed entries
  included (`log_store.cpp:88`). `Uncontested` excludes this and the meeting of
  two leaders from `AckedStays` and `AppliedIsCommitted`; `EffectIsWholeCall` and
  `CommitWithinLog` cover all.
* `GrantIsDue` is about requests of one leader (`OneHistory`). A late request of an
  old leader can leave a log whose terms decrease, say an entry of term 2 and one
  of term 1. If that is cut between the two reads of the vote handler
  (`election_manager.cpp:117`), a candidate with one entry of term 1 gets a vote
  that neither the longer nor the shorter log would have given.
* The term in an answer to `AppendEntries` is dropped (`peer_replicator.cpp:31`),
  so a replaced leader is not told; `LeaderCompleteness` and
  `AcknowledgedIsDurable` show that it does no harm.
* `FileWriter::close` is not looked at (`Data_Slicing/WriterWorker.cpp:48`), so
  `slice()` may return true for an incomplete file. `TrueMeansComplete` allows
  files that are `Torn`.

* `Time`: a timer at the top of the heap that is restarted each time before it
  expires stays there, since `restart` changes its key in place (`time.cpp:14`)
  and the thread looks at nothing else (`TimerManager.cpp:46`). Timers below it
  that have expired are then never run. No comment or test promises otherwise.
  `EntriesLeave` is about executions in which such restarts end; without that
  condition TLC finds the starved timer within seconds.
* `Time`: an old entry of a restarted timer may run the callback in place of the
  new one, and a timer restarted before it expired runs twice. `RunsPaidByStarts`
  only counts: no more callbacks than starts.

Reading of the committed text: `peer_replicator.cpp:45` has a stray `}0` and is
read as `}`; `ThreadPool/ThreadPool.cpp:13` gives a `bool` where a predicate is
needed, does not compile, and is not modelled; `SHA-256/main.cpp:22` names a class
`Sha256` that `sha256.h` calls `sha256`.

## 7. Not modelled

The gRPC service and the command lines (they convert messages; that calls
overlap is in the models), the text format of `raft.log`, what commands do to the
key/value map, `GetStatus` and other readers, logging. The two reads with which a
candidate fills in its own last term and index (`election_manager.cpp:25`) are one
step. `SHA-256` is one sequential loop that reads a file into OpenSSL's digest
functions and throws at every failure: it keeps no state between calls, and the
hash is not this repository's code. `FileReader` is input whose failures are
choices of the models, `WriteStatistics` only makes the flush thread flush before
its timeout, `ThreadPool/` does not compile. The `main` of `async` catches
nothing, so that the process may end where the model unwinds `func`. In `TimerThread` timers outlive their
manager; destroying one that is in the heap is left out. An exception of
`create_directories` (`R/src/log_store.cpp:182`) leaves memory and files of
`LogStore` as a failing open does; that it also unwinds the handler that called
the save, half done, is left out of the cluster. The machine and its
page cache survive crashes: the code calls no `fsync` and says so.

## 8. Plan

Done, in this order: LogStore with its abstraction and proofs; Election and its
proofs; RaftLocal and RaftSerial; the two thread models; the other systems;
proofs for TokenBucket, AppendHandlers and FixedSizePool; the cluster without
what RaftSerial takes for granted (RaftThreads); the proofs of RaftSerial's safety
and refinement; Convolution and FileSlicer; the proofs of Convolution,
ChunkPipeline, `BlocksAreApart` and the growing log of AppendHandlers; the proofs
of ProposeThreads, TimerPool and TimerThread, of the vote of a changing log and of
the handlers as a refinement of `RaftLocal`, and the safety halves of
`SliceReturns`, `DestructorReturns` and `TimersFire`; that a term has one winner in
`RaftThreads` but for the gaps in which a vote is forgotten.

Left, most important first:

1. What else each gap of `RaftThreads` leaves standing, as theorems: log matching
   under `retry`, say. One winner per term is proved.
2. That `LogStore` and `RaftThreads` agree on `disk`: `RaftThreads` has a store
   per node whose saves are one step.
3. The safety halves of the other liveness properties (`StopReturns` of
   `TimerPool`, `HandlerReturns`): that whoever is waited for can go on.
4. Destruction of timers that are in the heap of `TimerThread`.
5. `slice()` for several files of one directory, whose `chunk_<i>` outputs have
   the same names.
