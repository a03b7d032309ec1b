-------------------------- MODULE TaskQueueProofs --------------------------
(***************************************************************************)
(* Proofs about the two programs that hand tasks to threads through        *)
(* queues: FileSlicer's pipeline and the timer pool.                       *)
(*                                                                         *)
(* For any number of chunks, buffers, readers and writers: the bytes of    *)
(* chunks never mix, TRUE means that every file was written, and slice()   *)
(* returns with its threads ended and its buffers back.                    *)
(*                                                                         *)
(* For any timers, timeouts and workers: a one-shot timer is submitted     *)
(* once, a timer that was removed in time is not submitted, and no task    *)
(* that was submitted is dropped.                                          *)
(***************************************************************************)
EXTENDS ChunkPipeline, TimerPool, FiniteSetTheorems, TLAPS

-----------------------------------------------------------------------------
(* Sequences that hold each element once. *)

\* What a push to the end of a queue does to the set of its elements.
LEMMA AppendIs ==
  ASSUME NEW S, NEW s \in Seq(S), NEW x \in S
  PROVE  /\ Append(s, x) \in Seq(S)
         /\ ToSet(Append(s, x)) = ToSet(s) \cup {x}
         /\ IsInjective(s) /\ x \notin ToSet(s) => IsInjective(Append(s, x))
<1> DEFINE t == Append(s, x)
<1>1. /\ t \in Seq(S) /\ Len(t) = Len(s) + 1 /\ t[Len(s) + 1] = x
      /\ \A i \in 1 .. Len(s) : t[i] = s[i]
      /\ DOMAIN s = 1 .. Len(s) /\ DOMAIN t = 1 .. Len(s) + 1
      /\ Len(s) \in Nat
  OBVIOUS
<1> HIDE DEF t
<1>2. ToSet(t) = ToSet(s) \cup {x}
  BY <1>1 DEF ToSet
<1>3. IsInjective(s) /\ x \notin ToSet(s) => IsInjective(t)
  BY <1>1 DEF ToSet, IsInjective
<1> QED
  BY <1>1, <1>2, <1>3 DEF t

\* What a pop from the front does to it.
LEMMA TailIs ==
  ASSUME NEW S, NEW s \in Seq(S), s # <<>>
  PROVE  /\ Head(s) \in S /\ Tail(s) \in Seq(S) /\ Head(s) \in ToSet(s)
         /\ ToSet(s) = ToSet(Tail(s)) \cup {Head(s)}
         /\ IsInjective(s) => /\ Head(s) \notin ToSet(Tail(s))
                              /\ IsInjective(Tail(s))
<1> DEFINE t == Tail(s)
<1>1. /\ t \in Seq(S) /\ Head(s) = s[1] /\ Len(s) \in Nat \ {0}
      /\ \A i \in 1 .. Len(s) - 1 : t[i] = s[i + 1]
      /\ DOMAIN s = 1 .. Len(s) /\ DOMAIN t = 1 .. Len(s) - 1
      /\ \A i \in 1 .. Len(s) : s[i] \in S
  OBVIOUS
<1>2. \A i \in DOMAIN s : i = 1 \/ (i - 1 \in DOMAIN t /\ s[i] = t[i - 1])
  BY <1>1
<1> HIDE DEF t
<1>3. ToSet(s) = ToSet(t) \cup {s[1]}
  <2>1. ToSet(s) \subseteq ToSet(t) \cup {s[1]}
    BY <1>1, <1>2 DEF ToSet
  <2>2. ToSet(t) \cup {s[1]} \subseteq ToSet(s)
    BY <1>1 DEF ToSet
  <2> QED
    BY <2>1, <2>2
<1>4. ASSUME IsInjective(s)
      PROVE  s[1] \notin ToSet(t) /\ IsInjective(t)
  <2>1. \A i, j \in 1 .. Len(s) : s[i] = s[j] => i = j
    BY <1>1, <1>4 DEF IsInjective
  <2>2. \A i \in DOMAIN t : i + 1 \in 1 .. Len(s) /\ t[i] = s[i + 1]
    BY <1>1
  <2>3. \A i \in DOMAIN t : t[i] # s[1]
    BY <1>1, <2>1, <2>2
  <2>4. \A i, j \in DOMAIN t : t[i] = t[j] => i = j
    BY <1>1, <2>1, <2>2
  <2> QED
    BY <2>3, <2>4 DEF ToSet, IsInjective
<1> QED
  BY <1>1, <1>3, <1>4 DEF t

\* Where an insertion, as into a heap, puts the elements.
LEMMA InsertAtIs ==
  ASSUME NEW S, NEW s \in Seq(S), NEW x \in S, NEW k \in 1 .. Len(s) + 1
  PROVE  /\ InsertAt(s, k, x) \in Seq(S) /\ Len(InsertAt(s, k, x)) = Len(s) + 1
         /\ InsertAt(s, k, x)[k] = x
         /\ \A i \in 1 .. k - 1 : InsertAt(s, k, x)[i] = s[i]
         /\ \A i \in k + 1 .. Len(s) + 1 : InsertAt(s, k, x)[i] = s[i - 1]
<1> DEFINE l == SubSeq(s, 1, k - 1)
           r == SubSeq(s, k, Len(s))
           u == InsertAt(s, k, x)
           m == l \o <<x>>
<1>1. /\ l \in Seq(S) /\ Len(l) = k - 1
      /\ \A i \in 1 .. k - 1 : l[i] = s[i]
  OBVIOUS
<1>2. /\ r \in Seq(S) /\ Len(r) = Len(s) + 1 - k
      /\ \A i \in 1 .. Len(s) + 1 - k : r[i] = s[i + k - 1]
  OBVIOUS
<1>3. u = m \o r
  BY DEF InsertAt
<1> HIDE DEF l, r, u
<1>4. /\ m \in Seq(S) /\ Len(m) = k /\ m[k] = x
      /\ \A i \in 1 .. k - 1 : m[i] = s[i]
  BY <1>1
<1> HIDE DEF m
<1>5. /\ u \in Seq(S) /\ Len(u) = Len(m) + Len(r)
      /\ \A i \in 1 .. Len(m) : u[i] = m[i]
      /\ \A i \in Len(m) + 1 .. Len(u) : u[i] = r[i - Len(m)]
  <2>1. m \in Seq(S) /\ r \in Seq(S)
    BY <1>2, <1>4
  <2> QED
    BY <1>3, <2>1
<1>6. ASSUME NEW i \in k + 1 .. Len(s) + 1 PROVE u[i] = s[i - 1]
  <2>1. i - k \in 1 .. Len(s) + 1 - k /\ i - k + k - 1 = i - 1
    OBVIOUS
  <2> QED
    BY <1>2, <1>4, <1>5, <2>1
<1>7. /\ u \in Seq(S) /\ Len(u) = Len(s) + 1 /\ u[k] = x
      /\ \A i \in 1 .. k - 1 : u[i] = s[i]
  BY <1>2, <1>4, <1>5
<1> QED
  BY <1>6, <1>7 DEF u

\* And what it does to the set of its elements.
LEMMA InsertIs ==
  ASSUME NEW S, NEW s \in Seq(S), NEW x \in S, NEW k \in 1 .. Len(s) + 1
  PROVE  /\ InsertAt(s, k, x) \in Seq(S)
         /\ ToSet(InsertAt(s, k, x)) = ToSet(s) \cup {x}
         /\ IsInjective(s) /\ x \notin ToSet(s) => IsInjective(InsertAt(s, k, x))
<1> DEFINE u == InsertAt(s, k, x)
<1>3. /\ u \in Seq(S) /\ Len(u) = Len(s) + 1 /\ u[k] = x
      /\ \A i \in 1 .. k - 1 : u[i] = s[i]
      /\ \A i \in k + 1 .. Len(s) + 1 : u[i] = s[i - 1]
  BY InsertAtIs
<1>4. /\ DOMAIN u = 1 .. Len(s) + 1 /\ DOMAIN s = 1 .. Len(s) /\ Len(s) \in Nat
      /\ k \in DOMAIN u
  BY <1>3
<1> HIDE DEF u
<1>5. \A i \in DOMAIN u : \/ i = k /\ u[i] = x
                          \/ i < k /\ i \in DOMAIN s /\ u[i] = s[i]
                          \/ i > k /\ i - 1 \in DOMAIN s /\ u[i] = s[i - 1]
  BY <1>3, <1>4
<1>6. ToSet(u) = ToSet(s) \cup {x}
  <2>1. ToSet(u) \subseteq ToSet(s) \cup {x}
    BY <1>5 DEF ToSet
  <2>2. ASSUME NEW i \in DOMAIN s PROVE s[i] \in ToSet(u)
    <3>1. CASE i < k
      BY <1>3, <1>4, <3>1 DEF ToSet
    <3>2. CASE i >= k
      <4>1. i + 1 \in DOMAIN u /\ u[i + 1] = s[i]
        BY <1>3, <1>4, <3>2
      <4> QED
        BY <4>1 DEF ToSet
    <3> QED
      BY <1>4, <3>1, <3>2
  <2>3. x \in ToSet(u)
    BY <1>3, <1>4 DEF ToSet
  <2> QED
    BY <2>1, <2>2, <2>3 DEF ToSet
<1>7. ASSUME IsInjective(s), x \notin ToSet(s) PROVE IsInjective(u)
  <2>1. \A i \in DOMAIN s : s[i] # x
    BY <1>7 DEF ToSet
  <2>2. \A i, j \in DOMAIN s : s[i] = s[j] => i = j
    BY <1>7 DEF IsInjective
  <2>3. ASSUME NEW i \in DOMAIN u, NEW j \in DOMAIN u, u[i] = u[j] PROVE i = j
    <3>1. CASE i = k
      BY <1>5, <2>1, <2>3, <3>1
    <3>2. CASE j = k
      BY <1>5, <2>1, <2>3, <3>2
    <3>3. CASE i # k /\ j # k
      BY <1>4, <1>5, <2>2, <2>3, <3>3
    <3> QED
      BY <3>1, <3>2, <3>3
  <2> QED
    BY <2>3 DEF IsInjective
<1> QED
  BY <1>3, <1>6, <1>7 DEF u

-----------------------------------------------------------------------------
(* ChunkPipeline *)

\* A chunk is in one place at a time: not yet handed out, queued for the
\* readers, with a reader, queued for the writers, with a writer, or done; and
\* it has a buffer of its own from Acquire to Release.

Slicer == Reader \cup Writer

Waiting == ToSet(readerQueue)     \* chunks queued for readers
Filled == ToSet(writerQueue)      \* chunks queued for writers
Pool == ToSet(free)

Written(c) == files[c] \in {c, Torn}

-----------------------------------------------------------------------------
\* Types, of the variables that TypeOK leaves out as well.
Typed == /\ TypeOK
         /\ good \in [Chunk -> BOOLEAN]
         /\ readersClosed \in BOOLEAN /\ writersClosed \in BOOLEAN
         /\ pc \in [Slicer -> {"pop", "acquire", "read", "push", "write",
                               "release", "exited"}]

\* The queues are closed in the order of slice(), each behind the threads
\* that fill it.
ClosedInOrder ==
  /\ readersClosed <=> main \in {"joinReaders", "joinWriters", "joinFlush",
                                 "returned"}
  /\ writersClosed <=> main \in {"joinWriters", "joinFlush", "returned"}
  /\ readersClosed => pushed = Chunks
  /\ writersClosed => Joined(Reader)
  /\ main \in {"joinFlush", "returned"} => Joined(Writer)

\* A thread ends when its queue is closed and empty.
EndedIsEmpty ==
  /\ \A r \in Reader : pc[r] = "exited" => readersClosed /\ readerQueue = <<>>
  /\ \A w \in Writer : pc[w] = "exited" => writersClosed /\ writerQueue = <<>>

\* A worker has a task between taking it and passing it on.
AtWork ==
  /\ \A r \in Reader : /\ pc[r] \notin {"write", "release"}
                       /\ task[r] = None <=> pc[r] \in {"pop", "exited"}
  /\ \A w \in Writer : /\ pc[w] \notin {"acquire", "read", "push"}
                       /\ task[w] = None <=> pc[w] \in {"pop", "exited"}

Places == Typed /\ ClosedInOrder /\ EndedIsEmpty /\ AtWork

\* No chunk is in two places.
OnePlace ==
  /\ IsInjective(readerQueue) /\ IsInjective(writerQueue)
  /\ \A c \in Waiting : c <= pushed /\ c \notin Filled
  /\ \A c \in Filled : c <= pushed
  /\ \A v \in Slicer : task[v] # None =>
       /\ task[v] <= pushed /\ task[v] \notin Waiting /\ task[v] \notin Filled
       /\ \A u \in Slicer : u # v => task[u] # task[v]

\* The chunks that have a buffer.
Buffered(c) ==
  \/ c \in Filled
  \/ \E r \in Reader : task[r] = c /\ pc[r] \in {"read", "push"}
  \/ \E w \in Writer : task[w] = c

\* A buffer is in the pool, once, or it is one chunk's.
OneOwner ==
  /\ IsInjective(free)
  /\ \A c \in Chunk : /\ buffer[c] # None <=> Buffered(c)
                      /\ buffer[c] \notin Pool
                      /\ \A d \in Chunk : c # d /\ buffer[c] # None
                                            => buffer[c] # buffer[d]
  /\ \A b \in Buffer : b \in Pool \/ \E c \in Chunk : buffer[c] = b

\* The buffer of a chunk that was read holds its bytes until it is written.
Holding(c) == good[c] => content[buffer[c]] = c

BytesInPlace ==
  /\ \A c \in Filled : Holding(c)
  /\ \A r \in Reader : pc[r] = "push" => Holding(task[r])
  /\ \A w \in Writer : pc[w] = "write" => good[task[w]] /\ Holding(task[w])
  /\ \A c \in Chunk : files[c] \in {None, Torn, c}

\* While no failure was reported, what was handed out is on its way or
\* written.
NothingForgotten ==
  ok => /\ \A c \in Chunk : good[c]
        /\ \A c \in Chunk : c <= pushed =>
             \/ c \in Waiting \/ c \in Filled \/ Written(c)
             \/ \E v \in Slicer : task[v] = c
        /\ \A w \in Writer : pc[w] = "release" => Written(task[w])

Answers ==
  /\ result => main \in {"returned", "sliced"}
  /\ main = "returned" /\ result => ok
  /\ main = "open" => pushed = 0
  /\ main = "copy" \/ (main = "sliced" /\ result) =>
       \A c \in Chunk : c <= pushed => Written(c)
  /\ main = "sliced" /\ result => pushed = Chunks

Inv == Places /\ OnePlace /\ OneOwner /\ BytesInPlace /\ NothingForgotten
         /\ Answers

-----------------------------------------------------------------------------
\* The pool is filled with every buffer once.
LEMMA PoolIs ==
  /\ SetToSeq(Buffer) \in Seq(Buffer)
  /\ IsInjective(SetToSeq(Buffer))
  /\ ToSet(SetToSeq(Buffer)) = Buffer
<1> DEFINE n == Cardinality(Buffer)
           f == SetToSeq(Buffer)
<1>1. IsFiniteSet(Buffer)
  BY PipelineAssumption
<1>2. n \in Nat /\ ExistsBijection(1 .. n, Buffer)
  BY <1>1, FS_CardinalityType
<1>3. \E g \in [1 .. n -> Buffer] : IsInjective(g)
  BY <1>2 DEF ExistsBijection, Bijection, Injection
<1>4. f \in [1 .. n -> Buffer] /\ IsInjective(f)
  BY <1>3 DEF SetToSeq
<1>5. f \in Seq(Buffer)
  BY <1>2, <1>4
<1>6. f \in Injection(1 .. n, Buffer)
  BY <1>4 DEF Injection
<1>7. IsFiniteSet(1 .. n) /\ Cardinality(1 .. n) = n
  BY <1>2, FS_Interval
<1>8. f \in Surjection(1 .. n, Buffer)
  BY <1>1, <1>6, <1>7, FS_Injection
<1>9. ToSet(f) = Buffer
  BY <1>4, <1>8 DEF ToSet, Surjection
<1> QED
  BY <1>4, <1>5, <1>9

\* Every queue is empty at the start and every buffer in the pool.
LEMMA InitInv == Init => Inv
<1> SUFFICES ASSUME Init PROVE Inv
  OBVIOUS
<1>1. /\ Waiting = {} /\ Filled = {} /\ Pool = Buffer
      /\ readerQueue \in Seq(Chunk) /\ writerQueue \in Seq(Chunk)
      /\ IsInjective(readerQueue) /\ IsInjective(writerQueue)
  <2>1. Pool = Buffer
    BY PoolIs DEF Init, Pool
  <2> QED
    BY <2>1 DEF Init, Waiting, Filled, ToSet, IsInjective
<1>2. Places
  <2>1. Typed
    <3>1. 0 \in 0 .. Chunks /\ readerQueue \in Seq(Chunk)
      BY <1>1, PipelineAssumption
    <3> QED
      BY <1>1, <3>1, PoolIs DEF Typed, TypeOK, Init, Slicer
  <2>2. ClosedInOrder /\ EndedIsEmpty /\ AtWork
    BY PipelineAssumption DEF ClosedInOrder, EndedIsEmpty, AtWork, Init
  <2> QED
    BY <2>1, <2>2 DEF Places
<1>3. OnePlace
  BY <1>1 DEF OnePlace, Init, Slicer
<1>4. OneOwner
  BY <1>1, PoolIs, PipelineAssumption DEF OneOwner, Buffered, Init, Chunk
<1>5. BytesInPlace
  BY <1>1 DEF BytesInPlace, Init
<1>6. NothingForgotten /\ Answers
  BY PipelineAssumption DEF NothingForgotten, Answers, Init, Chunk
<1> QED
  BY <1>2, <1>3, <1>4, <1>5, <1>6 DEF Inv
-----------------------------------------------------------------------------
\* Where chunks and buffers are when no worker moves.
LEMMA WorkersRest ==
  ASSUME Inv,
         UNCHANGED <<pushed, readerQueue, writerQueue, chunkTasks, pool, workers, ok,
                     files>>
  PROVE  /\ AtWork' /\ OnePlace' /\ OneOwner' /\ BytesInPlace'
         /\ NothingForgotten'
<1>1. /\ Waiting' = Waiting /\ Filled' = Filled /\ Pool' = Pool
      /\ \A c : Written(c)' <=> Written(c)
      /\ \A c : Buffered(c)' <=> Buffered(c)
      /\ \A c : Holding(c)' <=> Holding(c)
  BY DEF Waiting, Filled, Pool, Written, Buffered, Holding, chunkTasks, pool, workers
<1>2. AtWork'
  BY DEF Inv, Places, AtWork, workers
<1>3. OnePlace'
  BY <1>1 DEF Inv, OnePlace, workers
<1>4. OneOwner'
  BY <1>1 DEF Inv, OneOwner, chunkTasks, pool
<1>5. BytesInPlace'
  BY <1>1 DEF Inv, BytesInPlace, chunkTasks, workers
<1>6. NothingForgotten'
  BY <1>1 DEF Inv, NothingForgotten, chunkTasks, workers
<1> QED
  BY <1>2, <1>3, <1>4, <1>5, <1>6

\* What queues and tasks hold are chunks, and chunks are numbers.
LEMMA ChunksAre ==
  ASSUME Inv
  PROVE  /\ Waiting \subseteq Chunk /\ Filled \subseteq Chunk
         /\ \A v \in Slicer : task[v] # None => task[v] \in Chunk
         /\ \A c \in Chunk : c \in Nat
         /\ pushed \in Nat /\ None \notin Chunk
<1>1. Waiting \subseteq Chunk /\ Filled \subseteq Chunk
  BY DEF Waiting, Filled, ToSet, Inv, Places, Typed, TypeOK
<1>2. /\ \A v \in Slicer : task[v] # None => task[v] \in Chunk
      /\ pushed \in Nat
  BY PipelineAssumption DEF Inv, Places, Typed, TypeOK, Slicer
<1> QED
  BY <1>1, <1>2, PipelineAssumption DEF Chunk

\* The steps of slice() itself: it opens the input file,
LEMMA ProbeKeeps == Inv /\ Probe => Inv'
<1> SUFFICES ASSUME Inv, Probe PROVE Inv'
  OBVIOUS
<1> USE DEF Probe, queues, chunkTasks, pool, workers, flush
<1>1. Typed'
  BY DEF Inv, Places, Typed, TypeOK
<1>2. ClosedInOrder' /\ EndedIsEmpty'
  BY DEF Inv, Places, ClosedInOrder, EndedIsEmpty, Joined
<1>3. Answers'
  BY DEF Inv, Answers
<1> QED
  BY <1>1, <1>2, <1>3, WorkersRest DEF Inv, Places

\* closes the readers' queue,
LEMMA CloseReadersKeeps == Inv /\ CloseReaders => Inv'
<1> SUFFICES ASSUME Inv, CloseReaders PROVE Inv'
  OBVIOUS
<1> USE DEF CloseReaders, queues, chunkTasks, pool, workers, flush
<1>1. Typed'
  BY DEF Inv, Places, Typed, TypeOK
<1>2. ClosedInOrder' /\ EndedIsEmpty'
  BY DEF Inv, Places, ClosedInOrder, EndedIsEmpty, Joined
<1>3. Answers'
  BY DEF Inv, Answers
<1> QED
  BY <1>1, <1>2, <1>3, WorkersRest DEF Inv, Places

\* closes the writers' queue,
LEMMA CloseWritersKeeps == Inv /\ CloseWriters => Inv'
<1> SUFFICES ASSUME Inv, CloseWriters PROVE Inv'
  OBVIOUS
<1> USE DEF CloseWriters, queues, chunkTasks, pool, workers, flush
<1>1. Typed'
  BY DEF Inv, Places, Typed, TypeOK
<1>2. ClosedInOrder' /\ EndedIsEmpty'
  BY DEF Inv, Places, ClosedInOrder, EndedIsEmpty, Joined
<1>3. Answers'
  BY DEF Inv, Answers
<1> QED
  BY <1>1, <1>2, <1>3, WorkersRest DEF Inv, Places

\* ends the flush thread,
LEMMA StopFlushKeeps == Inv /\ StopFlush => Inv'
<1> SUFFICES ASSUME Inv, StopFlush PROVE Inv'
  OBVIOUS
<1> USE DEF StopFlush, queues, chunkTasks, pool, workers, flush
<1>1. Typed'
  BY DEF Inv, Places, Typed, TypeOK
<1>2. ClosedInOrder' /\ EndedIsEmpty'
  BY DEF Inv, Places, ClosedInOrder, EndedIsEmpty, Joined
<1>3. Answers'
  BY DEF Inv, Answers
<1> QED
  BY <1>1, <1>2, <1>3, WorkersRest DEF Inv, Places

\* and returns.
LEMMA ReturnKeeps == Inv /\ Return => Inv'
<1> SUFFICES ASSUME Inv, Return PROVE Inv'
  OBVIOUS
<1> USE DEF Return, queues, chunkTasks, pool, workers, flush
<1>1. Typed'
  BY DEF Inv, Places, Typed, TypeOK
<1>2. ClosedInOrder' /\ EndedIsEmpty'
  BY DEF Inv, Places, ClosedInOrder, EndedIsEmpty, Joined
<1>3. Answers'
  BY DEF Inv, Answers
<1> QED
  BY <1>1, <1>2, <1>3, WorkersRest DEF Inv, Places

\* The flush thread touches nothing of the chunks.
LEMMA FlushLoopKeeps == Inv /\ FlushLoop => Inv'
<1> SUFFICES ASSUME Inv, FlushLoop PROVE Inv'
  OBVIOUS
<1> USE DEF FlushLoop, queues, chunkTasks, pool, workers
<1>1. Typed'
  BY DEF Inv, Places, Typed, TypeOK
<1>2. ClosedInOrder' /\ EndedIsEmpty'
  BY DEF Inv, Places, ClosedInOrder, EndedIsEmpty, Joined
<1>3. Answers'
  BY DEF Inv, Answers, Written
<1> QED
  BY <1>1, <1>2, <1>3, WorkersRest DEF Inv, Places

\* A step of nobody keeps the invariant.
LEMMA StutterKeeps == Inv /\ UNCHANGED vars => Inv'
<1> SUFFICES ASSUME Inv, UNCHANGED vars PROVE Inv'
  OBVIOUS
<1> USE DEF vars, queues, chunkTasks, pool, workers
<1>1. Typed'
  BY DEF Inv, Places, Typed, TypeOK
<1>2. ClosedInOrder' /\ EndedIsEmpty'
  BY DEF Inv, Places, ClosedInOrder, EndedIsEmpty, Joined
<1>3. Answers'
  BY DEF Inv, Answers, Written
<1> QED
  BY <1>1, <1>2, <1>3, WorkersRest DEF Inv, Places

\* The next chunk, which is nowhere yet, is queued for the readers.
LEMMA PushKeeps == Inv /\ Push => Inv'
<1> SUFFICES ASSUME Inv, Push PROVE Inv'
  OBVIOUS
<1> USE DEF Push, queues, chunkTasks, pool, workers, flush
<1>1. /\ pushed \in Nat /\ pushed' = pushed + 1 /\ pushed' \in Chunk
      /\ pushed' \in 0 .. Chunks
  BY PipelineAssumption DEF Inv, Places, Typed, TypeOK, Chunk
<1>2. pushed' \notin Waiting
  BY <1>1 DEF Inv, OnePlace
<1>3. /\ readerQueue' \in Seq(Chunk) /\ Waiting' = Waiting \cup {pushed'}
      /\ IsInjective(readerQueue')
  <2>1. readerQueue \in Seq(Chunk) /\ IsInjective(readerQueue)
    BY DEF Inv, Places, Typed, TypeOK, OnePlace
  <2> QED
    BY <1>1, <1>2, <2>1, AppendIs DEF Waiting
<1>4. /\ Filled' = Filled /\ Pool' = Pool
      /\ \A c : Written(c)' <=> Written(c)
      /\ \A c : Buffered(c)' <=> Buffered(c)
      /\ \A c : Holding(c)' <=> Holding(c)
  BY DEF Filled, Pool, Written, Buffered, Holding
<1>5. Typed'
  BY <1>1, <1>3 DEF Inv, Places, Typed, TypeOK
<1>6. ClosedInOrder' /\ EndedIsEmpty' /\ AtWork'
  BY DEF Inv, Places, ClosedInOrder, EndedIsEmpty, Joined, AtWork
<1>7. OnePlace'
  <2>1. \A c \in Chunk : c <= pushed => c <= pushed' /\ c # pushed'
    BY <1>1, ChunksAre
  <2>2. pushed' <= pushed'
    BY <1>1
  <2>3. /\ \A c \in Waiting' : c <= pushed' /\ c \notin Filled
        /\ \A c \in Filled : c <= pushed'
    BY <1>3, <2>1, <2>2, ChunksAre DEF Inv, OnePlace
  <2>4. \A v \in Slicer : task[v] # None =>
           task[v] <= pushed' /\ task[v] \notin Waiting'
    BY <1>3, <2>1, ChunksAre DEF Inv, OnePlace
  <2> QED
    BY <1>3, <1>4, <2>3, <2>4 DEF Inv, OnePlace
<1>8. OneOwner'
  BY <1>4 DEF Inv, OneOwner
<1>9. BytesInPlace'
  BY <1>4 DEF Inv, BytesInPlace
<1>10. NothingForgotten'
  <2>1. \A c \in Chunk : c <= pushed' => c <= pushed \/ c = pushed'
    BY <1>1 DEF Chunk
  <2> QED
    BY <1>3, <1>4, <2>1 DEF Inv, NothingForgotten
<1>11. Answers'
  BY <1>4 DEF Inv, Answers
<1> QED
  BY <1>5, <1>6, <1>7, <1>8, <1>9, <1>10, <1>11 DEF Inv, Places

\* FileSlicer writes the file of the next chunk, which is nowhere.
LEMMA FileSlicerKeeps == Inv /\ FileSlicer => Inv'
<1> SUFFICES ASSUME Inv, FileSlicer PROVE Inv'
  OBVIOUS
<1> USE DEF FileSlicer, queues, chunkTasks, pool, workers, flush
<1>1. CASE SlicerOpens
  <2> USE <1>1 DEF SlicerOpens
  <2>1. Typed'
    BY DEF Inv, Places, Typed, TypeOK
  <2>2. ClosedInOrder' /\ EndedIsEmpty'
    BY DEF Inv, Places, ClosedInOrder, EndedIsEmpty, Joined
  <2>3. Answers'
    BY DEF Inv, Answers, Chunk
  <2> QED
    BY <2>1, <2>2, <2>3, WorkersRest DEF Inv, Places
<1>2. CASE SlicerReturns
  <2> USE <1>2 DEF SlicerReturns
  <2>1. Typed'
    BY DEF Inv, Places, Typed, TypeOK
  <2>2. ClosedInOrder' /\ EndedIsEmpty'
    BY DEF Inv, Places, ClosedInOrder, EndedIsEmpty, Joined
  <2>3. Answers'
    BY DEF Inv, Answers, Written
  <2> QED
    BY <2>1, <2>2, <2>3, WorkersRest DEF Inv, Places
<1>3. CASE SlicerCopies /\ pushed' = pushed
  <2> USE <1>3 DEF SlicerCopies
  <2>0. pushed' = pushed /\ pushed \in Nat /\ main' = "sliced" /\ files' = files
    BY PipelineAssumption DEF Inv, Places, Typed, TypeOK
  <2>1. Typed'
    BY <2>0 DEF Inv, Places, Typed, TypeOK
  <2>2. ClosedInOrder' /\ EndedIsEmpty'
    BY <2>0 DEF Inv, Places, ClosedInOrder, EndedIsEmpty, Joined
  <2>3. Answers'
    BY <2>0 DEF Inv, Answers
  <2> QED
    BY <2>0, <2>1, <2>2, <2>3, WorkersRest DEF Inv, Places
<1>4. CASE SlicerCopies /\ pushed' # pushed
  <2> USE <1>4 DEF SlicerCopies
  <2>1. /\ pushed \in Nat /\ pushed' = pushed + 1 /\ pushed' \in Chunk
        /\ pushed' \in 0 .. Chunks /\ main' = main
    BY PipelineAssumption DEF Inv, Places, Typed, TypeOK, Chunk
  <2>2. PICK held \in {pushed', Torn} : files' = [files EXCEPT ![pushed'] = held]
    BY <2>1
  <2>3. /\ Waiting' = Waiting /\ Filled' = Filled /\ Pool' = Pool
        /\ \A c : Buffered(c)' <=> Buffered(c)
        /\ \A c : Holding(c)' <=> Holding(c)
    BY DEF Waiting, Filled, Pool, Buffered, Holding
  <2>4. /\ \A c \in Chunk : Written(c) => Written(c)'
        /\ \A c \in Chunk : c = pushed' => Written(c)'
        /\ files' \in [Chunk -> Chunk \cup {None, Torn}]
        /\ \A c \in Chunk : files'[c] \in {None, Torn, c}
    <3>1. files \in [Chunk -> Chunk \cup {None, Torn}]
      BY DEF Inv, Places, Typed, TypeOK
    <3>2. /\ files'[pushed'] \in {pushed', Torn}
          /\ \A c \in Chunk : c # pushed' => files'[c] = files[c]
          /\ files' \in [Chunk -> Chunk \cup {None, Torn}]
      BY <2>1, <2>2, <3>1
    <3> QED
      BY <3>2 DEF Written, Inv, BytesInPlace
  <2>5. \A c \in Chunk : c <= pushed' => c <= pushed \/ c = pushed'
    BY <2>1 DEF Chunk
  <2>6. Typed'
    BY <2>1, <2>4 DEF Inv, Places, Typed, TypeOK
  <2>7. ClosedInOrder' /\ EndedIsEmpty' /\ AtWork'
    BY <2>1 DEF Inv, Places, ClosedInOrder, EndedIsEmpty, Joined, AtWork
  <2>8. OnePlace'
    <3>1. \A c \in Chunk : c <= pushed => c <= pushed'
      BY <2>1 DEF Chunk
    <3> QED
      BY <2>3, <3>1, ChunksAre DEF Inv, OnePlace
  <2>9. OneOwner'
    BY <2>3 DEF Inv, OneOwner
  <2>10. BytesInPlace'
    BY <2>3, <2>4 DEF Inv, BytesInPlace
  <2>11. NothingForgotten'
    <3>1. \A w \in Writer : pc[w] = "release" => task[w] \in Chunk
      BY ChunksAre DEF Inv, Places, AtWork, Slicer
    <3>2. ASSUME ok, NEW c \in Chunk, c <= pushed'
          PROVE  \/ c \in Waiting \/ c \in Filled \/ Written(c)'
                 \/ \E v \in Slicer : task[v] = c
      BY <2>4, <2>5, <3>2 DEF Inv, NothingForgotten
    <3> QED
      BY <2>3, <2>4, <3>1, <3>2 DEF Inv, NothingForgotten
  <2>12. Answers'
    <3>1. \A c \in Chunk : c <= pushed' => Written(c)'
      BY <2>4, <2>5 DEF Inv, Answers
    <3> QED
      BY <2>1, <3>1 DEF Inv, Answers
  <2> QED
    BY <2>6, <2>7, <2>8, <2>9, <2>10, <2>11, <2>12 DEF Inv, Places
<1> QED
  BY <1>1, <1>2, <1>3, <1>4 DEF FileSlicer
-----------------------------------------------------------------------------
\* The step of a worker leaves the others where they are.
Only(u) == \A v \in Slicer : v # u => pc'[v] = pc[v] /\ task'[v] = task[v]

\* A chunk goes from the readers' queue to a reader.
LEMMA ReaderPopsKeeps == \A r \in Reader : Inv /\ ReaderPops(r) => Inv'
<1> SUFFICES ASSUME NEW r \in Reader, Inv, ReaderPops(r) PROVE Inv'
  OBVIOUS
<1> USE DEF ReaderPops, Goto, chunkTasks, pool
<1>1. /\ r \in Slicer /\ r \notin Writer
      /\ pc \in [Slicer -> {"pop", "acquire", "read", "push", "write",
                            "release", "exited"}]
      /\ task \in [Slicer -> Chunk \cup {None}]
      /\ readerQueue \in Seq(Chunk) /\ task[r] = None
  BY PipelineAssumption DEF Slicer, Inv, Places, Typed, TypeOK, AtWork
<1>2. /\ Only(r) /\ Filled' = Filled /\ Pool' = Pool
      /\ \A c : Written(c)' <=> Written(c)
      /\ \A c : Holding(c)' <=> Holding(c)
  BY <1>1 DEF Only, Filled, Pool, Written, Holding
<1>3. \A c \in Chunk : Buffered(c)' <=> Buffered(c)
  <2>1. \A q \in Reader : /\ q = r => pc[q] = "pop" /\ pc'[q] \in {"acquire", "exited"}
                          /\ q # r => task'[q] = task[q] /\ pc'[q] = pc[q]
    BY <1>1, <1>2 DEF Only, Slicer
  <2>2. \A w \in Writer : task'[w] = task[w]
    BY <1>1, <1>2 DEF Only, Slicer
  <2> QED
    BY <1>2, <2>1, <2>2 DEF Buffered
<1>4. OneOwner'
  BY <1>2, <1>3 DEF Inv, OneOwner
<1>5. BytesInPlace'
  <2>1. \A q \in Reader : pc'[q] = "push" => pc[q] = "push" /\ task'[q] = task[q]
    BY <1>1, <1>2 DEF Only, Slicer
  <2>2. \A w \in Writer : task'[w] = task[w] /\ pc'[w] = pc[w]
    BY <1>1, <1>2 DEF Only, Slicer
  <2> QED
    BY <1>2, <2>1, <2>2 DEF Inv, BytesInPlace
<1>6. CASE readerQueue # <<>>
  <2> DEFINE c == Head(readerQueue)
  <2>1. /\ task' = [task EXCEPT ![r] = c] /\ pc' = [pc EXCEPT ![r] = "acquire"]
        /\ readerQueue' = Tail(readerQueue)
    BY <1>6
  <2>2. /\ c \in Chunk /\ readerQueue' \in Seq(Chunk) /\ c \in Waiting
        /\ Waiting = Waiting' \cup {c} /\ c \notin Waiting'
        /\ IsInjective(readerQueue')
    BY <1>1, <1>6, <2>1, TailIs DEF Inv, OnePlace, Waiting
  <2> HIDE DEF c
  <2>3. pc'[r] = "acquire" /\ task'[r] = c /\ c # None
    BY <1>1, <2>1, <2>2, ChunksAre
  <2>4. Typed'
    BY <1>1, <2>1, <2>2 DEF Inv, Places, Typed, TypeOK, Slicer
  <2>5. ClosedInOrder' /\ EndedIsEmpty' /\ AtWork'
    BY <1>1, <1>2, <1>6, <2>3
       DEF Inv, Places, ClosedInOrder, EndedIsEmpty, Joined, AtWork, Only, Slicer
  <2>6. OnePlace'
    <3>1. c <= pushed /\ c \notin Filled /\ \A v \in Slicer : task[v] # c
      BY <2>2, <2>3 DEF Inv, OnePlace
    <3>2. ASSUME NEW v \in Slicer, task'[v] # None
          PROVE  /\ task'[v] <= pushed /\ task'[v] \notin Waiting'
                 /\ task'[v] \notin Filled
                 /\ \A u \in Slicer : u # v => task'[u] # task'[v]
      <4>1. CASE v = r
        BY <1>2, <2>2, <2>3, <3>1, <4>1 DEF Only
      <4>2. CASE v # r
        BY <1>2, <2>2, <2>3, <3>1, <3>2, <4>2 DEF Only, Inv, OnePlace
      <4> QED
        BY <4>1, <4>2
    <3> QED
      BY <1>2, <2>2, <3>2 DEF Inv, OnePlace
  <2>7. NothingForgotten'
    <3>1. \A d \in Chunk : d \in Waiting => d \in Waiting' \/ task'[r] = d
      BY <2>2, <2>3
    <3>2. \A v \in Slicer, d \in Chunk : task[v] = d => task'[v] = d
      BY <1>1, <1>2, ChunksAre DEF Only
    <3>3. \A w \in Writer : pc'[w] = pc[w] /\ task'[w] = task[w]
      BY <1>1, <1>2 DEF Only, Slicer
    <3> QED
      BY <1>1, <1>2, <3>1, <3>2, <3>3 DEF Inv, NothingForgotten
  <2>8. Answers'
    BY <1>2 DEF Inv, Answers
  <2> QED
    BY <1>4, <1>5, <2>4, <2>5, <2>6, <2>7, <2>8 DEF Inv, Places
<1>7. CASE readerQueue = <<>>
  <2>1. /\ pc' = [pc EXCEPT ![r] = "exited"] /\ readersClosed
        /\ task' = task /\ readerQueue' = readerQueue
    BY <1>7
  <2>2. pc'[r] = "exited" /\ Waiting' = Waiting
    BY <1>1, <2>1 DEF Waiting
  <2>3. Typed'
    BY <1>1, <2>1 DEF Inv, Places, Typed, TypeOK, Slicer
  <2>4. ClosedInOrder' /\ EndedIsEmpty' /\ AtWork'
    BY <1>1, <1>2, <1>7, <2>1, <2>2
       DEF Inv, Places, ClosedInOrder, EndedIsEmpty, Joined, AtWork, Only, Slicer
  <2>5. OnePlace'
    BY <1>2, <2>1, <2>2 DEF Inv, OnePlace
  <2>6. NothingForgotten'
    <3>1. \A w \in Writer : pc'[w] = pc[w] /\ task'[w] = task[w]
      BY <1>1, <1>2 DEF Only, Slicer
    <3> QED
      BY <1>2, <2>1, <2>2, <3>1 DEF Inv, NothingForgotten
  <2>7. Answers'
    BY <1>2 DEF Inv, Answers
  <2> QED
    BY <1>4, <1>5, <2>3, <2>4, <2>5, <2>6, <2>7 DEF Inv, Places
<1> QED
  BY <1>6, <1>7

\* A buffer goes from the pool to the chunk of a reader.
LEMMA AcquireKeeps == \A r \in Reader : Inv /\ Acquire(r) => Inv'
<1> SUFFICES ASSUME NEW r \in Reader, Inv, Acquire(r) PROVE Inv'
  OBVIOUS
<1> USE DEF Acquire, Goto, queues
<1> DEFINE c == task[r]
           b == Head(free)
<1>1. /\ r \in Slicer /\ r \notin Writer
      /\ pc \in [Slicer -> {"pop", "acquire", "read", "push", "write",
                            "release", "exited"}]
      /\ free \in Seq(Buffer) /\ c \in Chunk
      /\ buffer \in [Chunk -> Buffer \cup {None}]
  <2>1. c # None /\ r \in Slicer
    BY DEF Inv, Places, AtWork, Slicer
  <2> QED
    BY <2>1, ChunksAre, PipelineAssumption
       DEF Slicer, Inv, Places, Typed, TypeOK
<1>2. /\ b \in Buffer /\ free' \in Seq(Buffer) /\ b \in Pool
      /\ Pool = Pool' \cup {b} /\ b \notin Pool' /\ IsInjective(free')
  BY <1>1, TailIs DEF Inv, OneOwner, Pool
<1>3. /\ Only(r) /\ Waiting' = Waiting /\ Filled' = Filled
      /\ \A d : Written(d)' <=> Written(d)
      /\ pc'[r] = "read" /\ task' = task
  BY <1>1 DEF Only, Waiting, Filled, Written
<1>4. /\ buffer' \in [Chunk -> Buffer \cup {None}] /\ buffer'[c] = b
      /\ \A d \in Chunk : d # c => buffer'[d] = buffer[d]
  BY <1>1, <1>2
<1>5. ~Buffered(c) /\ \A v \in Slicer : v # r => task[v] # c
  <2>1. c \notin Filled /\ \A v \in Slicer : v # r => task[v] # c
    BY <1>1, ChunksAre DEF Inv, OnePlace
  <2> QED
    BY <1>1, <2>1 DEF Buffered, Slicer
<1>6. \A d \in Chunk : Buffered(d)' <=> Buffered(d) \/ d = c
  <2>1. \A q \in Reader : q # r => pc'[q] = pc[q]
    BY <1>3 DEF Only, Slicer
  <2> QED
    BY <1>3, <2>1 DEF Buffered
<1> HIDE DEF c
<1>7. Typed'
  BY <1>1, <1>2, <1>4 DEF Inv, Places, Typed, TypeOK
<1>8. ClosedInOrder' /\ EndedIsEmpty' /\ AtWork'
  BY <1>1, <1>3
     DEF Inv, Places, ClosedInOrder, EndedIsEmpty, Joined, AtWork, Only, Slicer, c
<1>9. OnePlace'
  BY <1>3 DEF Inv, OnePlace
<1>10. OneOwner'
  <2>1. buffer[c] = None
    BY <1>1, <1>5 DEF Inv, OneOwner
  <2>2. \A d \in Chunk : buffer[d] # b
    BY <1>2 DEF Inv, OneOwner
  <2>3. b # None
    BY <1>2, PipelineAssumption
  <2> HIDE DEF b
  <2>4. ASSUME NEW d \in Chunk
        PROVE  /\ buffer'[d] # None <=> Buffered(d)'
               /\ buffer'[d] \notin Pool'
               /\ \A e \in Chunk : d # e /\ buffer'[d] # None
                                     => buffer'[d] # buffer'[e]
    <3>1. CASE d = c
      BY <1>1, <1>2, <1>4, <1>6, <2>2, <2>3, <3>1
    <3>2. CASE d # c
      BY <1>1, <1>2, <1>4, <1>6, <2>2, <2>3, <3>2 DEF Inv, OneOwner
    <3> QED
      BY <3>1, <3>2
  <2>5. ASSUME NEW x \in Buffer
        PROVE  x \in Pool' \/ \E d \in Chunk : buffer'[d] = x
    <3>1. CASE x = b
      BY <1>1, <1>4, <3>1
    <3>2. CASE x \in Pool /\ x # b
      BY <1>2, <3>2
    <3>3. CASE \E d \in Chunk : buffer[d] = x
      <4>1. PICK d \in Chunk : buffer[d] = x
        BY <3>3
      <4>2. d # c
        BY <2>1, <4>1, PipelineAssumption
      <4> QED
        BY <1>4, <4>1, <4>2
    <3> QED
      BY <3>1, <3>2, <3>3 DEF Inv, OneOwner
  <2> QED
    BY <1>2, <2>4, <2>5 DEF OneOwner
<1>11. BytesInPlace'
  <2>1. \A d \in Chunk : d # c /\ Holding(d) => Holding(d)'
    BY <1>4 DEF Holding
  <2>2. c \notin Filled /\ Filled \subseteq Chunk
    BY <1>1, <1>5, ChunksAre DEF Buffered
  <2>3. \A q \in Reader : pc'[q] = "push" =>
           pc[q] = "push" /\ task[q] # c /\ task[q] \in Chunk
    BY <1>3, <1>5, ChunksAre DEF Only, Slicer, Inv, Places, AtWork
  <2>4. \A w \in Writer : pc'[w] = "write" =>
           pc[w] = "write" /\ task[w] # c /\ task[w] \in Chunk
    BY <1>1, <1>3, <1>5, ChunksAre DEF Only, Slicer, Inv, Places, AtWork
  <2> QED
    BY <1>3, <2>1, <2>2, <2>3, <2>4 DEF Inv, BytesInPlace
<1>12. NothingForgotten'
  <2>1. \A w \in Writer : pc'[w] = pc[w]
    BY <1>1, <1>3 DEF Only, Slicer
  <2> QED
    BY <1>3, <2>1 DEF Inv, NothingForgotten
<1>13. Answers'
  BY <1>3 DEF Inv, Answers
<1> QED
  BY <1>7, <1>8, <1>9, <1>10, <1>11, <1>12, <1>13 DEF Inv, Places
\* The bytes of a chunk go into its buffer, or its reading fails.
LEMMA ReadKeeps == \A r \in Reader : Inv /\ Read(r) => Inv'
<1> SUFFICES ASSUME NEW r \in Reader, Inv, Read(r) PROVE Inv'
  OBVIOUS
<1> USE DEF Read, Goto, queues
<1> DEFINE c == task[r]
<1>1. /\ r \in Slicer /\ r \notin Writer /\ c \in Chunk
      /\ pc \in [Slicer -> {"pop", "acquire", "read", "push", "write",
                            "release", "exited"}]
      /\ buffer \in [Chunk -> Buffer \cup {None}]
      /\ content \in [Buffer -> Chunk \cup {None}]
      /\ good \in [Chunk -> BOOLEAN]
  <2>1. c # None /\ r \in Slicer
    BY DEF Inv, Places, AtWork, Slicer
  <2> QED
    BY <2>1, ChunksAre, PipelineAssumption
       DEF Slicer, Inv, Places, Typed, TypeOK
<1>2. /\ Only(r) /\ Waiting' = Waiting /\ Filled' = Filled /\ Pool' = Pool
      /\ \A d : Written(d)' <=> Written(d)
      /\ pc'[r] = "push" /\ task' = task /\ buffer' = buffer
  BY <1>1 DEF Only, Waiting, Filled, Pool, Written
<1>3. c \notin Filled /\ \A v \in Slicer : v # r => task[v] # c
  BY <1>1, ChunksAre DEF Inv, OnePlace
<1>4. \A d \in Chunk : Buffered(d)' <=> Buffered(d)
  <2>1. \A q \in Reader : q # r => pc'[q] = pc[q]
    BY <1>2 DEF Only, Slicer
  <2> QED
    BY <1>2, <2>1 DEF Buffered
<1>5. buffer[c] \in Buffer
  <2>1. Buffered(c)
    BY DEF Buffered
  <2> QED
    BY <1>1, <2>1 DEF Inv, OneOwner
<1>6. Holding(c)' /\ \A d \in Chunk : Buffered(d) /\ Holding(d) => Holding(d)'
  <2>1. CASE content' = [content EXCEPT ![buffer[c]] = c] /\ UNCHANGED <<good, ok>>
    <3>1. \A d \in Chunk : Buffered(d) /\ d # c =>
             buffer[d] \in Buffer /\ buffer[d] # buffer[c]
      BY <1>1, <1>5 DEF Inv, OneOwner
    <3>2. content'[buffer[c]] = c
      BY <1>1, <1>5, <2>1
    <3>3. \A x \in Buffer : x # buffer[c] => content'[x] = content[x]
      BY <1>1, <2>1
    <3>4. c' = c
      BY <1>2
    <3> HIDE DEF c
    <3> QED
      BY <1>2, <2>1, <3>1, <3>2, <3>3, <3>4 DEF Holding
  <2>2. CASE good' = [good EXCEPT ![c] = FALSE] /\ UNCHANGED content
    <3>1. c' = c
      BY <1>2
    <3> HIDE DEF c
    <3> QED
      BY <1>1, <1>2, <2>2, <3>1 DEF Holding
  <2> QED
    BY <2>1, <2>2
<1>7. Typed'
  <2>1. content' \in [Buffer -> Chunk \cup {None}] /\ good' \in [Chunk -> BOOLEAN]
        /\ ok' \in BOOLEAN
    BY <1>1, <1>5 DEF Inv, Places, Typed, TypeOK
  <2> QED
    BY <1>1, <2>1 DEF Inv, Places, Typed, TypeOK
<1>8. ClosedInOrder' /\ EndedIsEmpty' /\ AtWork'
  BY <1>1, <1>2
     DEF Inv, Places, ClosedInOrder, EndedIsEmpty, Joined, AtWork, Only, Slicer
<1>9. OnePlace'
  BY <1>2 DEF Inv, OnePlace
<1>10. OneOwner'
  BY <1>2, <1>4 DEF Inv, OneOwner
<1>11. BytesInPlace'
  <2>1. ASSUME NEW d \in Filled PROVE Holding(d)'
    BY <1>6, ChunksAre DEF Inv, BytesInPlace, Buffered
  <2>2. ASSUME NEW q \in Reader, pc'[q] = "push" PROVE Holding(task[q])'
    <3>1. CASE q = r
      BY <1>2, <1>6, <3>1
    <3>2. CASE q # r
      <4>1. pc[q] = "push" /\ task[q] \in Chunk
        BY <1>2, <2>2, <3>2, ChunksAre DEF Only, Slicer, Inv, Places, AtWork
      <4>2. Buffered(task[q])
        BY <4>1 DEF Buffered
      <4> QED
        BY <1>2, <1>6, <4>1, <4>2 DEF Inv, BytesInPlace
    <3> QED
      BY <3>1, <3>2
  <2>3. ASSUME NEW w \in Writer, pc'[w] = "write"
        PROVE  good'[task[w]] /\ Holding(task[w])'
    <3>1. pc[w] = "write" /\ task[w] \in Chunk /\ task[w] # c
      BY <1>1, <1>2, <1>3, <2>3, ChunksAre
         DEF Only, Slicer, Inv, Places, AtWork
    <3>2. Buffered(task[w])
      BY <3>1 DEF Buffered
    <3>3. good'[task[w]] = good[task[w]]
      BY <1>1, <3>1
    <3> QED
      BY <1>2, <1>6, <3>1, <3>2, <3>3 DEF Inv, BytesInPlace
  <2> QED
    BY <1>2, <2>1, <2>2, <2>3 DEF Inv, BytesInPlace
<1>12. NothingForgotten'
  <2>1. \A w \in Writer : pc'[w] = pc[w]
    BY <1>1, <1>2 DEF Only, Slicer
  <2>2. ok' => ok /\ good' = good
    OBVIOUS
  <2> QED
    BY <1>2, <2>1, <2>2 DEF Inv, NothingForgotten
<1>13. Answers'
  <2>1. main # "returned"
    BY <1>1 DEF Inv, Places, ClosedInOrder, Joined
  <2> QED
    BY <1>2, <2>1 DEF Inv, Answers
<1> QED
  BY <1>7, <1>8, <1>9, <1>10, <1>11, <1>12, <1>13 DEF Inv, Places

\* A chunk goes from a reader to the writers' queue, which is open.
LEMMA PushToWritersKeeps == \A r \in Reader : Inv /\ PushToWriters(r) => Inv'
<1> SUFFICES ASSUME NEW r \in Reader, Inv, PushToWriters(r) PROVE Inv'
  OBVIOUS
<1> USE DEF PushToWriters, Goto, chunkTasks, pool
<1> DEFINE c == task[r]
<1>1. /\ r \in Slicer /\ r \notin Writer /\ c \in Chunk
      /\ pc \in [Slicer -> {"pop", "acquire", "read", "push", "write",
                            "release", "exited"}]
      /\ task \in [Slicer -> Chunk \cup {None}]
      /\ writerQueue \in Seq(Chunk)
  <2>1. c # None /\ r \in Slicer
    BY DEF Inv, Places, AtWork, Slicer
  <2> QED
    BY <2>1, ChunksAre, PipelineAssumption
       DEF Slicer, Inv, Places, Typed, TypeOK
<1>2. /\ Only(r) /\ Waiting' = Waiting /\ Pool' = Pool
      /\ \A d : Written(d)' <=> Written(d)
      /\ \A d : Holding(d)' <=> Holding(d)
      /\ pc'[r] = "pop" /\ task'[r] = None
  BY <1>1 DEF Only, Waiting, Pool, Written, Holding
<1>3. /\ c \notin Filled /\ c \notin Waiting /\ c <= pushed
      /\ \A v \in Slicer : v # r => task[v] # c
  BY <1>1, ChunksAre DEF Inv, OnePlace
<1>4. /\ writerQueue' \in Seq(Chunk) /\ Filled' = Filled \cup {c}
      /\ IsInjective(writerQueue')
  <2>1. ~writersClosed
    BY DEF Inv, Places, ClosedInOrder, Joined
  <2> QED
    BY <1>1, <1>3, <2>1, AppendIs DEF Inv, OnePlace, Filled
<1>5. \A d \in Chunk : Buffered(d)' <=> Buffered(d)
  <2>1. \A q \in Reader : q # r => pc'[q] = pc[q] /\ task'[q] = task[q]
    BY <1>2 DEF Only, Slicer
  <2>2. \A w \in Writer : task'[w] = task[w]
    BY <1>1, <1>2 DEF Only, Slicer
  <2>3. Buffered(c)
    BY DEF Buffered
  <2>4. None \notin Chunk
    BY ChunksAre
  <2> QED
    BY <1>2, <1>4, <2>1, <2>2, <2>3, <2>4 DEF Buffered
<1>6. Holding(c)
  BY DEF Inv, BytesInPlace
<1> HIDE DEF c
<1>7. Typed'
  BY <1>1, <1>4 DEF Inv, Places, Typed, TypeOK
<1>8. ClosedInOrder' /\ EndedIsEmpty' /\ AtWork'
  <2>1. \A w \in Writer : pc[w] # "exited"
    BY <1>1, PipelineAssumption
       DEF Inv, Places, ClosedInOrder, EndedIsEmpty, Joined
  <2> QED
    BY <1>1, <1>2, <2>1
       DEF Inv, Places, ClosedInOrder, EndedIsEmpty, Joined, AtWork, Only, Slicer
<1>9. OnePlace'
  <2>1. ASSUME NEW v \in Slicer, task'[v] # None
        PROVE  /\ task'[v] <= pushed /\ task'[v] \notin Waiting
               /\ task'[v] \notin Filled'
               /\ \A u \in Slicer : u # v => task'[u] # task'[v]
    <3>1. v # r /\ task'[v] = task[v] /\ task[v] # c
      BY <1>2, <1>3, <2>1 DEF Only
    <3>2. \A u \in Slicer : u # v => task'[u] = task[u] \/ task'[u] = None
      BY <1>2 DEF Only
    <3> QED
      BY <1>4, <2>1, <3>1, <3>2 DEF Inv, OnePlace
  <2> QED
    BY <1>2, <1>3, <1>4, <2>1 DEF Inv, OnePlace
<1>10. OneOwner'
  BY <1>2, <1>5 DEF Inv, OneOwner
<1>11. BytesInPlace'
  <2>1. \A q \in Reader : pc'[q] = "push" => pc[q] = "push" /\ task'[q] = task[q]
    BY <1>2 DEF Only, Slicer
  <2>2. \A w \in Writer : task'[w] = task[w] /\ pc'[w] = pc[w]
    BY <1>1, <1>2 DEF Only, Slicer
  <2> QED
    BY <1>2, <1>4, <1>6, <2>1, <2>2 DEF Inv, BytesInPlace
<1>12. NothingForgotten'
  <2>1. \A w \in Writer : task'[w] = task[w] /\ pc'[w] = pc[w]
    BY <1>1, <1>2 DEF Only, Slicer
  <2>2. \A v \in Slicer, d \in Chunk : task[v] = d => task'[v] = d \/ d \in Filled'
    BY <1>2, <1>4 DEF Only, c
  <2> QED
    BY <1>2, <1>4, <2>1, <2>2 DEF Inv, NothingForgotten
<1>13. Answers'
  BY <1>2 DEF Inv, Answers
<1> QED
  BY <1>7, <1>8, <1>9, <1>10, <1>11, <1>12, <1>13 DEF Inv, Places
-----------------------------------------------------------------------------
\* A chunk goes from the writers' queue to a writer.
LEMMA WriterPopsKeeps == \A w \in Writer : Inv /\ WriterPops(w) => Inv'
<1> SUFFICES ASSUME NEW w \in Writer, Inv, WriterPops(w) PROVE Inv'
  OBVIOUS
<1> USE DEF WriterPops, Goto, chunkTasks, pool
<1>1. /\ w \in Slicer /\ w \notin Reader
      /\ pc \in [Slicer -> {"pop", "acquire", "read", "push", "write",
                            "release", "exited"}]
      /\ task \in [Slicer -> Chunk \cup {None}]
      /\ writerQueue \in Seq(Chunk) /\ task[w] = None
  BY PipelineAssumption DEF Slicer, Inv, Places, Typed, TypeOK, AtWork
<1>2. /\ Only(w) /\ Waiting' = Waiting /\ Pool' = Pool
      /\ \A c : Written(c)' <=> Written(c)
      /\ \A c : Holding(c)' <=> Holding(c)
  BY <1>1 DEF Only, Waiting, Pool, Written, Holding
<1>3. \A q \in Reader : task'[q] = task[q] /\ pc'[q] = pc[q]
  BY <1>1, <1>2 DEF Only, Slicer
<1>4. CASE writerQueue # <<>>
  <2> DEFINE c == Head(writerQueue)
  <2>1. /\ task' = [task EXCEPT ![w] = c]
        /\ pc' = [pc EXCEPT ![w] = IF good[c] THEN "write" ELSE "release"]
        /\ writerQueue' = Tail(writerQueue)
    BY <1>4
  <2>2. /\ c \in Chunk /\ writerQueue' \in Seq(Chunk) /\ c \in Filled
        /\ Filled = Filled' \cup {c} /\ c \notin Filled'
        /\ IsInjective(writerQueue')
    BY <1>1, <1>4, <2>1, TailIs DEF Inv, OnePlace, Filled
  <2> HIDE DEF c
  <2>3. /\ task'[w] = c /\ c # None
        /\ pc'[w] = IF good[c] THEN "write" ELSE "release"
    BY <1>1, <2>1, <2>2, ChunksAre
  <2>4. \A d \in Chunk : Buffered(d)' <=> Buffered(d)
    <3>1. \A v \in Writer : v # w => task'[v] = task[v]
      BY <1>2 DEF Only, Slicer
    <3> QED
      BY <1>1, <1>3, <2>2, <2>3, <3>1, ChunksAre DEF Buffered
  <2>5. Typed'
    BY <1>1, <2>1, <2>2 DEF Inv, Places, Typed, TypeOK, Slicer
  <2>6. ClosedInOrder' /\ EndedIsEmpty' /\ AtWork'
    <3>1. \A v \in Writer : pc[v] # "exited"
      BY <1>4 DEF Inv, Places, EndedIsEmpty
    <3>2. \A v \in Writer : pc'[v] # "exited"
      BY <1>2, <2>3, <3>1 DEF Only, Slicer
    <3>3. ClosedInOrder' /\ EndedIsEmpty'
      BY <1>1, <1>3, <3>1, <3>2
         DEF Inv, Places, ClosedInOrder, EndedIsEmpty, Joined
    <3>4. AtWork'
      BY <1>1, <1>2, <1>3, <2>3 DEF Inv, Places, AtWork, Only, Slicer
    <3> QED
      BY <3>3, <3>4
  <2>7. OnePlace'
    <3>1. c <= pushed /\ c \notin Waiting /\ \A v \in Slicer : task[v] # c
      BY <2>2, <2>3 DEF Inv, OnePlace
    <3>2. ASSUME NEW v \in Slicer, task'[v] # None
          PROVE  /\ task'[v] <= pushed /\ task'[v] \notin Waiting
                 /\ task'[v] \notin Filled'
                 /\ \A u \in Slicer : u # v => task'[u] # task'[v]
      <4>1. CASE v = w
        BY <1>2, <2>2, <2>3, <3>1, <4>1 DEF Only
      <4>2. CASE v # w
        BY <1>2, <2>2, <2>3, <3>1, <3>2, <4>2 DEF Only, Inv, OnePlace
      <4> QED
        BY <4>1, <4>2
    <3> QED
      BY <1>2, <2>2, <3>2 DEF Inv, OnePlace
  <2>8. OneOwner'
    BY <1>2, <2>4 DEF Inv, OneOwner
  <2>9. BytesInPlace'
    <3>1. ASSUME NEW v \in Writer, pc'[v] = "write"
          PROVE  good[task'[v]] /\ Holding(task'[v])
      <4>1. CASE v = w
        BY <2>2, <2>3, <3>1, <4>1 DEF Inv, BytesInPlace
      <4>2. CASE v # w
        BY <1>2, <3>1, <4>2 DEF Only, Slicer, Inv, BytesInPlace
      <4> QED
        BY <4>1, <4>2
    <3> QED
      BY <1>2, <1>3, <2>2, <3>1 DEF Inv, BytesInPlace
  <2>10. NothingForgotten'
    <3>1. \A d \in Chunk : d \in Filled => d \in Filled' \/ task'[w] = d
      BY <2>2, <2>3
    <3>2. \A v \in Slicer, d \in Chunk : task[v] = d => task'[v] = d
      BY <1>1, <1>2, ChunksAre DEF Only
    <3>3. ok => \A v \in Writer : pc'[v] = "release" =>
                  pc[v] = "release" /\ task'[v] = task[v]
      BY <1>2, <2>2, <2>3 DEF Only, Slicer, Inv, NothingForgotten
    <3> QED
      BY <1>1, <1>2, <3>1, <3>2, <3>3 DEF Inv, NothingForgotten
  <2>11. Answers'
    BY <1>2 DEF Inv, Answers
  <2> QED
    BY <2>5, <2>6, <2>7, <2>8, <2>9, <2>10, <2>11 DEF Inv, Places
<1>5. CASE writerQueue = <<>>
  <2>1. /\ pc' = [pc EXCEPT ![w] = "exited"] /\ writersClosed
        /\ task' = task /\ writerQueue' = writerQueue
    BY <1>5
  <2>2. pc'[w] = "exited" /\ Filled' = Filled
    BY <1>1, <2>1 DEF Filled
  <2>3. \A d \in Chunk : Buffered(d)' <=> Buffered(d)
    BY <1>3, <2>1, <2>2 DEF Buffered
  <2>4. Typed'
    BY <1>1, <2>1 DEF Inv, Places, Typed, TypeOK, Slicer
  <2>5. ClosedInOrder' /\ EndedIsEmpty' /\ AtWork'
    BY <1>1, <1>2, <1>3, <1>5, <2>1, <2>2
       DEF Inv, Places, ClosedInOrder, EndedIsEmpty, Joined, AtWork, Only, Slicer
  <2>6. OnePlace'
    BY <1>2, <2>1, <2>2 DEF Inv, OnePlace
  <2>7. OneOwner'
    BY <1>2, <2>3 DEF Inv, OneOwner
  <2>8. BytesInPlace'
    <3>1. \A v \in Writer : pc'[v] = "write" => pc[v] = "write"
      BY <1>2, <2>2 DEF Only, Slicer
    <3> QED
      BY <1>2, <1>3, <2>1, <2>2, <3>1 DEF Inv, BytesInPlace
  <2>9. NothingForgotten'
    <3>1. \A v \in Writer : pc'[v] = "release" => pc[v] = "release"
      BY <1>2, <2>2 DEF Only, Slicer
    <3> QED
      BY <1>2, <2>1, <2>2, <3>1 DEF Inv, NothingForgotten
  <2>10. Answers'
    BY <1>2 DEF Inv, Answers
  <2> QED
    BY <2>4, <2>5, <2>6, <2>7, <2>8, <2>9, <2>10 DEF Inv, Places
<1> QED
  BY <1>4, <1>5

\* The file of a writer's chunk gets the bytes of its buffer, or a failure
\* is reported.
LEMMA WriteKeeps == \A w \in Writer : Inv /\ Write(w) => Inv'
<1> SUFFICES ASSUME NEW w \in Writer, Inv, Write(w) PROVE Inv'
  OBVIOUS
<1> USE DEF Write, Goto, queues, chunkTasks, pool
<1> DEFINE c == task[w]
<1>1. /\ w \in Slicer /\ w \notin Reader /\ c \in Chunk
      /\ pc \in [Slicer -> {"pop", "acquire", "read", "push", "write",
                            "release", "exited"}]
      /\ files \in [Chunk -> Chunk \cup {None, Torn}]
  <2>1. c # None /\ w \in Slicer
    BY DEF Inv, Places, AtWork, Slicer
  <2> QED
    BY <2>1, ChunksAre, PipelineAssumption
       DEF Slicer, Inv, Places, Typed, TypeOK
<1>2. /\ Only(w) /\ Waiting' = Waiting /\ Filled' = Filled /\ Pool' = Pool
      /\ \A d : Holding(d)' <=> Holding(d)
      /\ pc'[w] = "release" /\ task' = task
  BY <1>1 DEF Only, Waiting, Filled, Pool, Holding
<1>3. \A q \in Reader : pc'[q] = pc[q]
  BY <1>1, <1>2 DEF Only, Slicer
<1>4. \A d \in Chunk : Buffered(d)' <=> Buffered(d)
  BY <1>2, <1>3 DEF Buffered
<1>5. /\ content[buffer[c]] = c
      /\ \A v \in Slicer : v # w => task[v] # c
  BY <1>1, ChunksAre DEF Inv, BytesInPlace, Holding, OnePlace
<1>6. /\ files'[c] \in {files[c], c, Torn} /\ (ok' => ok /\ files'[c] \in {c, Torn})
      /\ \A d \in Chunk : d # c => files'[d] = files[d]
      /\ files' \in [Chunk -> Chunk \cup {None, Torn}]
  <2> HIDE DEF c
  <2> QED
    BY <1>1, <1>5 DEF c
<1>7. \A d \in Chunk : Written(d) => Written(d)'
  <2>1. c \in Chunk /\ c' = c
    BY <1>1, <1>2
  <2> HIDE DEF c
  <2>2. ASSUME NEW d \in Chunk, Written(d) PROVE Written(d)'
    <3>1. CASE d = c
      BY <1>6, <2>2, <3>1 DEF Written
    <3>2. CASE d # c
      BY <1>6, <2>2, <3>2 DEF Written
    <3> QED
      BY <3>1, <3>2
  <2> QED
    BY <2>2
<1>8. Typed'
  <2>1. ok' \in BOOLEAN
    BY DEF Inv, Places, Typed, TypeOK
  <2> QED
    BY <1>1, <1>6, <2>1 DEF Inv, Places, Typed, TypeOK
<1>9. ClosedInOrder' /\ EndedIsEmpty' /\ AtWork'
  BY <1>1, <1>2, <1>3
     DEF Inv, Places, ClosedInOrder, EndedIsEmpty, Joined, AtWork, Only, Slicer
<1>10. OnePlace'
  BY <1>2 DEF Inv, OnePlace
<1>11. OneOwner'
  BY <1>2, <1>4 DEF Inv, OneOwner
<1>12. BytesInPlace'
  <2>1. \A v \in Writer : pc'[v] = "write" => pc[v] = "write"
    BY <1>2 DEF Only, Slicer
  <2>2. \A d \in Chunk : files'[d] \in {None, Torn, d}
    BY <1>6 DEF Inv, BytesInPlace
  <2> QED
    BY <1>2, <1>3, <2>1, <2>2 DEF Inv, BytesInPlace
<1>13. NothingForgotten'
  <2>1. ASSUME ok', NEW v \in Writer, pc'[v] = "release"
        PROVE  Written(task[v])'
    <3>1. CASE v = w
      BY <1>2, <1>6, <2>1, <3>1 DEF Written
    <3>2. CASE v # w
      <4>1. pc[v] = "release" /\ task[v] \in Chunk
        BY <1>2, <2>1, <3>2, ChunksAre
           DEF Only, Slicer, Inv, Places, AtWork
      <4>2. Written(task[v])
        BY <1>6, <2>1, <4>1 DEF Inv, NothingForgotten
      <4>3. task'[v] = task[v]
        BY <1>2
      <4> QED
        BY <1>7, <4>1, <4>2, <4>3
    <3> QED
      BY <3>1, <3>2
  <2> QED
    BY <1>2, <1>6, <1>7, <2>1 DEF Inv, NothingForgotten
<1>14. Answers'
  <2>1. main # "returned"
    BY <1>1 DEF Inv, Places, ClosedInOrder, Joined
  <2> QED
    BY <1>7, <2>1 DEF Inv, Answers
<1> QED
  BY <1>8, <1>9, <1>10, <1>11, <1>12, <1>13, <1>14 DEF Inv, Places

\* A buffer goes from a writer's chunk back to the pool.
LEMMA ReleaseKeeps == \A w \in Writer : Inv /\ Release(w) => Inv'
<1> SUFFICES ASSUME NEW w \in Writer, Inv, Release(w) PROVE Inv'
  OBVIOUS
<1> USE DEF Release, Goto, queues
<1> DEFINE c == task[w]
           b == buffer[c]
<1>1. /\ w \in Slicer /\ w \notin Reader /\ c \in Chunk
      /\ pc \in [Slicer -> {"pop", "acquire", "read", "push", "write",
                            "release", "exited"}]
      /\ task \in [Slicer -> Chunk \cup {None}]
      /\ free \in Seq(Buffer)
      /\ buffer \in [Chunk -> Buffer \cup {None}]
  <2>1. c # None /\ w \in Slicer
    BY DEF Inv, Places, AtWork, Slicer
  <2> QED
    BY <2>1, ChunksAre, PipelineAssumption
       DEF Slicer, Inv, Places, Typed, TypeOK
<1>2. /\ Only(w) /\ Waiting' = Waiting /\ Filled' = Filled
      /\ \A d : Written(d)' <=> Written(d)
      /\ pc'[w] = "pop" /\ task'[w] = None
  BY <1>1 DEF Only, Waiting, Filled, Written
<1>3. /\ c \notin Filled /\ \A v \in Slicer : v # w => task[v] # c
  BY <1>1, ChunksAre DEF Inv, OnePlace
<1>4. b \in Buffer /\ b \notin Pool
  <2>1. Buffered(c)
    BY DEF Buffered
  <2> QED
    BY <1>1, <2>1 DEF Inv, OneOwner
<1>5. /\ free' \in Seq(Buffer) /\ Pool' = Pool \cup {b} /\ IsInjective(free')
  BY <1>1, <1>4, AppendIs DEF Inv, OneOwner, Pool
<1>6. /\ buffer' \in [Chunk -> Buffer \cup {None}] /\ buffer'[c] = None
      /\ \A d \in Chunk : d # c => buffer'[d] = buffer[d]
  BY <1>1
<1>7. \A q \in Reader : task'[q] = task[q] /\ pc'[q] = pc[q]
  BY <1>1, <1>2 DEF Only, Slicer
<1>8. \A d \in Chunk : Buffered(d)' <=> Buffered(d) /\ d # c
  <2>1. \A v \in Writer : v # w => task'[v] = task[v] /\ task[v] # c
    BY <1>2, <1>3 DEF Only, Slicer
  <2>2. \A q \in Reader : task[q] # c
    BY <1>1, <1>3 DEF Slicer
  <2>3. None \notin Chunk
    BY ChunksAre
  <2> QED
    BY <1>2, <1>3, <1>7, <2>1, <2>2, <2>3 DEF Buffered
<1> HIDE DEF c, b
<1>9. Typed'
  BY <1>1, <1>5, <1>6 DEF Inv, Places, Typed, TypeOK
<1>10. ClosedInOrder' /\ EndedIsEmpty' /\ AtWork'
  BY <1>1, <1>2, <1>7
     DEF Inv, Places, ClosedInOrder, EndedIsEmpty, Joined, AtWork, Only, Slicer
<1>11. OnePlace'
  <2>1. \A u \in Slicer : task'[u] = task[u] \/ task'[u] = None
    BY <1>2 DEF Only
  <2>2. ASSUME NEW v \in Slicer, task'[v] # None
        PROVE  /\ task'[v] <= pushed /\ task'[v] \notin Waiting
               /\ task'[v] \notin Filled
               /\ \A u \in Slicer : u # v => task'[u] # task'[v]
    BY <2>1, <2>2 DEF Inv, OnePlace
  <2> QED
    BY <1>2, <2>2 DEF Inv, OnePlace
<1>12. OneOwner'
  <2>1. ASSUME NEW d \in Chunk
        PROVE  /\ buffer'[d] # None <=> Buffered(d)'
               /\ buffer'[d] \notin Pool'
               /\ \A e \in Chunk : d # e /\ buffer'[d] # None
                                     => buffer'[d] # buffer'[e]
    <3>1. CASE d = c
      <4>1. None \notin Pool'
        BY <1>4, <1>5, PipelineAssumption DEF Pool, ToSet, Inv, Places, Typed, TypeOK
      <4> QED
        BY <1>6, <1>8, <3>1, <4>1
    <3>2. CASE d # c
      <4>1. buffer'[d] = buffer[d] /\ buffer[d] # b
        BY <1>1, <1>4, <1>6, <3>2, PipelineAssumption DEF Inv, OneOwner, b
      <4>2. ASSUME NEW e \in Chunk, d # e, buffer[d] # None
            PROVE  buffer[d] # buffer'[e]
        BY <1>6, <4>2 DEF Inv, OneOwner
      <4> QED
        BY <1>5, <1>8, <3>2, <4>1, <4>2 DEF Inv, OneOwner
    <3> QED
      BY <3>1, <3>2
  <2>2. ASSUME NEW x \in Buffer
        PROVE  x \in Pool' \/ \E d \in Chunk : buffer'[d] = x
    <3>1. CASE x = b \/ x \in Pool
      BY <1>5, <3>1
    <3>2. CASE x # b /\ \E d \in Chunk : buffer[d] = x
      BY <1>6, <3>2 DEF b
    <3> QED
      BY <3>1, <3>2 DEF Inv, OneOwner
  <2> QED
    BY <1>5, <2>1, <2>2 DEF OneOwner
<1>13. BytesInPlace'
  <2>1. \A d \in Chunk : d # c /\ Holding(d) => Holding(d)'
    BY <1>6 DEF Holding
  <2>2. \A q \in Reader : pc[q] = "push" => task[q] # c /\ task[q] \in Chunk
    BY <1>1, <1>3, ChunksAre DEF Slicer, Inv, Places, AtWork
  <2>3. \A v \in Writer : pc'[v] = "write" =>
           /\ pc[v] = "write" /\ task'[v] = task[v]
           /\ task[v] # c /\ task[v] \in Chunk
    BY <1>1, <1>2, <1>3, ChunksAre DEF Only, Slicer, Inv, Places, AtWork
  <2> QED
    BY <1>2, <1>3, <1>7, <2>1, <2>2, <2>3, ChunksAre DEF Inv, BytesInPlace
<1>14. NothingForgotten'
  <2>1. ok => Written(c)
    BY DEF Inv, NothingForgotten, c
  <2>2. \A v \in Slicer, d \in Chunk : task[v] = d => task'[v] = d \/ d = c
    BY <1>2 DEF Only, c
  <2>3. \A v \in Writer : pc'[v] = "release" =>
           pc[v] = "release" /\ task'[v] = task[v]
    BY <1>2 DEF Only, Slicer
  <2> QED
    BY <1>2, <2>1, <2>2, <2>3 DEF Inv, NothingForgotten
<1>15. Answers'
  BY <1>2 DEF Inv, Answers
<1> QED
  BY <1>9, <1>10, <1>11, <1>12, <1>13, <1>14, <1>15 DEF Inv, Places
-----------------------------------------------------------------------------
\* Every step keeps the invariant.
LEMMA NextInv == Inv /\ [Next]_vars => Inv'
<1> SUFFICES ASSUME Inv, [Next]_vars PROVE Inv'
  OBVIOUS
<1>1. CASE Main
  BY <1>1, ProbeKeeps, PushKeeps, CloseReadersKeeps, CloseWritersKeeps,
     StopFlushKeeps, ReturnKeeps, FileSlicerKeeps DEF Main
<1>2. CASE \E r \in Reader : Read1(r)
  BY <1>2, ReaderPopsKeeps, AcquireKeeps, ReadKeeps, PushToWritersKeeps DEF Read1
<1>3. CASE \E w \in Writer : Write1(w)
  BY <1>3, WriterPopsKeeps, WriteKeeps, ReleaseKeeps DEF Write1
<1>4. CASE FlushLoop
  BY <1>4, FlushLoopKeeps
<1>5. CASE UNCHANGED vars
  BY <1>5, StutterKeeps
<1> QED
  BY <1>1, <1>2, <1>3, <1>4, <1>5 DEF Next

\* The places of chunks, the owners of buffers and what is in them are as
\* the invariant says in every execution of slice().
THEOREM PipelineInv == Spec => []Inv
<1> QED
  BY InitInv, NextInv, PTL DEF Spec

\* No chunk is ever read over the bytes of another one, and no output file
\* holds another chunk's bytes (ReaderWorker.cpp:37, WriterWorker.cpp:49).
THEOREM BytesStayApart == Spec => []BytesNeverMix
<1>1. Inv => BytesNeverMix
  BY DEF Inv, Places, Typed, OneOwner, BytesInPlace, BytesNeverMix, Pool
<1> QED
  BY <1>1, PipelineInv, PTL

\* slice() and FileSlicer::slice return TRUE only when every chunk was
\* written: no task is dropped by a closed queue and no failure forgotten,
\* but that of a close (ChunkManager.cpp:79-103, FileSlicer.cpp:84-105).
THEOREM TrueIsComplete == Spec => []TrueMeansComplete
<1>1. Inv => TrueMeansComplete
  <2> SUFFICES ASSUME Inv, main \in {"returned", "sliced"}, result,
                      NEW c \in Chunk
               PROVE  files[c] \in {c, Torn}
    BY DEF TrueMeansComplete
  <2>1. pushed = Chunks /\ c <= pushed
    BY PipelineAssumption
       DEF Inv, Answers, Places, ClosedInOrder, Chunk
  <2>2. CASE main = "sliced"
    BY <2>1, <2>2 DEF Inv, Answers, Written
  <2>3. CASE main = "returned"
    <3>1. \A v \in Slicer : task[v] = None
      BY <2>3 DEF Inv, Places, ClosedInOrder, Joined, AtWork, Slicer
    <3>2. readerQueue = <<>> /\ writerQueue = <<>>
      BY <2>3, PipelineAssumption
         DEF Inv, Places, ClosedInOrder, Joined, EndedIsEmpty
    <3>3. Waiting = {} /\ Filled = {}
      BY <3>2 DEF Waiting, Filled, ToSet
    <3> QED
      BY <2>1, <2>3, <3>1, <3>3, ChunksAre
         DEF Inv, Answers, NothingForgotten, Written
  <2> QED
    BY <2>2, <2>3
<1> QED
  BY <1>1, PipelineInv, PTL

\* When slice() returns, its workers have ended, its queues are empty and
\* all buffers are back, after failures too (ReaderWorker.cpp:39-45,
\* WriterWorker.cpp:35-40).
THEOREM ReturnIsClean == Spec => []ReturnsClean
<1>1. Inv => ReturnsClean
  <2> SUFFICES ASSUME Inv, main = "returned" PROVE ReturnsClean
    BY DEF ReturnsClean
  <2>1. Joined(Slicer)
    BY DEF Inv, Places, ClosedInOrder, Joined, Slicer
  <2>2. readerQueue = <<>> /\ writerQueue = <<>>
    BY <2>1, PipelineAssumption DEF Inv, Places, EndedIsEmpty, Joined, Slicer
  <2>3. \A v \in Slicer : task[v] = None
    BY <2>1 DEF Inv, Places, AtWork, Joined, Slicer
  <2>4. Filled = {}
    BY <2>2 DEF Filled, ToSet
  <2>5. \A c \in Chunk : ~Buffered(c)
    BY <2>3, <2>4, ChunksAre DEF Buffered, Slicer
  <2>6. Pool = Buffer
    <3>1. Pool \subseteq Buffer
      BY DEF Pool, ToSet, Inv, Places, Typed, TypeOK
    <3>2. \A b \in Buffer : b \in Pool
      BY <2>5, PipelineAssumption DEF Inv, OneOwner
    <3> QED
      BY <3>1, <3>2
  <2> QED
    BY <2>1, <2>2, <2>6 DEF ReturnsClean, Slicer, Pool
<1> QED
  BY <1>1, PipelineInv, PTL

\* What keeps slice() from standing still, the safety half of SliceReturns.
ReaderGoesOn(r) == \/ pc[r] = "pop" /\ (readerQueue # <<>> \/ readersClosed)
                   \/ pc[r] = "acquire" /\ free # <<>>
                   \/ pc[r] \in {"read", "push"}

WriterGoesOn(w) == \/ pc[w] = "pop" /\ (writerQueue # <<>> \/ writersClosed)
                   \/ pc[w] \in {"write", "release"}

SomebodyGoesOn ==
  main \in {"joinReaders", "joinWriters"} =>
    \/ main = "joinReaders" /\ Joined(Reader)
    \/ main = "joinWriters" /\ Joined(Writer)
    \/ \E r \in Reader : ReaderGoesOn(r)
    \/ \E w \in Writer : WriterGoesOn(w)

\* There are buffers, and one that is not in the pool is with a chunk that a
\* writer, or a reader past Acquire, has or will take.
LEMMA BufferIsComingBack ==
  ASSUME Inv, main = "joinReaders", free = <<>>
  PROVE  \/ \E r \in Reader : ReaderGoesOn(r)
         \/ \E w \in Writer : WriterGoesOn(w)
<1>1. PICK b \in Buffer : TRUE
  <2>1. Cardinality(Reader) \in Nat /\ Cardinality(Writer) \in Nat
    BY PipelineAssumption, FS_CardinalityType
  <2>2. Cardinality(Reader) # 0
    BY PipelineAssumption, FS_EmptySet
  <2>3. Cardinality(Buffer) # 0
    BY <2>1, <2>2, PipelineAssumption
  <2> QED
    BY <2>3, FS_EmptySet
<1>2. PICK c \in Chunk : buffer[c] = b
  <2>1. b \notin Pool
    BY DEF Pool, ToSet
  <2> QED
    BY <2>1 DEF Inv, OneOwner
<1>3. Buffered(c)
  <2>1. b # None
    BY PipelineAssumption
  <2> QED
    BY <1>2, <2>1 DEF Inv, OneOwner
<1>4. CASE c \in Filled
  <2>1. writerQueue # <<>>
    BY <1>4 DEF Filled, ToSet
  <2>2. PICK w \in Writer : TRUE
    BY PipelineAssumption
  <2>3. pc[w] \in {"pop", "write", "release", "exited"}
    BY DEF Inv, Places, Typed, AtWork, Slicer
  <2>4. pc[w] # "exited"
    BY <2>1 DEF Inv, Places, EndedIsEmpty
  <2> QED
    BY <2>1, <2>3, <2>4 DEF WriterGoesOn
<1>5. CASE \E r \in Reader : task[r] = c /\ pc[r] \in {"read", "push"}
  BY <1>5 DEF ReaderGoesOn
<1>6. CASE \E w \in Writer : task[w] = c
  <2>1. PICK w \in Writer : task[w] = c
    BY <1>6
  <2>2. task[w] # None
    BY <2>1, PipelineAssumption DEF Chunk
  <2>3. pc[w] \in {"pop", "write", "release", "exited"}
    BY DEF Inv, Places, Typed, AtWork, Slicer
  <2>4. pc[w] \in {"write", "release"}
    BY <2>2, <2>3 DEF Inv, Places, AtWork
  <2> QED
    BY <2>4 DEF WriterGoesOn
<1> QED
  BY <1>3, <1>4, <1>5, <1>6 DEF Buffered

\* While slice() joins its workers somebody can go on, for any number of
\* chunks, buffers, readers and writers: those who wait for a buffer, for a
\* task and for the end of another never all wait for each other
\* (ChunkManager.cpp:79-103).
THEOREM NobodyIsStuck == Spec => []SomebodyGoesOn
<1>1. ASSUME Inv, main \in {"joinReaders", "joinWriters"}
      PROVE  SomebodyGoesOn
  <2>1. CASE main = "joinReaders" /\ ~Joined(Reader)
    <3>1. PICK r \in Reader : pc[r] # "exited"
      BY <2>1 DEF Joined
    <3>2. pc[r] \in {"pop", "acquire", "read", "push"}
      BY <1>1, <3>1 DEF Inv, Places, Typed, AtWork, Slicer
    <3>3. readersClosed
      BY <1>1, <2>1 DEF Inv, Places, ClosedInOrder
    <3>4. CASE pc[r] = "acquire" /\ free = <<>>
      BY <1>1, <2>1, <3>4, BufferIsComingBack DEF SomebodyGoesOn
    <3>5. CASE ~(pc[r] = "acquire" /\ free = <<>>)
      BY <3>2, <3>3, <3>5 DEF SomebodyGoesOn, ReaderGoesOn
    <3> QED
      BY <3>4, <3>5
  <2>2. CASE main = "joinWriters" /\ ~Joined(Writer)
    <3>1. PICK w \in Writer : pc[w] # "exited"
      BY <2>2 DEF Joined
    <3>2. pc[w] \in {"pop", "write", "release"}
      BY <1>1, <3>1 DEF Inv, Places, Typed, AtWork, Slicer
    <3>3. writersClosed
      BY <1>1, <2>2 DEF Inv, Places, ClosedInOrder
    <3> QED
      BY <3>2, <3>3 DEF SomebodyGoesOn, WriterGoesOn
  <2> QED
    BY <1>1, <2>1, <2>2 DEF SomebodyGoesOn
<1>2. Inv => SomebodyGoesOn
  BY <1>1 DEF SomebodyGoesOn
<1> QED
  BY <1>2, PipelineInv, PTL

-----------------------------------------------------------------------------
(* TimerPool *)

\* OneShot is not inductive: what has to be known is which timers may still be
\* submitted, and that a timer submitted after its removal is not.

\* The timer is on its way to a submission, or may be once it is added.
Ahead(t) == \/ t \notin added \/ t \in ToSet(heap)
            \/ current = t /\ manager \in {"stopped?", "submit"}

\* A one-shot timer has not been submitted yet while it is.
SubmittedOnce ==
  \A t \in Timer : Ahead(t) /\ t \notin Repeats => shots[t] = 0

\* What has been submitted after its removal never gets to the heap again.
LateIsLast ==
  /\ manager = "submit" /\ current \in removed => current \in caught
  /\ \A t \in Timer : late[t] # 0 => t \in removed /\ ~Ahead(t)

\* A worker returns only when the pool is stopped.
FlagsAreSet ==
  /\ running \in BOOLEAN /\ poolRunning \in BOOLEAN
  /\ \A w \in Worker : worker[w] = "exited" => ~poolRunning

TimerPoolInv ==
  /\ OneShot /\ QuietOnceRemoved /\ NothingIsDropped
  /\ SubmittedOnce /\ LateIsLast /\ FlagsAreSet

\* A larger set of timers.
LEMMA SeqOfMore ==
  ASSUME NEW S, NEW T, S \subseteq T, NEW s \in Seq(S) PROVE s \in Seq(T)
  OBVIOUS

\* A timer pushed on the heap is in it once.
LEMMA PushIs ==
  ASSUME NEW t \in Timer, PushTimer(t), NEW S \in SUBSET Timer, heap \in Seq(S), t \in S,
         IsInjective(heap), t \notin ToSet(heap), left \in [Timer -> Nat]
  PROVE  /\ heap' \in Seq(S) /\ IsInjective(heap')
         /\ ToSet(heap') = ToSet(heap) \cup {t}
         /\ left' \in [Timer -> Nat]
<1>1. PICK k \in 1 .. Len(heap) + 1 : heap' = InsertAt(heap, k, t)
  BY DEF PushTimer, Inserted
<1>2. left' \in [Timer -> Nat]
  BY TimerAssumption DEF PushTimer
<1> QED
  BY <1>1, <1>2, InsertIs

\* Nothing is added, queued or submitted at the start.
LEMMA TimerPoolInit == TimerInit => TimerPoolInv
<1> SUFFICES ASSUME TimerInit PROVE TimerPoolInv
  OBVIOUS
<1>1. ToSet(heap) = {} /\ IsInjective(heap) /\ heap \in Seq(added) /\ tasks \in Seq(added)
  BY DEF TimerInit, ToSet, IsInjective
<1> QED
  BY <1>1 DEF TimerInit, TimerPoolInv, OneShot, QuietOnceRemoved, NothingIsDropped,
     SubmittedOnce, LateIsLast, FlagsAreSet, TimerTypeOK, Ahead, MutexHeld

\* Every step of the owner, the manager's thread and the workers keeps the
\* invariant.
LEMMA TimerPoolNext == TimerPoolInv /\ [TimerNext]_timerVars => TimerPoolInv'
<1> SUFFICES ASSUME TimerPoolInv, [TimerNext]_timerVars PROVE TimerPoolInv'
  OBVIOUS
<1> USE TimerAssumption
<1>0. /\ TimerTypeOK /\ OneShot /\ QuietOnceRemoved /\ NothingIsDropped
      /\ SubmittedOnce /\ LateIsLast /\ FlagsAreSet
  BY DEF TimerPoolInv, OneShot
<1>1. ASSUME NEW t \in Timer, AddTimer(t) PROVE TimerPoolInv'
  <2> USE DEF AddTimer, thread, threadPool, history
  <2>1. t \notin ToSet(heap) /\ heap \in Seq(added') /\ tasks \in Seq(added')
        /\ added' \subseteq Timer
    BY <1>0, <1>1, SeqOfMore DEF TimerTypeOK, ToSet
  <2>2. /\ heap' \in Seq(added') /\ IsInjective(heap') /\ left' \in [Timer -> Nat]
        /\ ToSet(heap') = ToSet(heap) \cup {t}
    BY <1>0, <1>1, <2>1, PushIs DEF TimerTypeOK
  <2>3. ~MutexHeld'
    BY <1>1 DEF MutexHeld
  <2>4. TimerTypeOK'
    BY <1>0, <1>1, <2>1, <2>2, <2>3 DEF TimerTypeOK
  <2>5. Ahead(t) /\ \A u \in Timer : Ahead(u)' <=> Ahead(u)
    BY <1>1, <2>2 DEF Ahead
  <2> QED
    BY <1>0, <1>1, <2>4, <2>5 DEF TimerPoolInv, OneShot, QuietOnceRemoved,
       NothingIsDropped, SubmittedOnce, LateIsLast, FlagsAreSet
<1>2. ASSUME NEW t \in Timer, RemoveTimer(t) PROVE TimerPoolInv'
  <2> USE DEF RemoveTimer, thread, threadPool
  <2>1. TimerTypeOK'
    BY <1>0, <1>2 DEF TimerTypeOK, MutexHeld
  <2>2. \A u \in Timer : Ahead(u)' <=> Ahead(u)
    BY <1>2 DEF Ahead
  <2> QED
    BY <1>0, <1>2, <2>1, <2>2 DEF TimerPoolInv, OneShot, QuietOnceRemoved,
       NothingIsDropped, SubmittedOnce, LateIsLast, FlagsAreSet
<1>3. ASSUME StopManager \/ StopPool \/ JoinPool PROVE TimerPoolInv'
  <2> USE DEF StopManager, StopPool, JoinPool, calls, thread, threadPool, history
  <2>1. TimerTypeOK'
    BY <1>0, <1>3 DEF TimerTypeOK, MutexHeld
  <2>2. \A u \in Timer : Ahead(u)' <=> Ahead(u)
    BY <1>3 DEF Ahead
  <2>3. OneShot' /\ QuietOnceRemoved' /\ SubmittedOnce' /\ LateIsLast'
    BY <1>0, <1>3, <2>1, <2>2 DEF OneShot, QuietOnceRemoved, SubmittedOnce, LateIsLast
  <2>4. (~poolRunning)' => manager' = "exited"
    BY <1>0, <1>3 DEF NothingIsDropped, FlagsAreSet
  <2>5. running' \in BOOLEAN /\ poolRunning' \in BOOLEAN
    BY <1>0, <1>3 DEF FlagsAreSet
  <2>6. ~poolRunning => (~poolRunning)'
    BY <1>0, <1>3 DEF FlagsAreSet
  <2>7. UNCHANGED <<worker, tasks>>
    BY <1>3
  <2> QED
    BY <1>0, <2>3, <2>4, <2>5, <2>6, <2>7
    DEF TimerPoolInv, NothingIsDropped, FlagsAreSet
<1>4. ASSUME Test \/ Sleep \/ CheckStopped PROVE TimerPoolInv'
  <2> USE DEF Test, Sleep, CheckStopped, calls, threadPool, history
  <2>1. TimerTypeOK'
    BY <1>0, <1>4 DEF TimerTypeOK, MutexHeld
  <2>2. \A u \in Timer : Ahead(u)' => Ahead(u)
    BY <1>4 DEF Ahead
  <2>3. \A u \in Timer : Ahead(u) => Ahead(u)' \/ (u = current /\ u \in removed)
    BY <1>4 DEF Ahead
  <2> QED
    BY <1>0, <1>4, <2>1, <2>2, <2>3 DEF TimerPoolInv, OneShot, QuietOnceRemoved,
       NothingIsDropped, SubmittedOnce, LateIsLast, FlagsAreSet
<1>5. ASSUME heap # <<>>, manager \in {"lock", "wait"}, LookAtTop,
             UNCHANGED <<owner, running, poolRunning, calls, left, threadPool, history>>
      PROVE  TimerPoolInv'
  <2> USE DEF LookAtTop, calls, threadPool, history
  <2>1. CASE UNCHANGED <<heap, current>> /\ manager' = "sleep" /\ sleep' = left[Head(heap)]
    <3>1. Head(heap) \in Timer
      BY <1>0, <1>5 DEF TimerTypeOK
    <3>2. TimerTypeOK'
      BY <1>0, <1>5, <2>1, <3>1 DEF TimerTypeOK, MutexHeld
    <3>3. \A u \in Timer : Ahead(u)' <=> Ahead(u)
      BY <1>5, <2>1 DEF Ahead
    <3> QED
      BY <1>0, <1>5, <2>1, <3>2, <3>3 DEF TimerPoolInv, OneShot, QuietOnceRemoved,
         NothingIsDropped, SubmittedOnce, LateIsLast, FlagsAreSet
  <2>2. CASE /\ heap' = Tail(heap) /\ current' = Head(heap)
             /\ manager' = "stopped?" /\ UNCHANGED sleep
    <3>1. /\ Head(heap) \in added /\ Tail(heap) \in Seq(added)
          /\ Head(heap) \notin ToSet(Tail(heap)) /\ IsInjective(Tail(heap))
          /\ ToSet(heap) = ToSet(Tail(heap)) \cup {Head(heap)}
      BY <1>0, <1>5, TailIs DEF TimerTypeOK
    <3>2. TimerTypeOK'
      BY <1>0, <1>5, <2>2, <3>1 DEF TimerTypeOK
    <3>3. \A u \in Timer : Ahead(u)' <=> Ahead(u)
      BY <1>5, <2>2, <3>1 DEF Ahead
    <3> QED
      BY <1>0, <1>5, <2>2, <3>2, <3>3 DEF TimerPoolInv, OneShot, QuietOnceRemoved,
         NothingIsDropped, SubmittedOnce, LateIsLast, FlagsAreSet
  <2> QED
    BY <1>5, <2>1, <2>2
<1>6. ASSUME manager \in {"lock", "wait"}, manager' \in {"wait", "exited"},
             manager' = "exited" => ~running,
             UNCHANGED <<owner, running, poolRunning, calls, heap, left, current,
                         sleep, threadPool, history>>
      PROVE  TimerPoolInv'
  <2> USE DEF calls, threadPool, history
  <2>1. TimerTypeOK'
    BY <1>0, <1>6 DEF TimerTypeOK, MutexHeld
  <2>2. \A u \in Timer : Ahead(u)' <=> Ahead(u)
    BY <1>6 DEF Ahead
  <2> QED
    BY <1>0, <1>6, <2>1, <2>2 DEF TimerPoolInv, OneShot, QuietOnceRemoved,
       NothingIsDropped, SubmittedOnce, LateIsLast, FlagsAreSet
<1>7. ASSUME Lock \/ Wait PROVE TimerPoolInv'
  BY <1>5, <1>6, <1>7 DEF Lock, Wait
<1>8. ASSUME Submit PROVE TimerPoolInv'
  <2> USE DEF Submit, calls
  <2>1. current \in added /\ current \notin ToSet(heap) /\ current \in Timer
    BY <1>0, <1>8 DEF TimerTypeOK, MutexHeld
  <2>2. tasks' \in Seq(added)
    BY <1>0, <1>8, <2>1, AppendIs DEF TimerTypeOK
  <2>3. shots' \in [Timer -> 0 .. 2] /\ late' \in [Timer -> 0 .. 2]
    <3>1. \A n \in 0 .. 2 : UpTo2(n) \in 0 .. 2
      BY DEF UpTo2
    <3>2. shots[current] \in 0 .. 2 /\ late[current] \in 0 .. 2
      BY <1>0, <2>1 DEF TimerTypeOK
    <3> QED
      BY <1>0, <1>8, <3>1, <3>2 DEF TimerTypeOK
  <2>4. TimerTypeOK'
    BY <1>0, <1>8, <2>1, <2>2, <2>3 DEF TimerTypeOK, MutexHeld
  <2>5. Ahead(current) /\ ~Ahead(current)'
        /\ \A u \in Timer : u # current => (Ahead(u)' <=> Ahead(u))
    BY <1>8, <2>1 DEF Ahead
  <2>6. ASSUME NEW u \in Timer
        PROVE  /\ u \notin Repeats => shots'[u] <= 1
               /\ Ahead(u)' /\ u \notin Repeats => shots'[u] = 0
    BY <1>0, <1>8, <2>1, <2>5
    DEF TimerTypeOK, OneShot, SubmittedOnce, UpTo2
  <2>7. late[current] = 0
    BY <1>0, <2>1, <2>5 DEF LateIsLast
  <2>8. ASSUME NEW u \in Timer
        PROVE  /\ late'[u] <= IF u \in caught THEN 1 ELSE 0
               /\ late'[u] # 0 => u \in removed /\ ~Ahead(u)'
    BY <1>0, <1>8, <2>1, <2>5, <2>7
    DEF TimerTypeOK, QuietOnceRemoved, LateIsLast, UpTo2
  <2>9. NothingIsDropped'
    BY <1>0, <1>8 DEF NothingIsDropped, FlagsAreSet
  <2> QED
    BY <1>0, <1>8, <2>4, <2>6, <2>8, <2>9 DEF TimerPoolInv, OneShot, QuietOnceRemoved,
       SubmittedOnce, LateIsLast, FlagsAreSet
<1>9. ASSUME Again PROVE TimerPoolInv'
  <2> USE DEF Again, calls, threadPool, history
  <2>1. current \in added /\ current \notin ToSet(heap) /\ current \in Timer
    BY <1>0, <1>9 DEF TimerTypeOK, MutexHeld
  <2>2. CASE current \in Repeats \ removed
    <3>1. /\ heap' \in Seq(added) /\ IsInjective(heap') /\ left' \in [Timer -> Nat]
          /\ ToSet(heap') = ToSet(heap) \cup {current}
      BY <1>0, <1>9, <2>1, <2>2, PushIs DEF TimerTypeOK
    <3>2. TimerTypeOK'
      BY <1>0, <1>9, <3>1 DEF TimerTypeOK, MutexHeld
    <3>3. \A u \in Timer : u # current => (Ahead(u)' <=> Ahead(u))
      BY <1>9, <3>1 DEF Ahead
    <3> QED
      BY <1>0, <1>9, <2>2, <3>2, <3>3 DEF TimerPoolInv, OneShot, QuietOnceRemoved,
         NothingIsDropped, SubmittedOnce, LateIsLast, FlagsAreSet
  <2>3. CASE current \notin Repeats \ removed
    <3>1. TimerTypeOK'
      BY <1>0, <1>9, <2>3 DEF TimerTypeOK, MutexHeld
    <3>2. \A u \in Timer : Ahead(u)' <=> Ahead(u)
      BY <1>9, <2>3 DEF Ahead
    <3> QED
      BY <1>0, <1>9, <2>3, <3>1, <3>2 DEF TimerPoolInv, OneShot, QuietOnceRemoved,
         NothingIsDropped, SubmittedOnce, LateIsLast, FlagsAreSet
  <2> QED
    BY <2>2, <2>3
<1>10. ASSUME NEW w \in Worker, NEW v \in added \cup {"idle", "exited"},
              worker' = [worker EXCEPT ![w] = v], tasks' \in Seq(added),
              tasks = <<>> => tasks' = <<>>,
              v = "exited" => tasks = <<>> /\ ~poolRunning,
              UNCHANGED <<owner, running, poolRunning, calls, heap, left, thread,
                          history>>
       PROVE  TimerPoolInv'
  <2> USE DEF calls, thread, history
  <2>1. TimerTypeOK'
    BY <1>0, <1>10 DEF TimerTypeOK, MutexHeld
  <2>2. \A u \in Timer : Ahead(u)' <=> Ahead(u)
    BY <1>10 DEF Ahead
  <2>3. OneShot' /\ QuietOnceRemoved' /\ SubmittedOnce' /\ LateIsLast'
    BY <1>0, <1>10, <2>1, <2>2
    DEF OneShot, QuietOnceRemoved, SubmittedOnce, LateIsLast
  <2>4. \A x \in Worker :
          worker'[x] = "exited" => worker[x] = "exited" \/ v = "exited"
    BY <1>0, <1>10 DEF TimerTypeOK
  <2>5. NothingIsDropped' /\ FlagsAreSet'
    BY <1>0, <1>10, <2>4 DEF NothingIsDropped, FlagsAreSet
  <2> QED
    BY <2>3, <2>5 DEF TimerPoolInv
<1>11. ASSUME NEW w \in Worker, Work(w) PROVE TimerPoolInv'
  <2>0. tasks \in Seq(added) /\ added \subseteq Timer
    BY <1>0 DEF TimerTypeOK
  <2>1. CASE TakeTask(w) /\ tasks # <<>>
    <3>1. Head(tasks) \in added /\ Tail(tasks) \in Seq(added)
      BY <2>0, <2>1, TailIs
    <3>2. Head(tasks) # "exited"
      BY <2>0, <3>1
    <3> QED
      BY <1>10, <1>11, <2>1, <3>1, <3>2 DEF TakeTask
  <2>2. CASE TakeTask(w) /\ tasks = <<>>
    BY <1>10, <1>11, <2>0, <2>2 DEF TakeTask
  <2>3. CASE RunTask(w)
    BY <1>10, <1>11, <2>0, <2>3 DEF RunTask
  <2> QED
    BY <1>11, <2>1, <2>2, <2>3 DEF Work
<1>13. ASSUME Tick PROVE TimerPoolInv'
  <2> USE DEF Tick, calls, threadPool, history
  <2>1. left' \in [Timer -> Nat] /\ sleep' \in Nat
    BY <1>0, <1>13 DEF TimerTypeOK
  <2>2. TimerTypeOK'
    BY <1>0, <1>13, <2>1 DEF TimerTypeOK, MutexHeld
  <2>3. \A u \in Timer : Ahead(u)' <=> Ahead(u)
    BY <1>13 DEF Ahead
  <2> QED
    BY <1>0, <1>13, <2>2, <2>3 DEF TimerPoolInv, OneShot, QuietOnceRemoved,
       NothingIsDropped, SubmittedOnce, LateIsLast, FlagsAreSet
<1>12. CASE UNCHANGED timerVars
  BY <1>0, <1>12 DEF timerVars, calls, thread, threadPool, history, TimerTypeOK,
     MutexHeld, Ahead, TimerPoolInv, OneShot, QuietOnceRemoved, NothingIsDropped,
     SubmittedOnce, LateIsLast, FlagsAreSet
<1> QED
  BY <1>1, <1>2, <1>3, <1>4, <1>7, <1>8, <1>9, <1>11, <1>13, <1>12
  DEF TimerNext, Destroy, Manager

\* The inductive invariant of the timer manager and its pool.
THEOREM TimerPoolInvHolds == TimerSpec => []TimerPoolInv
  BY TimerPoolInit, TimerPoolNext, PTL DEF TimerSpec

\* A timer that does not repeat is submitted to the pool at most once.
THEOREM OneShotFiresOnce == TimerSpec => []OneShot
<1>1. TimerPoolInv => OneShot
  BY DEF TimerPoolInv
<1> QED
  BY <1>1, TimerPoolInvHolds, PTL

\* After removeTimer a timer is not submitted, but for the one submission its
\* thread was about to make.
THEOREM RemovedIsQuiet == TimerSpec => []QuietOnceRemoved
<1>1. TimerPoolInv => QuietOnceRemoved
  BY DEF TimerPoolInv
<1> QED
  BY <1>1, TimerPoolInvHolds, PTL

\* A pool that has stopped and been joined has run every task submitted.
THEOREM TasksAreNotDropped == TimerSpec => []NothingIsDropped
<1>1. TimerPoolInv => NothingIsDropped
  BY DEF TimerPoolInv
<1> QED
  BY <1>1, TimerPoolInvHolds, PTL

\* The heap stays in the order of expiry.
HeapInOrder ==
  \A i, j \in DOMAIN heap : i <= j => left[heap[i]] <= left[heap[j]]

\* A push puts the timer behind those that expire before it.
LEMMA PushInOrder ==
  ASSUME TimerPoolInv, HeapInOrder, NEW t \in Timer, t \notin ToSet(heap),
         PushTimer(t)
  PROVE  HeapInOrder'
<1>1. /\ heap \in Seq(Timer) /\ left \in [Timer -> Nat] /\ Timeout[t] \in Nat
  BY TimerAssumption, SeqOfMore DEF TimerPoolInv, OneShot, TimerTypeOK
<1>2. PICK k \in 1 .. Len(heap) + 1 :
        /\ heap' = InsertAt(heap, k, t)
        /\ \A j \in 1 .. k - 1 : left[heap[j]] <= Timeout[t]
        /\ \A j \in k .. Len(heap) : left[heap[j]] >= Timeout[t]
  BY DEF PushTimer, Inserted
<1>3. /\ Len(heap') = Len(heap) + 1 /\ heap' \in Seq(Timer)
      /\ heap'[k] = t
      /\ \A i \in 1 .. k - 1 : heap'[i] = heap[i]
      /\ \A i \in k + 1 .. Len(heap) + 1 : heap'[i] = heap[i - 1]
  <2> DEFINE u == InsertAt(heap, k, t)
  <2>1. /\ u \in Seq(Timer) /\ Len(u) = Len(heap) + 1 /\ u[k] = t
        /\ \A i \in 1 .. k - 1 : u[i] = heap[i]
        /\ \A i \in k + 1 .. Len(heap) + 1 : u[i] = heap[i - 1]
    <3>1. heap \in Seq(Timer)
      BY <1>1
    <3> QED
      BY <3>1, InsertAtIs
  <2>2. heap' = u
    BY <1>2
  <2> HIDE DEF u
  <2> QED
    BY <2>1, <2>2
<1> DEFINE Left(i) == left'[heap'[i]]
<1>4. Left(k) = Timeout[t]
  BY <1>1, <1>3 DEF PushTimer
<1>5. ASSUME NEW j \in DOMAIN heap
      PROVE  /\ left'[heap[j]] = left[heap[j]] /\ left[heap[j]] \in Nat
             /\ j \in 1 .. Len(heap)
  <2>1. heap[j] \in Timer /\ heap[j] # t
    BY <1>1 DEF ToSet
  <2> QED
    BY <1>1, <2>1 DEF PushTimer
<1>6. ASSUME NEW i \in 1 .. k - 1
      PROVE  Left(i) = left[heap[i]] /\ i \in DOMAIN heap /\ Left(i) \in Nat
  <2>1. i \in DOMAIN heap
    BY <1>1
  <2> QED
    BY <1>3, <1>5, <2>1
<1>7. ASSUME NEW i \in k + 1 .. Len(heap) + 1
      PROVE  /\ Left(i) = left[heap[i - 1]] /\ i - 1 \in DOMAIN heap
             /\ i - 1 \in k .. Len(heap) /\ Left(i) \in Nat
  <2>1. i - 1 \in DOMAIN heap /\ i - 1 \in k .. Len(heap)
    BY <1>1
  <2> QED
    BY <1>3, <1>5, <2>1
<1>8. ASSUME NEW i \in 1 .. Len(heap) + 1, NEW j \in 1 .. Len(heap) + 1, i <= j
      PROVE  Left(i) <= Left(j)
  <2> HIDE DEF Left
  <2>1. CASE i < k /\ j < k
    BY <1>6, <1>8, <2>1 DEF HeapInOrder
  <2>2. CASE i < k /\ j = k
    BY <1>2, <1>4, <1>6, <2>2
  <2>3. CASE i < k /\ j > k
    <3>1. Left(i) <= Timeout[t] /\ Timeout[t] <= Left(j)
      BY <1>2, <1>6, <1>7, <2>3
    <3> QED
      BY <1>1, <1>6, <1>7, <2>3, <3>1
  <2>4. CASE i = k /\ j = k
    BY <1>1, <1>4, <2>4
  <2>5. CASE i = k /\ j > k
    BY <1>2, <1>4, <1>7, <2>5
  <2>6. CASE i > k
    <3>1. /\ i - 1 \in DOMAIN heap /\ j - 1 \in DOMAIN heap /\ i - 1 <= j - 1
          /\ Left(i) = left[heap[i - 1]] /\ Left(j) = left[heap[j - 1]]
      BY <1>7, <1>8, <2>6
    <3> QED
      BY <3>1 DEF HeapInOrder
  <2> QED
    BY <1>8, <2>1, <2>2, <2>3, <2>4, <2>5, <2>6
<1>9. DOMAIN heap' = 1 .. Len(heap) + 1
  BY <1>3
<1> QED
  BY <1>8, <1>9 DEF HeapInOrder

\* A pop takes the first, and a tick brings all of them closer.
LEMMA HeapNext ==
  TimerPoolInv /\ HeapInOrder /\ [TimerNext]_timerVars => HeapInOrder'
<1> SUFFICES ASSUME TimerPoolInv, HeapInOrder, [TimerNext]_timerVars
             PROVE  HeapInOrder'
  OBVIOUS
<1>0. /\ heap \in Seq(Timer) /\ left \in [Timer -> Nat] /\ added \subseteq Timer
      /\ heap \in Seq(added)
      /\ manager = "again" => current \in Timer /\ current \notin ToSet(heap)
  BY SeqOfMore DEF TimerPoolInv, OneShot, TimerTypeOK, MutexHeld
<1>1. ASSUME NEW t \in Timer, AddTimer(t) PROVE HeapInOrder'
  <2>1. t \notin ToSet(heap)
    BY <1>0, <1>1 DEF AddTimer, ToSet
  <2> QED
    BY <1>1, <2>1, PushInOrder DEF AddTimer
<1>2. ASSUME Again PROVE HeapInOrder'
  <2>1. CASE current \in Repeats \ removed
    BY <1>0, <1>2, <2>1, PushInOrder DEF Again
  <2>2. CASE current \notin Repeats \ removed
    BY <1>2, <2>2 DEF Again, HeapInOrder
  <2> QED
    BY <2>1, <2>2
<1>3. ASSUME heap # <<>>, heap' = Tail(heap), left' = left PROVE HeapInOrder'
  <2>1. /\ DOMAIN heap' = 1 .. Len(heap) - 1 /\ Len(heap) \in Nat
        /\ \A i \in 1 .. Len(heap) - 1 : heap'[i] = heap[i + 1]
        /\ DOMAIN heap = 1 .. Len(heap)
    BY <1>0, <1>3
  <2> QED
    BY <1>3, <2>1 DEF HeapInOrder
<1>4. ASSUME Tick PROVE HeapInOrder'
  <2>1. heap' = heap /\ \A i \in DOMAIN heap : heap[i] \in Timer
    BY <1>0, <1>4 DEF Tick
  <2>2. ASSUME NEW t \in Timer, NEW u \in Timer, left[t] <= left[u]
        PROVE  left'[t] <= left'[u]
    BY <1>0, <1>4, <2>2 DEF Tick
  <2> QED
    BY <2>1, <2>2 DEF HeapInOrder
<1>5. ASSUME UNCHANGED <<heap, left>> PROVE HeapInOrder'
  BY <1>5 DEF HeapInOrder
<1>6. ASSUME Lock \/ Wait PROVE HeapInOrder'
  BY <1>3, <1>5, <1>6 DEF Lock, Wait, LookAtTop
<1>7. ASSUME NEW t \in Timer, RemoveTimer(t) PROVE HeapInOrder'
  BY <1>5, <1>7 DEF RemoveTimer
<1>8. ASSUME StopManager \/ StopPool \/ JoinPool PROVE HeapInOrder'
  BY <1>5, <1>8 DEF StopManager, StopPool, JoinPool
<1>9. ASSUME Test \/ Sleep \/ CheckStopped \/ Submit PROVE HeapInOrder'
  BY <1>5, <1>9 DEF Test, Sleep, CheckStopped, Submit
<1>10. ASSUME NEW w \in Worker, Work(w) PROVE HeapInOrder'
  BY <1>5, <1>10 DEF Work, TakeTask, RunTask
<1>11. CASE UNCHANGED timerVars
  BY <1>5, <1>11 DEF timerVars
<1> QED
  BY <1>1, <1>2, <1>4, <1>6, <1>7, <1>8, <1>9, <1>10, <1>11
  DEF TimerNext, Destroy, Manager

\* The timer the manager looks at is always one that expires first, although
\* timers are pushed while others wait and repeating ones are pushed again
\* (TimerManager.cpp:34,64,78): the safety half of TimersFire.
THEOREM EarliestIsFirst == TimerSpec => []HeapInOrder
<1>1. TimerInit => HeapInOrder
  BY DEF TimerInit, HeapInOrder
<1> QED
  BY <1>1, HeapNext, TimerPoolInvHolds, PTL DEF TimerSpec
=============================================================================
