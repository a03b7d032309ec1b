--------------------------- MODULE ChunkPipeline ---------------------------
(***************************************************************************)
(* ChunkManager::slice of Data_Slicing: the calling thread hands chunks to *)
(* reader threads, these fill buffers of a fixed pool and hand them to     *)
(* writer threads, a flush thread looks on.  TaskQueue and BufferPool wait *)
(* on condition variables with a predicate that changes under the mutex    *)
(* and is followed by a notification, so a wait is a guard here.  The      *)
(* statistics only tell the flush thread when to flush; a timeout does so  *)
(* anyway, and they are left out.  FileSlicer::slice promises the same     *)
(* without threads; an execution is a call of one of the two.              *)
(***************************************************************************)
EXTENDS Naturals, SequencesExt

CONSTANTS
  Reader, Writer,   \* worker threads
  Buffer,           \* the pool's buffers, one for each worker
  Chunks,           \* the file has chunks 1 .. Chunks
  None,
  Torn              \* what a file holds that could not be closed

ASSUME PipelineAssumption ==
  /\ Chunks \in Nat /\ None \notin Buffer
  /\ None \notin 1 .. Chunks /\ Torn \notin 1 .. Chunks
  /\ Reader # {} /\ Writer # {} /\ Reader \cap Writer = {}
  /\ IsFiniteSet(Reader) /\ IsFiniteSet(Writer) /\ IsFiniteSet(Buffer)
  /\ Cardinality(Buffer) = Cardinality(Reader) + Cardinality(Writer)

Chunk == 1 .. Chunks

VARIABLES
  main,          \* where slice() is; "open", "copy", "sliced": FileSlicer's
  result,        \* what it returned
  pushed,        \* how many chunks it has handed out
  readerQueue, writerQueue,     \* queued chunks
  readersClosed, writersClosed, \* TaskQueue::closed_
  free,          \* BufferPool::buffers_, a queue
  content,       \* per buffer, the chunk whose bytes it holds
  buffer, good,  \* per chunk, ChunkTask's buffer and ok
  pc, task,      \* per worker, where it is and the chunk it works on
  ok,            \* the flag all workers share
  files,         \* per chunk, whose bytes its output file holds
  flusher,       \* where the flush thread is
  flushing       \* flush_running_

queues == <<readerQueue, writerQueue, readersClosed, writersClosed>>
chunkTasks == <<buffer, good>>
pool == <<free, content>>
workers == <<pc, task>>
flush == <<flusher, flushing>>
vars == <<main, result, pushed, queues, chunkTasks, pool, workers, ok, files, flush>>

Init == /\ main \in {"probe", "open"} /\ result = FALSE /\ pushed = 0
        /\ readerQueue = <<>> /\ writerQueue = <<>>
        /\ readersClosed = FALSE /\ writersClosed = FALSE
        /\ free = SetToSeq(Buffer) /\ content = [b \in Buffer |-> None]
        /\ buffer = [c \in Chunk |-> None] /\ good = [c \in Chunk |-> TRUE]
        /\ pc = [w \in Reader \cup Writer |-> "pop"]
        /\ task = [w \in Reader \cup Writer |-> None]
        /\ ok = TRUE
        /\ files = [c \in Chunk |-> None]
        /\ flusher = "test" /\ flushing = TRUE

Goto(w, label) == pc' = [pc EXCEPT ![w] = label]

-----------------------------------------------------------------------------
\* slice() opens the input file; nothing is started when that fails.
Probe == /\ main = "probe"
         /\ \/ main' = "push"
            \/ main' = "refused"
         /\ UNCHANGED <<result, pushed, queues, chunkTasks, pool, workers, ok, files,
                        flush>>

Started == main \notin {"probe", "refused", "open", "copy", "sliced"}

Push == /\ main = "push" /\ pushed < Chunks
        /\ pushed' = pushed + 1
        /\ readerQueue' = Append(readerQueue, pushed')
        /\ UNCHANGED <<main, result, writerQueue, readersClosed, writersClosed,
                       chunkTasks, pool, workers, ok, files, flush>>

CloseReaders == /\ main = "push" /\ pushed = Chunks
                /\ readersClosed' = TRUE
                /\ main' = "joinReaders"
                /\ UNCHANGED <<result, pushed, readerQueue, writerQueue,
                               writersClosed, chunkTasks, pool, workers, ok, files,
                               flush>>

Joined(set) == \A w \in set : pc[w] = "exited"

\* Mutant: the writers' queue is closed when the readers' is empty.
CloseWhenEmpty == /\ main = "joinReaders" /\ readerQueue = <<>>
                  /\ writersClosed' = TRUE
                  /\ main' = "joinWriters"
                  /\ UNCHANGED <<result, pushed, readerQueue, writerQueue,
                                 readersClosed, chunkTasks, pool, workers, ok,
                                 files, flush>>

\* The writers' queue is closed when all readers have been joined.
CloseWriters == /\ main = "joinReaders" /\ Joined(Reader)
                /\ writersClosed' = TRUE
                /\ main' = "joinWriters"
                /\ UNCHANGED <<result, pushed, readerQueue, writerQueue,
                               readersClosed, chunkTasks, pool, workers, ok, files,
                               flush>>

StopFlush == /\ main = "joinWriters" /\ Joined(Writer)
             /\ flushing' = FALSE
             /\ main' = "joinFlush"
             /\ UNCHANGED <<result, pushed, queues, chunkTasks, pool, workers, ok,
                            files, flusher>>

\* The last flush and reset, then ok is returned.
Return == /\ main = "joinFlush" /\ flusher = "exited"
          /\ result' = ok
          /\ main' = "returned"
          /\ UNCHANGED <<pushed, queues, chunkTasks, pool, workers, ok, files,
                         flusher, flushing>>

-----------------------------------------------------------------------------
\* ReaderWorker::run.
ReaderPops(r) ==
  /\ pc[r] = "pop" /\ Started
  /\ \/ /\ readerQueue # <<>>
        /\ task' = [task EXCEPT ![r] = Head(readerQueue)]
        /\ readerQueue' = Tail(readerQueue)
        /\ Goto(r, "acquire")
     \/ /\ readerQueue = <<>> /\ readersClosed
        /\ Goto(r, "exited")
        /\ UNCHANGED <<task, readerQueue>>
  /\ UNCHANGED <<main, result, pushed, writerQueue, readersClosed,
                 writersClosed, chunkTasks, pool, ok, files, flush>>

\* Mutant: acquire looks at a buffer and leaves it in the pool.
AcquireShared(r) ==
  /\ pc[r] = "acquire" /\ free # <<>>
  /\ buffer' = [buffer EXCEPT ![task[r]] = Head(free)]
  /\ Goto(r, "read")
  /\ UNCHANGED <<main, result, pushed, queues, good, pool, task, ok, files,
                 flush>>

Acquire(r) ==
  /\ pc[r] = "acquire" /\ free # <<>>
  /\ buffer' = [buffer EXCEPT ![task[r]] = Head(free)]
  /\ free' = Tail(free)
  /\ Goto(r, "read")
  /\ UNCHANGED <<main, result, pushed, queues, good, content, task, ok, files,
                 flush>>

\* The chunk is read into the buffer, or the task and the job are not ok.
Read(r) ==
  /\ pc[r] = "read"
  /\ \/ /\ content' = [content EXCEPT ![buffer[task[r]]] = task[r]]
        /\ UNCHANGED <<good, ok>>
     \/ /\ good' = [good EXCEPT ![task[r]] = FALSE]
        /\ ok' = FALSE
        /\ UNCHANGED content
  /\ Goto(r, "push")
  /\ UNCHANGED <<main, result, pushed, queues, buffer, free, task, files, flush>>

\* TaskQueue::push drops a task when the queue is closed.
PushToWriters(r) ==
  /\ pc[r] = "push"
  /\ writerQueue' = IF writersClosed THEN writerQueue
                    ELSE Append(writerQueue, task[r])
  /\ task' = [task EXCEPT ![r] = None]
  /\ Goto(r, "pop")
  /\ UNCHANGED <<main, result, pushed, readerQueue, readersClosed,
                 writersClosed, chunkTasks, pool, ok, files, flush>>

-----------------------------------------------------------------------------
\* WriterWorker::run; a task that is not ok is only taken apart.
WriterPops(w) ==
  /\ pc[w] = "pop" /\ Started
  /\ \/ /\ writerQueue # <<>>
        /\ task' = [task EXCEPT ![w] = Head(writerQueue)]
        /\ writerQueue' = Tail(writerQueue)
        /\ Goto(w, IF good[Head(writerQueue)] THEN "write" ELSE "release")
     \/ /\ writerQueue = <<>> /\ writersClosed
        /\ Goto(w, "exited")
        /\ UNCHANGED <<task, writerQueue>>
  /\ UNCHANGED <<main, result, pushed, readerQueue, readersClosed,
                 writersClosed, chunkTasks, pool, ok, files, flush>>

\* Mutant: a write error is not reported.
WriteUnchecked(w) ==
  /\ pc[w] = "write"
  /\ \/ files' = [files EXCEPT ![task[w]] = content[buffer[task[w]]]]
     \/ UNCHANGED files
  /\ Goto(w, "release")
  /\ UNCHANGED <<main, result, pushed, queues, chunkTasks, pool, task, ok, flush>>

\* FileWriter::open, write and close: the file is written, or the job is not
\* ok; whether the close succeeds nobody looks at.
Write(w) ==
  /\ pc[w] = "write"
  /\ \/ /\ files' = [files EXCEPT ![task[w]] = content[buffer[task[w]]]]
        /\ UNCHANGED ok
     \/ /\ files' = [files EXCEPT ![task[w]] = Torn]
        /\ UNCHANGED ok
     \/ /\ ok' = FALSE
        /\ UNCHANGED files
  /\ Goto(w, "release")
  /\ UNCHANGED <<main, result, pushed, queues, chunkTasks, pool, task, flush>>

\* Mutant: the buffer of a task that is not ok is not given back.
ReleaseGood(w) ==
  /\ pc[w] = "release"
  /\ free' = IF good[task[w]] THEN Append(free, buffer[task[w]]) ELSE free
  /\ buffer' = [buffer EXCEPT ![task[w]] = None]
  /\ task' = [task EXCEPT ![w] = None]
  /\ Goto(w, "pop")
  /\ UNCHANGED <<main, result, pushed, queues, good, content, ok, files, flush>>

Release(w) ==
  /\ pc[w] = "release"
  /\ free' = Append(free, buffer[task[w]])
  /\ buffer' = [buffer EXCEPT ![task[w]] = None]
  /\ task' = [task EXCEPT ![w] = None]
  /\ Goto(w, "pop")
  /\ UNCHANGED <<main, result, pushed, queues, good, content, ok, files, flush>>

-----------------------------------------------------------------------------
\* ChunkManager::flushLoop: wait for enough bytes or 5 seconds, look at
\* flush_running_ again, flush.  The wait ends by the timeout at the latest,
\* so it is no guard.
FlushLoop ==
  /\ Started
  /\ \/ /\ flusher = "test"
        /\ flusher' = IF flushing THEN "wait" ELSE "exited"
     \/ /\ flusher = "wait"
        /\ flusher' = IF flushing THEN "test" ELSE "exited"
  /\ UNCHANGED <<main, result, pushed, queues, chunkTasks, pool, workers, ok, files,
                 flushing>>

\* FileSlicer::slice: open the file; then read a chunk, open its output and
\* write it, one after the other, until one of these fails or all are done.
\* The result of the close is not looked at here either.
SlicerOpens == main = "open" /\ main' \in {"copy", "sliced"}
               /\ UNCHANGED <<result, pushed, files>>

SlicerCopies == /\ main = "copy" /\ pushed < Chunks
                /\ \/ /\ pushed' = pushed + 1
                      /\ \E held \in {pushed', Torn} :
                           files' = [files EXCEPT ![pushed'] = held]
                      /\ UNCHANGED main
                   \/ main' = "sliced" /\ UNCHANGED <<pushed, files>>
                /\ UNCHANGED result

SlicerReturns == /\ main = "copy" /\ pushed = Chunks
                 /\ main' = "sliced" /\ result' = TRUE
                 /\ UNCHANGED <<pushed, files>>

FileSlicer == /\ SlicerOpens \/ SlicerCopies \/ SlicerReturns
              /\ UNCHANGED <<queues, chunkTasks, pool, workers, ok, flush>>

Main == \/ Probe \/ Push \/ CloseReaders \/ CloseWriters \/ StopFlush \/ Return
        \/ FileSlicer

Read1(r) == ReaderPops(r) \/ Acquire(r) \/ Read(r) \/ PushToWriters(r)

Write1(w) == WriterPops(w) \/ Write(w) \/ Release(w)

Next == \/ Main
        \/ \E r \in Reader : Read1(r)
        \/ \E w \in Writer : Write1(w)
        \/ FlushLoop

Spec == Init /\ [][Next]_vars

\* Threads that can run do.
FairSpec == /\ Spec
            /\ WF_vars(Main) /\ WF_vars(FlushLoop)
            /\ \A r \in Reader : WF_vars(Read1(r))
            /\ \A w \in Writer : WF_vars(Write1(w))

-----------------------------------------------------------------------------
\* Types of the variables.
TypeOK ==
  /\ result \in BOOLEAN /\ ok \in BOOLEAN
  /\ pushed \in 0 .. Chunks
  /\ readerQueue \in Seq(Chunk) /\ writerQueue \in Seq(Chunk)
  /\ free \in Seq(Buffer)
  /\ content \in [Buffer -> Chunk \cup {None}]
  /\ buffer \in [Chunk -> Buffer \cup {None}]
  /\ task \in [Reader \cup Writer -> Chunk \cup {None}]
  /\ files \in [Chunk -> Chunk \cup {None, Torn}]

\* A buffer is in the pool or belongs to one task, on its way from reader
\* through queue to writer: no chunk is read over another one's bytes, and no
\* output file ever holds the bytes of another chunk (ReaderWorker.cpp:37,
\* WriterWorker.cpp:49).  The types come with it.
BytesNeverMix ==
  /\ TypeOK
  /\ IsInjective(free)
  /\ \A c \in Chunk : buffer[c] \notin ToSet(free)
  /\ \A c, d \in Chunk : c # d /\ buffer[c] # None => buffer[c] # buffer[d]
  /\ \A c \in Chunk : files[c] \in {None, Torn, c}

\* slice() returns TRUE only if every chunk has been written: no task is
\* dropped by a queue that was closed too early and no failure of one of the
\* threads is forgotten (ChunkManager.cpp:79-103, TaskQueue.cpp:7-10), but
\* that of closing a file is (FileSlicer.cpp:84-105 promises the same).
TrueMeansComplete ==
  main \in {"returned", "sliced"} /\ result =>
    \A c \in Chunk : files[c] \in {c, Torn}

\* When it returns, also after failures, every chunk has passed through both
\* kinds of workers, these have ended and all buffers are back
\* (ReaderWorker.cpp:39-45, WriterWorker.cpp:35-40).
ReturnsClean ==
  main = "returned" =>
    /\ Joined(Reader \cup Writer)
    /\ ToSet(free) = Buffer /\ readerQueue = <<>> /\ writerQueue = <<>>

\* slice() returns: readers that wait for buffers and writers that wait for
\* tasks never all wait for each other.
SliceReturns == <>(main \in {"returned", "refused", "sliced"})
=============================================================================
