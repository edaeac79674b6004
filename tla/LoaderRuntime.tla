---------------------------- MODULE LoaderRuntime ----------------------------
(***************************************************************************)
(* The native loader of siphon at run time, one rank, io_uring backend:    *)
(* the Python client, the loader thread (Loader::run), the kernel that     *)
(* serves the reads, the cuda thread, the GPU copy stream and the wait     *)
(* thread, from OPEN to CLOSE.                                             *)
(*                                                                         *)
(* Executors are FIFO and single-threaded, so a thread's progress is the   *)
(* number of the last chunk it finished.  An exception that leaves any of  *)
(* the threads ends the process: abort says why.                           *)
(***************************************************************************)
EXTENDS LayoutContract

CONSTANTS
    NumTensors,     \* tensors.size()
    NumChunks,      \* chunks.size()
    Last,           \* Last[t] = tensors[t].last_chunk_id
    Prefetch,       \* Prefetch[t] = tensors[t].prefetch_chunk_id
    Cells,          \* cells of the device buffer
    Writes,         \* Writes[c] = cells the copy of chunk c overwrites
    Payload,        \* Payload[t] = pairs <<cell, chunk that carries it>>
    IoDepth,        \* io_depth: host windows, events, reads in flight
    MaxIoDepth,     \* MAX_IO_DEPTH: capacity of every executor queue
    Faults          \* which of FaultKinds the environment may produce

Tensors == 0..(NumTensors - 1)
Chunks  == 0..(NumChunks - 1)
Windows == 0..(IoDepth - 1)

\* No chunk (counters start here) and contents that are no chunk's.
None == -1

ASSUME SizeAssumption ==
    NumTensors \in Nat \ {0} /\ NumChunks \in Nat \ {0}

\* Loader::open rejects any other depth.
ASSUME DepthAssumption ==
    MaxIoDepth \in Nat \ {0} /\ IoDepth \in 1..MaxIoDepth

ASSUME LayoutTypes ==
    /\ Last \in [Tensors -> Chunks]
    /\ Prefetch \in [Tensors -> Chunks]
    /\ Writes \in [Chunks -> SUBSET Cells]
    /\ Payload \in [Tensors -> SUBSET (Cells \X Chunks)]

ASSUME LayoutAssumption ==
    LayoutSound(NumTensors, NumChunks, Last, Prefetch, Writes, Payload)

\* OPEN fails (files, memory, arguments), io_uring_submit fails, a read misses
\* logical bytes, a read fails.
FaultKinds == {"open", "submit", "short", "error"}
ASSUME FaultsAssumption == Faults \subseteq FaultKinds

VARIABLES
    client,         \* what the Python thread is doing
    held,           \* tensor the client asked for last, None before the first
    req,            \* the request in input_queue
    resp,           \* TRUE when output_queue holds the answer
    lpc,            \* control point of the loader thread
    ret,            \* where the loader thread continues after step()
    opened,         \* OPEN has been dispatched
    stop,           \* Loader::stop
    live,           \* ring, buffers and files exist
    current,        \* current_tensor_index
    chunk_reading,  \* last chunk post_read_chunk was called for
    chunk_read,     \* last chunk known to be on the device
    cuda_posted,    \* last chunk submitted to cuda_thread
    wait_posted,    \* last chunk submitted to wait_thread
    cuda_done,      \* last chunk whose cuda_func has returned
    gpu_done,       \* last chunk whose copy the GPU has finished
    wait_done,      \* last chunk whose wait_func has returned
    unfinished,     \* chunks[c].extra_data.unfinished_cnt
    inflight,       \* reads the kernel owns
    cq,             \* completions not yet consumed: <<chunk, result>>
    host,           \* chunk whose bytes a host window holds, None if torn
    event,          \* last chunk recorded in cuda_events[w]
    dev,            \* chunk whose bytes a device cell holds, None if torn
    abort           \* why the process was terminated, "no" while it runs

clientVars == <<client, held, req, resp>>
loaderVars == <<lpc, ret, opened, stop, live, current, chunk_reading, chunk_read>>
taskVars   == <<cuda_posted, wait_posted, cuda_done, gpu_done, wait_done>>
dataVars   == <<unfinished, inflight, cq, host, event, dev>>
vars == <<clientVars, loaderVars, taskVars, dataVars, abort>>

Window(c) == c % IoDepth
Later(a, b) == IF a < b THEN b ELSE a

Requests == {"none", "open", "get", "close"}
ClientStates ==
    {"new", "opening", "idle", "waiting", "using", "closing", "closed"}
LoaderPoints ==
    {"top", "pop", "try", "wait_step", "wait_read", "guard", "prep", "submit",
     "post_cuda", "post_wait", "poll", "join_cuda", "join_wait", "destroy",
     "exit"}

\* Loader's constructor has run and run_loader has entered run().
Init ==
    /\ client = "new" /\ held = None /\ req = "none" /\ resp = FALSE
    /\ lpc = "top" /\ ret = "top"
    /\ opened = FALSE /\ stop = FALSE /\ live = FALSE
    /\ current = 0 /\ chunk_reading = None /\ chunk_read = None
    /\ cuda_posted = None /\ wait_posted = None
    /\ cuda_done = None /\ gpu_done = None /\ wait_done = None
    /\ unfinished = [c \in Chunks |-> 0]
    /\ inflight = {} /\ cq = {}
    /\ host = [w \in Windows |-> None]
    /\ event = [w \in Windows |-> None]
    /\ dev = [x \in Cells |-> None]
    /\ abort = "no"

-----------------------------------------------------------------------------
(* The client: safe_open on the Python side of the RPC queues.  Each call    *)
(* is synchronous, so at most one request is outstanding.                    *)

ClientOpen ==
    /\ client = "new"
    /\ client' = "opening" /\ req' = "open"
    /\ UNCHANGED <<held, resp, loaderVars, taskVars, dataVars, abort>>

\* tensors() synchronizes the current stream, so nothing reads the previous
\* tensor any more, and asks for the next one.  get_tensor_ptr also accepts
\* an index further on.
ClientGet(t) ==
    /\ client \in {"idle", "using"}
    /\ held < t
    /\ client' = "waiting" /\ held' = t /\ req' = "get"
    /\ UNCHANGED <<resp, loaderVars, taskVars, dataVars, abort>>

\* __exit__, after the last tensor or after leaving the loop early.
ClientClose ==
    /\ client \in {"idle", "using"}
    /\ client' = "closing" /\ req' = "close"
    /\ UNCHANGED <<held, resp, loaderVars, taskVars, dataVars, abort>>

\* LoaderManager::get_result returns.
ClientReceive ==
    /\ resp
    /\ resp' = FALSE
    /\ client' = CASE client = "opening" -> "idle"
                   [] client = "waiting" -> "using"
                   [] client = "closing" -> "closed"
                   [] OTHER -> client
    /\ UNCHANGED <<held, req, loaderVars, taskVars, dataVars, abort>>

-----------------------------------------------------------------------------
(* The loader thread.                                                        *)

\* can_step() throws when the loop has run past the current watermark.
PastWatermark == opened /\ chunk_reading > Prefetch[current]
\* Mutant: the watermark taken as the first chunk that must not be read.
CanStepPast == opened /\ chunk_reading <= Prefetch[current]
CanStep == opened /\ chunk_reading < Prefetch[current]

\* Mutant: once opened, requests are served only while there is prefetch to do.
LoopTopBusy ==
    /\ lpc = "top"
    /\ lpc' = IF stop THEN "exit"
              ELSE IF ~opened \/ (CanStep /\ req # "none") THEN "pop" ELSE "try"
    /\ abort' = IF ~stop /\ PastWatermark THEN "internal" ELSE abort
    /\ UNCHANGED <<clientVars, ret, opened, stop, live, current, chunk_reading,
                   chunk_read, taskVars, dataVars>>

\* The head of run()'s loop: serve a request when there is one, or when there
\* is nothing to prefetch; otherwise go on prefetching.
LoopTop ==
    /\ lpc = "top"
    /\ lpc' = IF stop THEN "exit"
              ELSE IF ~CanStep \/ req # "none" THEN "pop" ELSE "try"
    /\ abort' = IF ~stop /\ PastWatermark THEN "internal" ELSE abort
    /\ UNCHANGED <<clientVars, ret, opened, stop, live, current, chunk_reading,
                   chunk_read, taskVars, dataVars>>

\* open() acquires files, buffers and threads and computes the layout, or throws.
DispatchOpen ==
    /\ lpc = "pop" /\ req = "open"
    /\ req' = "none"
    /\ \/ /\ resp' = TRUE /\ opened' = TRUE /\ live' = TRUE /\ lpc' = "try"
          /\ UNCHANGED abort
       \/ /\ "open" \in Faults
          /\ abort' = "open"
          /\ UNCHANGED <<resp, opened, live, lpc>>
    /\ UNCHANGED <<client, held, ret, stop, current, chunk_reading, chunk_read,
                   taskVars, dataVars>>

DispatchGet ==
    /\ lpc = "pop" /\ req = "get"
    /\ req' = "none"
    /\ current' = held /\ lpc' = "wait_step"
    /\ abort' = IF held < current THEN "internal" ELSE abort
    /\ UNCHANGED <<client, held, resp, ret, opened, stop, live, chunk_reading,
                   chunk_read, taskVars, dataVars>>

\* close() sets stop and then joins cuda_thread.
DispatchClose ==
    /\ lpc = "pop" /\ req = "close"
    /\ req' = "none"
    /\ stop' = TRUE /\ lpc' = "join_cuda"
    /\ UNCHANGED <<client, held, resp, ret, opened, live, current,
                   chunk_reading, chunk_read, taskVars, dataVars, abort>>

\* post_read_chunk's first statement: the chunk counts as being read from here.
BeginStep(after) ==
    /\ chunk_reading' = chunk_reading + 1
    /\ ret' = after /\ lpc' = "guard"
    /\ UNCHANGED <<chunk_read, abort>>

\* poll_read_chunk: reap every finished wait_func, in chunk order.
PollReadChunk == chunk_read' = Later(chunk_read, wait_done)

TryStep ==
    /\ lpc = "try"
    /\ \/ CanStep /\ BeginStep("top")
       \/ /\ ~CanStep
          /\ PollReadChunk
          /\ lpc' = "top"
          /\ abort' = IF PastWatermark THEN "internal" ELSE abort
          /\ UNCHANGED <<ret, chunk_reading>>
    /\ UNCHANGED <<clientVars, opened, stop, live, current, taskVars, dataVars>>

\* wait_step: read ahead while allowed, else block for the tensor's last chunk.
WaitStep ==
    /\ lpc = "wait_step"
    /\ \/ /\ chunk_read >= Last[current]
          /\ resp' = TRUE /\ lpc' = "try"
          /\ UNCHANGED <<ret, chunk_reading, chunk_read, abort>>
       \/ /\ chunk_read < Last[current] /\ CanStep
          /\ BeginStep("wait_step")
          /\ UNCHANGED resp
       \/ /\ chunk_read < Last[current] /\ ~CanStep
          /\ lpc' = "wait_read"
          /\ abort' = IF PastWatermark \/ Last[current] > chunk_reading
                      THEN "internal" ELSE abort
          /\ UNCHANGED <<resp, ret, chunk_reading, chunk_read>>
    /\ UNCHANGED <<client, held, req, opened, stop, live, current, taskVars,
                   dataVars>>

\* Mutant: waiting without blocking.
WaitNothing(c) == chunk_read' = Later(chunk_read, c)

\* wait_read_chunk(c) blocks until wait_thread has finished chunk c.
WaitReadChunk(c) ==
    /\ wait_done >= c
    /\ chunk_read' = Later(chunk_read, c)

WaitForTensor ==
    /\ lpc = "wait_read"
    /\ WaitReadChunk(Last[current])
    /\ lpc' = "wait_step"
    /\ UNCHANGED <<clientVars, ret, opened, stop, live, current, chunk_reading,
                   taskVars, dataVars, abort>>

\* Mutant: one chunk too many between a window's owner and its successor.
GuardTooLate == Later(chunk_reading - MaxIoDepth, chunk_reading - IoDepth) - 1

\* The chunk whose completion frees this chunk's host window and event.
GuardChunk == Later(chunk_reading - MaxIoDepth, chunk_reading - IoDepth)

GuardWindow ==
    /\ lpc = "guard"
    /\ \/ GuardChunk >= 0 /\ WaitReadChunk(GuardChunk)
       \/ GuardChunk < 0 /\ UNCHANGED chunk_read
    /\ lpc' = "prep"
    /\ UNCHANGED <<clientVars, ret, opened, stop, live, current, chunk_reading,
                   taskVars, dataVars, abort>>

\* Take an SQE and count the read before it is submitted.  After close() the
\* ring is gone and the executors refuse work: nothing good can follow.
PrepRead ==
    /\ lpc = "prep"
    /\ \/ /\ live
          /\ unfinished' = [unfinished EXCEPT ![chunk_reading] = 1]
          /\ lpc' = "submit"
          /\ UNCHANGED abort
       \/ /\ ~live
          /\ abort' = "closed"
          /\ UNCHANGED <<unfinished, lpc>>
    /\ UNCHANGED <<clientVars, ret, opened, stop, live, current, chunk_reading,
                   chunk_read, taskVars, inflight, cq, host, event, dev>>

\* io_uring_submit: the kernel owns the host window from here on.
SubmitRead ==
    /\ lpc = "submit"
    /\ \/ /\ inflight' = inflight \cup {chunk_reading}
          /\ host' = [host EXCEPT ![Window(chunk_reading)] = None]
          /\ lpc' = "post_cuda"
          /\ UNCHANGED abort
       \/ /\ "submit" \in Faults
          /\ abort' = "io"
          /\ UNCHANGED <<inflight, host, lpc>>
    /\ UNCHANGED <<clientVars, ret, opened, stop, live, current, chunk_reading,
                   chunk_read, taskVars, unfinished, cq, event, dev>>

PostCuda ==
    /\ lpc = "post_cuda"
    /\ cuda_posted' = chunk_reading /\ lpc' = "post_wait"
    /\ UNCHANGED <<clientVars, ret, opened, stop, live, current, chunk_reading,
                   chunk_read, wait_posted, cuda_done, gpu_done, wait_done,
                   dataVars, abort>>

PostWait ==
    /\ lpc = "post_wait"
    /\ wait_posted' = chunk_reading /\ lpc' = "poll"
    /\ UNCHANGED <<clientVars, ret, opened, stop, live, current, chunk_reading,
                   chunk_read, cuda_posted, cuda_done, gpu_done, wait_done,
                   dataVars, abort>>

StepPoll ==
    /\ lpc = "poll"
    /\ PollReadChunk
    /\ lpc' = ret
    /\ UNCHANGED <<clientVars, ret, opened, stop, live, current, chunk_reading,
                   taskVars, dataVars, abort>>

\* destroy_threads: an executor joins once it has run all it was given.
JoinCuda ==
    /\ lpc = "join_cuda" /\ cuda_done = cuda_posted
    /\ lpc' = "join_wait"
    /\ UNCHANGED <<clientVars, ret, opened, stop, live, current, chunk_reading,
                   chunk_read, taskVars, dataVars, abort>>

\* Mutant: buffers are freed while copies are still pending.
JoinWaitSkipped ==
    /\ lpc = "join_wait"
    /\ lpc' = "destroy"
    /\ UNCHANGED <<clientVars, ret, opened, stop, live, current, chunk_reading,
                   chunk_read, taskVars, dataVars, abort>>

JoinWait ==
    /\ lpc = "join_wait" /\ wait_done = wait_posted
    /\ lpc' = "destroy"
    /\ UNCHANGED <<clientVars, ret, opened, stop, live, current, chunk_reading,
                   chunk_read, taskVars, dataVars, abort>>

\* destroy_buffer and close_file; run() answers and calls try_step() once more.
Destroy ==
    /\ lpc = "destroy"
    /\ live' = FALSE /\ resp' = TRUE /\ lpc' = "try"
    /\ UNCHANGED <<client, held, req, ret, opened, stop, current,
                   chunk_reading, chunk_read, taskVars, dataVars, abort>>

-----------------------------------------------------------------------------
(* The kernel, the cuda thread, the GPU stream and the wait thread.          *)

\* Reads complete in any order; a full read may still be shorter than the
\* page-rounded request, a "short" one misses logical bytes of the chunk.
KernelComplete(c) ==
    /\ c \in inflight
    /\ inflight' = inflight \ {c}
    /\ \E r \in {"full"} \cup (Faults \cap {"short", "error"}) :
          /\ cq' = cq \cup {<<c, r>>}
          /\ host' = IF r = "full" THEN [host EXCEPT ![Window(c)] = c] ELSE host
    /\ UNCHANGED <<clientVars, loaderVars, taskVars, unfinished, event, dev,
                   abort>>

\* cuda_func waits for its own chunk but accounts whatever completion is next.
CudaConsume ==
    LET c == cuda_done + 1 IN
    /\ c <= cuda_posted
    /\ unfinished[c] > 0
    /\ \E e \in cq :
          /\ cq' = cq \ {e}
          /\ \/ /\ e[2] = "full"
                /\ unfinished' = [unfinished EXCEPT ![e[1]] = @ - 1]
                /\ UNCHANGED abort
             \/ /\ e[2] # "full"
                /\ abort' = "io"
                /\ UNCHANGED unfinished
    /\ UNCHANGED <<clientVars, loaderVars, taskVars, inflight, host, event, dev>>

\* cudaMemcpyAsync and cudaEventRecord: from here the copy may run.
CudaLaunch ==
    LET c == cuda_done + 1 IN
    /\ c <= cuda_posted
    /\ unfinished[c] = 0
    /\ dev' = [x \in Cells |-> IF x \in Writes[c] THEN None ELSE dev[x]]
    /\ event' = [event EXCEPT ![Window(c)] = c]
    /\ cuda_done' = c
    /\ UNCHANGED <<clientVars, loaderVars, cuda_posted, wait_posted, gpu_done,
                   wait_done, unfinished, inflight, cq, host, abort>>

\* The stream runs copies in order; a copy is good only if the window held the
\* whole chunk until its end.
GpuCopy ==
    LET c == gpu_done + 1
        w == host[Window(c)]
    IN
    /\ c <= cuda_done
    /\ dev' = [x \in Cells |->
                  IF x \in Writes[c] THEN (IF w = c THEN c ELSE None)
                  ELSE dev[x]]
    /\ gpu_done' = c
    /\ UNCHANGED <<clientVars, loaderVars, cuda_posted, wait_posted, cuda_done,
                   wait_done, unfinished, inflight, cq, host, event, abort>>

\* wait_func: reap cuda_func's result, then cudaEventSynchronize, which returns
\* at once for an event that was never recorded.
WaitFunc ==
    LET c == wait_done + 1 IN
    /\ c <= wait_posted
    /\ c <= cuda_done
    /\ gpu_done >= event[Window(c)]
    /\ wait_done' = c
    /\ UNCHANGED <<clientVars, loaderVars, cuda_posted, wait_posted, cuda_done,
                   gpu_done, dataVars, abort>>

-----------------------------------------------------------------------------
ClientCalls == ClientOpen \/ ClientClose \/ \E t \in Tensors : ClientGet(t)

LoaderStep ==
    \/ LoopTop \/ DispatchOpen \/ DispatchGet \/ DispatchClose
    \/ TryStep \/ WaitStep \/ WaitForTensor
    \/ GuardWindow \/ PrepRead \/ SubmitRead \/ PostCuda \/ PostWait \/ StepPoll
    \/ JoinCuda \/ JoinWait \/ Destroy

Kernel == \E c \in Chunks : KernelComplete(c)
CudaThread == CudaConsume \/ CudaLaunch

\* A process that was aborted, or whose loader thread and client are done.
Finished == abort # "no" \/ (lpc = "exit" /\ client = "closed")
Terminated == Finished /\ UNCHANGED vars

Next ==
    \/ /\ abort = "no"
       /\ \/ ClientCalls \/ ClientReceive
          \/ LoaderStep
          \/ Kernel \/ CudaThread \/ GpuCopy \/ WaitFunc
    \/ Terminated

Spec == Init /\ [][Next]_vars

\* The operating system schedules every thread, the kernel completes every
\* read and the GPU runs every copy; what the Python program calls next is its
\* own affair.
Running(A) == abort = "no" /\ A
Fairness ==
    /\ WF_vars(Running(ClientReceive))
    /\ WF_vars(Running(LoaderStep))
    /\ WF_vars(Running(Kernel))
    /\ WF_vars(Running(CudaThread))
    /\ WF_vars(Running(GpuCopy))
    /\ WF_vars(Running(WaitFunc))

FairSpec == Spec /\ Fairness
-----------------------------------------------------------------------------
ControlType ==
    /\ client \in ClientStates
    /\ req \in Requests
    /\ lpc \in LoaderPoints
    /\ ret \in {"top", "wait_step"}
    /\ abort \in {"no", "open", "io", "internal", "closed"}
FlagType == resp \in BOOLEAN /\ opened \in BOOLEAN /\ stop \in BOOLEAN /\ live \in BOOLEAN
CounterType ==
    /\ held \in Tensors \cup {None}
    /\ current \in Tensors
    /\ chunk_reading \in Chunks \cup {None}
    /\ chunk_read \in Chunks \cup {None}
    /\ cuda_posted \in Chunks \cup {None}
    /\ wait_posted \in Chunks \cup {None}
    /\ cuda_done \in Chunks \cup {None}
    /\ gpu_done \in Chunks \cup {None}
    /\ wait_done \in Chunks \cup {None}
DataType ==
    /\ unfinished \in [Chunks -> {0, 1}]
    /\ inflight \subseteq Chunks
    /\ cq \subseteq Chunks \X {"full", "short", "error"}
    /\ host \in [Windows -> Chunks \cup {None}]
    /\ event \in [Windows -> Chunks \cup {None}]
    /\ dev \in [Cells -> Chunks \cup {None}]
TypeOK == ControlType /\ FlagType /\ CounterType /\ DataType

Intact(t) == \A p \in Payload[t] : dev[p[1]] = p[2]

\* The tensor the client is using keeps its bytes until the client lets go of
\* it, however far the loader reads ahead meanwhile.
TensorIntact == client = "using" => Intact(held)

\* Chunks between the submission of their read and the end of their copy.
Issued == IF lpc \in {"guard", "prep", "submit"} THEN chunk_reading - 1
          ELSE chunk_reading

\* A host window belongs to one chunk from the submission of its read to the
\* end of its copy: the kernel never writes into a window that another read or
\* a pending copy still uses.
WindowExclusive ==
    \A c \in inflight : \A d \in Chunks :
        (gpu_done < d /\ d <= Issued /\ d # c) => Window(d) # Window(c)

\* The loop's own sanity checks ("chunk_reading is greater than
\* prefetch_chunk_id", "chunk_id out of range", keys out of order) never fire.
NoInternalError == abort # "internal"

\* Never more tasks between submission and reaping than an executor queue has
\* room for, so submit() cannot block the loader thread on a full queue.
QueuesNeverFull ==
    /\ wait_posted - chunk_read <= MaxIoDepth
    /\ cuda_posted - chunk_read <= MaxIoDepth

\* Memory is released only when the kernel and the GPU are done with it:
\* close() may come while reads and copies are outstanding.
ReleasedWhenQuiet ==
    (opened /\ ~live) =>
        /\ inflight = {} /\ cq = {}
        /\ gpu_done = cuda_posted /\ wait_done = cuda_posted

\* Closing never leads back into a destroyed ring or a stopped executor.
NoWorkAfterClose == abort # "closed"

\* The loop reports a chunk as read only when that chunk and all before it are
\* wholly on the device and none of their reads is outstanding.
ReapedMeansCopied ==
    [][chunk_read' # chunk_read =>
          /\ chunk_read < chunk_read'
          /\ \A c \in 0..chunk_read' :
                c <= gpu_done /\ c \notin inflight /\ unfinished[c] = 0]_vars

\* Every call returns, whatever I/O is outstanding when it is made: a tensor that
\* was asked for is delivered and close() comes back, or the process has stopped.
CallsAnswered ==
    /\ client = "waiting" ~> (client = "using" \/ abort # "no")
    /\ client = "closing" ~> (client = "closed" \/ abort # "no")
-----------------------------------------------------------------------------
(* The inductive invariant behind the safety properties, part by part.       *)

\* How far each stage of the pipeline has come, and how far apart they are.
PipelineInv ==
    /\ chunk_read <= wait_done
    /\ wait_done <= wait_posted /\ wait_done <= gpu_done
    /\ gpu_done <= cuda_done /\ cuda_done <= cuda_posted
    /\ cuda_posted = IF lpc \in {"guard", "prep", "submit", "post_cuda"}
                     THEN chunk_reading - 1 ELSE chunk_reading
    /\ wait_posted = IF lpc \in {"guard", "prep", "submit", "post_cuda", "post_wait"}
                     THEN chunk_reading - 1 ELSE chunk_reading
    /\ chunk_reading - chunk_read <= IF lpc = "guard" THEN IoDepth + 1 ELSE IoDepth

\* An event stands for the chunk that recorded it, or for a later one.
EventInv == \A c \in Chunks : c <= cuda_done => event[Window(c)] >= c

\* unfinished_cnt is set before the read is submitted and cleared before the
\* copy is launched, whichever thread saw the completion.
CountInv ==
    \A c \in Chunks :
        /\ unfinished[c] = 1 => cuda_done < c
        /\ c > Issued => unfinished[c] = IF lpc = "submit" /\ c = chunk_reading
                                         THEN 1 ELSE 0

\* A read is outstanding, or its completion is queued once, or it is counted.
InflightInv == \A c \in inflight : c <= Issued /\ unfinished[c] = 1
QueuedInv ==
    /\ \A e \in cq : /\ e[1] <= Issued /\ unfinished[e[1]] = 1 /\ e[1] \notin inflight
                     /\ e[2] = "full" => host[Window(e[1])] = e[1]
    /\ \A e, f \in cq : e[1] = f[1] => e = f

\* A counted chunk sits in its host window until its copy has ended.
WindowInv ==
    \A c \in Chunks :
        (gpu_done < c /\ c <= Issued /\ unfinished[c] = 0) => host[Window(c)] = c

ReadInv == CountInv /\ InflightInv /\ QueuedInv /\ WindowInv

\* A cell holds the last chunk copied to it unless a later copy was launched.
DeviceInv ==
    \A c \in Chunks : \A x \in Writes[c] :
        (c <= gpu_done /\ \A d \in (c + 1)..cuda_done : x \notin Writes[d])
            => dev[x] = c

\* The loop never reads past the watermark of the current tensor.
WatermarkInv == chunk_reading <= Prefetch[current]

\* The loader thread is serving GET_TENSOR_PTR, or CLOSE.
InStep == lpc \in {"guard", "prep", "submit", "post_cuda", "post_wait", "poll"}
Getting == lpc \in {"wait_step", "wait_read"} \/ (InStep /\ ret = "wait_step")
Joining == lpc \in {"join_cuda", "join_wait", "destroy"}

\* Client and loader thread agree on the call in progress and on its tensor.
CallInv ==
    /\ req = "open" => client = "opening"
    /\ req = "get" => client = "waiting"
    /\ req = "close" => client = "closing"
    /\ (req # "none" \/ client \in {"new", "idle", "using", "closed"})
          => ~resp /\ ~Getting /\ ~Joining
    /\ client \in {"new", "idle", "using", "closed"} => req = "none"
    /\ resp => ~Getting /\ ~Joining /\ opened
    /\ Getting => client = "waiting" /\ held = current
    /\ Joining => client = "closing"
    /\ client \notin {"new", "opening"} => opened
    /\ client \in {"new", "opening", "idle"} => held = None
    /\ client \in {"waiting", "using"} => held # None
    /\ held = None => current = 0
    /\ held # None => IF req = "get" THEN current <= held ELSE current = held
    /\ (client = "using" \/ (client = "waiting" /\ resp))
          => chunk_read >= Last[current]

\* Once memory is released the loader thread can only run into the end of its
\* loop or into PrepRead's failure.
ReleaseInv ==
    /\ live => opened
    /\ opened /\ ~stop => live
    /\ stop => \/ Joining
               \/ ~live /\ lpc \in {"try", "top", "exit", "guard", "prep"}
    /\ Joining => live /\ stop
    /\ (lpc \in {"join_wait", "destroy"} \/ (opened /\ ~live))
          => cuda_done = cuda_posted
    /\ (lpc = "destroy" \/ (opened /\ ~live)) => wait_done = wait_posted

\* Everything the safety proofs need, inductive relative to the assumptions.
IndInv ==
    /\ TypeOK /\ PipelineInv /\ EventInv /\ ReadInv /\ DeviceInv
    /\ WatermarkInv /\ CallInv /\ ReleaseInv /\ NoInternalError
=============================================================================
