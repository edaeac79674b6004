--------------------------- MODULE DistributedLoader ---------------------------
(***************************************************************************)
(* world_size loaders that share one communicator.  Every rank reads its   *)
(* own slice of each chunk; an in-place all-gather, launched by every rank *)
(* on its own, brings the whole chunk to every device.  A rank prefetches  *)
(* at its own pace, so the ranks are rarely at the same chunk.             *)
(*                                                                         *)
(* What happens inside a rank between the submission of a read and the     *)
(* launch of its copy is LoaderRuntime's; here it is one step.  A rank     *)
(* reaps a chunk as soon as its wait thread is done with it.               *)
(***************************************************************************)
EXTENDS LayoutContract

CONSTANTS
    Ranks,          \* the ranks of the process group
    NumTensors, NumChunks, Last, Prefetch, Cells, Writes, Payload,
    Owner,          \* Owner[x] = the rank whose slice contains cell x
    IoDepth,        \* io_depth of every rank
    EarlyClose      \* TRUE when a user may close before the last tensor

Tensors == 0..(NumTensors - 1)
Chunks  == 0..(NumChunks - 1)
None == -1

ASSUME DistributedAssumption ==
    /\ Ranks # {}
    /\ NumTensors \in Nat \ {0} /\ NumChunks \in Nat \ {0}
    /\ IoDepth \in Nat \ {0} /\ EarlyClose \in BOOLEAN
    /\ Last \in [Tensors -> Chunks] /\ Prefetch \in [Tensors -> Chunks]
    /\ Writes \in [Chunks -> SUBSET Cells] /\ Owner \in [Cells -> Ranks]
    /\ Payload \in [Tensors -> SUBSET (Cells \X Chunks)]
    /\ LayoutSound(NumTensors, NumChunks, Last, Prefetch, Writes, Payload)

VARIABLES
    client,         \* per rank: "idle", "waiting", "using", "closing", "closed"
    held,           \* per rank: last tensor asked for
    lpc,            \* per rank: the loader thread
    after,          \* per rank: where the loader thread continues after a step
    current,        \* per rank: current_tensor_index
    chunk_reading,  \* per rank: last chunk the loop has begun to read
    posted,         \* per rank: last chunk submitted to the cuda thread
    launched,       \* per rank: last chunk whose copy and all-gather are queued
    copied,         \* per rank: last chunk whose slice is on the rank's device
    gathered,       \* last chunk whose all-gather is done
    wait_done,      \* per rank: last chunk whose event the wait thread has seen
    dev,            \* per rank: chunk whose bytes a device cell holds
    died            \* ranks whose process was terminated

vars == <<client, held, lpc, after, current, chunk_reading, posted, launched,
          copied, gathered, wait_done, dev, died>>
clientVars == <<client, held>>
loopVars == <<lpc, after, current, chunk_reading, posted>>
gpuVars == <<launched, copied, gathered, wait_done, dev>>

\* Every rank has opened its loader.
Init ==
    /\ client = [r \in Ranks |-> "idle"] /\ held = [r \in Ranks |-> None]
    /\ lpc = [r \in Ranks |-> "top"] /\ after = [r \in Ranks |-> "top"]
    /\ current = [r \in Ranks |-> 0]
    /\ chunk_reading = [r \in Ranks |-> None]
    /\ posted = [r \in Ranks |-> None] /\ launched = [r \in Ranks |-> None]
    /\ copied = [r \in Ranks |-> None] /\ gathered = None
    /\ wait_done = [r \in Ranks |-> None]
    /\ dev = [r \in Ranks |-> [x \in Cells |-> None]]
    /\ died = {}

\* Mutant: one chunk past the watermark.
CanStepPast(r) == chunk_reading[r] <= Prefetch[current[r]]
CanStep(r) == chunk_reading[r] < Prefetch[current[r]]
Requested(r) == client[r] \in {"waiting", "closing"}
-----------------------------------------------------------------------------
(* The user: the same program on every rank, each at its own pace.           *)

Get(r) ==
    /\ client[r] \in {"idle", "using"} /\ held[r] + 1 \in Tensors
    /\ held' = [held EXCEPT ![r] = @ + 1]
    /\ client' = [client EXCEPT ![r] = "waiting"]
    /\ UNCHANGED <<loopVars, gpuVars, died>>

Close(r) ==
    /\ client[r] \in {"idle", "using"}
    /\ EarlyClose \/ held[r] = NumTensors - 1
    /\ client' = [client EXCEPT ![r] = "closing"]
    /\ UNCHANGED <<held, loopVars, gpuVars, died>>

-----------------------------------------------------------------------------
(* The loader thread of rank r.                                              *)

\* A request is served before the next step.
ServeGet(r) ==
    /\ lpc[r] = "top" /\ client[r] = "waiting"
    /\ current' = [current EXCEPT ![r] = held[r]]
    /\ lpc' = [lpc EXCEPT ![r] = "wait_step"]
    /\ UNCHANGED <<clientVars, after, chunk_reading, posted, gpuVars, died>>

\* Mutant: a request is taken only while there is something to prefetch.
ServeCloseBusy(r) ==
    /\ lpc[r] = "top" /\ client[r] = "closing" /\ CanStep(r)
    /\ lpc' = [lpc EXCEPT ![r] = "join_cuda"]
    /\ UNCHANGED <<clientVars, after, current, chunk_reading, posted, gpuVars,
                   died>>

ServeClose(r) ==
    /\ lpc[r] = "top" /\ client[r] = "closing"
    /\ lpc' = [lpc EXCEPT ![r] = "join_cuda"]
    /\ UNCHANGED <<clientVars, after, current, chunk_reading, posted, gpuVars,
                   died>>

\* The loop reads ahead: when it saw no request, after it has served one, and
\* while wait_step() waits for a tensor.
BeginStep(r) ==
    /\ \/ lpc[r] = "top" /\ ~Requested(r)
       \/ lpc[r] = "try"
       \/ lpc[r] = "wait_step" /\ wait_done[r] < Last[current[r]]
    /\ CanStep(r)
    /\ chunk_reading' = [chunk_reading EXCEPT ![r] = @ + 1]
    /\ after' = [after EXCEPT ![r] = IF lpc[r] = "try" THEN "top" ELSE lpc[r]]
    /\ lpc' = [lpc EXCEPT ![r] = "post"]
    /\ UNCHANGED <<clientVars, current, posted, gpuVars, died>>

\* try_step() with nothing to read ahead.
SkipStep(r) ==
    /\ lpc[r] = "try" /\ ~CanStep(r)
    /\ lpc' = [lpc EXCEPT ![r] = "top"]
    /\ UNCHANGED <<clientVars, after, current, chunk_reading, posted, gpuVars,
                   died>>

\* Mutant: chunks are posted although their window is in use.
PostUnguarded(r) ==
    /\ lpc[r] = "post"
    /\ posted' = [posted EXCEPT ![r] = chunk_reading[r]]
    /\ lpc' = [lpc EXCEPT ![r] = after[r]]
    /\ UNCHANGED <<clientVars, after, current, chunk_reading, gpuVars, died>>

\* post_read_chunk blocks until the host window and the event are free.
Post(r) ==
    /\ lpc[r] = "post"
    /\ wait_done[r] >= chunk_reading[r] - IoDepth
    /\ posted' = [posted EXCEPT ![r] = chunk_reading[r]]
    /\ lpc' = [lpc EXCEPT ![r] = after[r]]
    /\ UNCHANGED <<clientVars, after, current, chunk_reading, gpuVars, died>>

\* wait_step() returns and the client gets its tensor.
AnswerGet(r) ==
    /\ lpc[r] = "wait_step" /\ wait_done[r] >= Last[current[r]]
    /\ lpc' = [lpc EXCEPT ![r] = "try"]
    /\ client' = [client EXCEPT ![r] = "using"]
    /\ UNCHANGED <<held, after, current, chunk_reading, posted, gpuVars, died>>

\* close(): join the cuda thread, then the wait thread, then answer.
JoinCuda(r) ==
    /\ lpc[r] = "join_cuda" /\ launched[r] = posted[r]
    /\ lpc' = [lpc EXCEPT ![r] = "join_wait"]
    /\ UNCHANGED <<clientVars, after, current, chunk_reading, posted, gpuVars,
                   died>>

JoinWait(r) ==
    /\ lpc[r] = "join_wait" /\ wait_done[r] = posted[r]
    /\ lpc' = [lpc EXCEPT ![r] = "last_step"]
    /\ client' = [client EXCEPT ![r] = "closed"]
    /\ UNCHANGED <<held, after, current, chunk_reading, posted, gpuVars, died>>

\* The try_step() after close() posts on stopped executors if it can step.
LastStep(r) ==
    /\ lpc[r] = "last_step"
    /\ lpc' = [lpc EXCEPT ![r] = "exit"]
    /\ died' = IF CanStep(r) THEN died \cup {r} ELSE died
    /\ UNCHANGED <<clientVars, after, current, chunk_reading, posted, gpuVars>>

-----------------------------------------------------------------------------
(* The cuda thread, the two streams and the wait thread.                     *)

\* The read is complete: queue the copy and, behind it, the all-gather.  From
\* here on the cells of the chunk may change.
Launch(r) ==
    LET c == launched[r] + 1 IN
    /\ c <= posted[r]
    /\ launched' = [launched EXCEPT ![r] = c]
    /\ dev' = [dev EXCEPT ![r] =
                  [x \in Cells |-> IF x \in Writes[c] THEN None ELSE @[x]]]
    /\ UNCHANGED <<clientVars, loopVars, copied, gathered, wait_done, died>>

\* cuda_stream: the rank's slice arrives.
CopySlice(r) ==
    LET c == copied[r] + 1 IN
    /\ c <= launched[r]
    /\ copied' = [copied EXCEPT ![r] = c]
    /\ dev' = [dev EXCEPT ![r] =
                  [x \in Cells |-> IF x \in Writes[c] /\ Owner[x] = r
                                   THEN c ELSE @[x]]]
    /\ UNCHANGED <<clientVars, loopVars, launched, gathered, wait_done, died>>

\* nccl_stream: each rank's part waits for the rank's own copy, and the whole
\* for all ranks.
AllGather ==
    LET c == gathered + 1 IN
    /\ \A q \in Ranks : c <= copied[q]
    /\ gathered' = c
    /\ dev' = [r \in Ranks |-> [x \in Cells |->
                  IF x \in Writes[c] THEN dev[Owner[x]][x] ELSE dev[r][x]]]
    /\ UNCHANGED <<clientVars, loopVars, launched, copied, wait_done, died>>

\* Mutant: the wait thread looks at the event of the chunk after its own.
WaitNext(r) ==
    LET c == wait_done[r] + 1 IN
    /\ c <= launched[r] /\ c < gathered
    /\ wait_done' = [wait_done EXCEPT ![r] = c]
    /\ UNCHANGED <<clientVars, loopVars, launched, copied, gathered, dev, died>>

\* Mutant: the event is not recorded a second time, behind the all-gather.
WaitForCopy(r) ==
    LET c == wait_done[r] + 1 IN
    /\ c <= copied[r]
    /\ wait_done' = [wait_done EXCEPT ![r] = c]
    /\ UNCHANGED <<clientVars, loopVars, launched, copied, gathered, dev, died>>

\* wait_func: the event was recorded behind the all-gather.
WaitFunc(r) ==
    LET c == wait_done[r] + 1 IN
    /\ c <= launched[r] /\ c <= gathered
    /\ wait_done' = [wait_done EXCEPT ![r] = c]
    /\ UNCHANGED <<clientVars, loopVars, launched, copied, gathered, dev, died>>

-----------------------------------------------------------------------------
LoaderThread(r) ==
    \/ ServeGet(r) \/ ServeClose(r) \/ BeginStep(r) \/ SkipStep(r) \/ Post(r)
    \/ AnswerGet(r) \/ JoinCuda(r) \/ JoinWait(r) \/ LastStep(r)
User(r) == Get(r) \/ Close(r)
Background(r) == Launch(r) \/ CopySlice(r) \/ WaitFunc(r)

\* Blocked threads poll (pop, reap) or sleep (join): a rank that hangs is not at
\* its end, and it is for the liveness properties to say that none does.
Blocked(r) == lpc[r] # "exit" /\ UNCHANGED vars

\* A terminated process does nothing more; its collectives never complete.
Finished == \A r \in Ranks : r \in died \/ lpc[r] = "exit"
Terminated == Finished /\ UNCHANGED vars

Next ==
    \/ \E r \in Ranks \ died : User(r) \/ LoaderThread(r) \/ Background(r)
                                 \/ Blocked(r)
    \/ died = {} /\ AllGather
    \/ Terminated

Spec == Init /\ [][Next]_vars

\* Threads and streams are scheduled, NCCL finishes a collective that every
\* rank has joined, and every user's program goes on to its end.
Fairness ==
    /\ \A r \in Ranks :
          /\ WF_vars(r \notin died /\ User(r))
          /\ WF_vars(r \notin died /\ LoaderThread(r))
          /\ WF_vars(r \notin died /\ Launch(r))
          /\ WF_vars(r \notin died /\ CopySlice(r))
          /\ WF_vars(r \notin died /\ WaitFunc(r))
    /\ WF_vars(died = {} /\ AllGather)
FairSpec == Spec /\ Fairness
-----------------------------------------------------------------------------
TypeOK ==
    /\ client \in [Ranks -> {"idle", "waiting", "using", "closing", "closed"}]
    /\ held \in [Ranks -> Tensors \cup {None}]
    /\ lpc \in [Ranks -> {"top", "try", "wait_step", "post", "join_cuda", "join_wait",
                          "last_step", "exit"}]
    /\ after \in [Ranks -> {"top", "wait_step"}]
    /\ current \in [Ranks -> Tensors]
    /\ {chunk_reading, posted, launched, copied, wait_done}
          \subseteq [Ranks -> Chunks \cup {None}]
    /\ gathered \in Chunks \cup {None}
    /\ dev \in [Ranks -> [Cells -> Chunks \cup {None}]]
    /\ died \subseteq Ranks

\* On every rank the tensor in use has all its bytes, the ones other ranks read
\* included, and keeps them however far any rank has read ahead.
TensorIntact ==
    \A r \in Ranks : client[r] = "using" =>
        \A p \in Payload[held[r]] : dev[r][p[1]] = p[2]

\* A rank never runs further ahead of the slowest rank than its pipeline is
\* deep: chunks wait in their host windows for the other ranks.
BoundedLead ==
    \A r, q \in Ranks : posted[r] - posted[q] <= IoDepth

\* Every tensor asked for is delivered, on every rank.
GetAnswered == \A r \in Ranks : client[r] = "waiting" ~> client[r] = "using"

\* "no unresolved dependency when ... closing": close() returns on every rank.
CloseReturns == \A r \in Ranks : client[r] = "closing" ~> client[r] = "closed"
=============================================================================
