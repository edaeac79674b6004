----------------------- MODULE DistributedLoader_proofs -----------------------
(***************************************************************************)
(* Proofs about DistributedLoader, for any number of ranks and for every   *)
(* layout that satisfies the contract.                                     *)
(*                                                                         *)
(* The argument: a rank runs past tensor t only after its own wait thread  *)
(* has seen the all-gather of every chunk of t (PaceInv).  So when a chunk *)
(* is gathered no rank has launched a chunk that overwrites one of its     *)
(* bytes, and the slice each owner contributes is still there (DataInv).   *)
(***************************************************************************)
EXTENDS DistributedLoader, TLAPS

USE DEF vars, clientVars, loopVars, gpuVars

\* Each stage of a rank follows the one before it; the all-gather follows every
\* rank's copy, and the loop never posts more than IoDepth chunks ahead.
PipelineInv ==
    /\ \A r \in Ranks :
          /\ wait_done[r] <= gathered /\ wait_done[r] <= launched[r]
          /\ gathered <= copied[r] /\ copied[r] <= launched[r]
          /\ launched[r] <= posted[r] /\ posted[r] <= chunk_reading[r]
          /\ posted[r] <= wait_done[r] + IoDepth
          /\ chunk_reading[r] = posted[r] + (IF lpc[r] = "post" THEN 1 ELSE 0)

\* The loop serves tensors in order and reads no further than the watermark of
\* the one it serves; what it served before is complete on its device.
PaceInv ==
    \A r \in Ranks :
        /\ chunk_reading[r] <= Prefetch[current[r]]
        /\ \A t \in Tensors : t < current[r] => Last[t] <= wait_done[r]

Serving(r) == lpc[r] = "wait_step" \/ (lpc[r] = "post" /\ after[r] = "wait_step")

\* What the client of a rank has asked for and what its loop serves.
CallOf(r) ==
    /\ Serving(r) => client[r] = "waiting" /\ current[r] = held[r]
    /\ lpc[r] \in {"join_cuda", "join_wait"} => client[r] = "closing"
    /\ client[r] = "idle" => held[r] = None
    /\ held[r] = None => current[r] = 0 /\ client[r] # "using"
    /\ client[r] = "waiting" => held[r] # None
    /\ (held[r] # None /\ ~Serving(r)) =>
          IF client[r] = "waiting"
          THEN \/ held[r] = 0 /\ current[r] = 0
               \/ held[r] = current[r] + 1 /\ Last[current[r]] <= wait_done[r]
          ELSE held[r] = current[r] /\ Last[current[r]] <= wait_done[r]
CallInv == \A r \in Ranks : CallOf(r)

\* Until a chunk past tensor t's watermark is launched on rank r, its bytes are on
\* r's device: the ones of r's own slices once copied, all of them once gathered.
DataInv ==
    \A r \in Ranks : \A t \in Tensors : \A p \in Payload[t] :
        /\ launched[r] <= Prefetch[t]
        /\ p[2] <= gathered \/ (Owner[p[1]] = r /\ p[2] <= copied[r])
        => dev[r][p[1]] = p[2]

IndInv == TypeOK /\ PipelineInv /\ PaceInv /\ CallInv /\ DataInv
-----------------------------------------------------------------------------
(* The constants and the counters.                                           *)

\* The contract of the layout, tensor by tensor.
LEMMA Layout ==
    ASSUME NEW t \in Tensors
    PROVE  /\ Last[t] \in Int /\ Prefetch[t] \in Int /\ Last[t] <= Prefetch[t]
           /\ Prefetch[t] \in Chunks /\ Last[t] \in Chunks /\ t \in Int
           /\ \A u \in Tensors : t <= u => Prefetch[t] <= Prefetch[u]
           /\ \A p \in Payload[t] :
                 /\ p[1] \in Cells /\ p[2] \in Int /\ p[2] >= 0 /\ p[2] <= Last[t]
                 /\ p[1] \in Writes[p[2]] /\ Owner[p[1]] \in Ranks
                 /\ \A c \in Int : p[2] < c /\ c <= Prefetch[t] => p[1] \notin Writes[c]
  <1>1. LayoutSound(NumTensors, NumChunks, Last, Prefetch, Writes, Payload)
    BY DistributedAssumption
  <1>2. /\ Last[t] \in Int /\ Prefetch[t] \in Int /\ Last[t] <= Prefetch[t]
        /\ Prefetch[t] \in Chunks /\ Last[t] \in Chunks /\ t \in Int
        /\ \A u \in Tensors : t <= u => Prefetch[t] <= Prefetch[u]
    BY <1>1, DistributedAssumption DEF LayoutSound, WatermarksOrdered, Tensors, Chunks
  <1>3. ASSUME NEW p \in Payload[t]
        PROVE  /\ p[1] \in Cells /\ p[2] \in Int /\ p[2] >= 0 /\ p[2] <= Last[t]
               /\ p[1] \in Writes[p[2]] /\ Owner[p[1]] \in Ranks
               /\ \A c \in Int : p[2] < c /\ c <= Prefetch[t] => p[1] \notin Writes[c]
    <2>1. p \in Cells \X Chunks BY DistributedAssumption
    <2>2. p[1] \in Cells /\ p[2] \in Chunks BY <2>1
    <2>3. p[2] \in 0..Last[t] /\ p[1] \in Writes[p[2]]
      BY <1>1 DEF LayoutSound, PayloadComplete, Tensors
    <2>4. \A c \in (p[2] + 1)..Prefetch[t] : p[1] \notin Writes[c]
      BY <1>1 DEF LayoutSound, WatermarkProtects, Tensors
    <2>5. Owner[p[1]] \in Ranks BY <2>2, DistributedAssumption
    <2>6. p[2] \in Int BY <2>2 DEF Chunks
    <2>7. \A c \in Int : p[2] < c /\ c <= Prefetch[t] => p[1] \notin Writes[c]
      BY <2>4, <2>6, <1>2
    <2> QED BY <2>2, <2>3, <2>5, <2>6, <2>7, <1>2
  <1> QED BY <1>2, <1>3

\* The counters are chunk numbers, or -1 before the first chunk.
LEMMA Counters ==
    ASSUME TypeOK
    PROVE  /\ NumChunks \in Nat \ {0} /\ IoDepth \in Nat \ {0}
           /\ NumTensors \in Nat \ {0} /\ Ranks # {}
           /\ gathered \in Int /\ gathered >= -1 /\ gathered < NumChunks
           /\ \A r \in Ranks :
                 /\ current[r] \in Tensors /\ held[r] \in Int
                 /\ chunk_reading[r] \in Int /\ posted[r] \in Int
                 /\ launched[r] \in Int /\ copied[r] \in Int /\ wait_done[r] \in Int
                 /\ chunk_reading[r] >= -1 /\ posted[r] >= -1 /\ launched[r] >= -1
                 /\ copied[r] >= -1 /\ wait_done[r] >= -1
                 /\ chunk_reading[r] < NumChunks /\ posted[r] < NumChunks
                 /\ launched[r] < NumChunks /\ copied[r] < NumChunks
                 /\ wait_done[r] < NumChunks
  <1>1. /\ NumChunks \in Nat \ {0} /\ IoDepth \in Nat \ {0}
        /\ NumTensors \in Nat \ {0} /\ Ranks # {}
    BY DistributedAssumption
  <1>2. gathered \in Int /\ gathered >= -1 /\ gathered < NumChunks
    BY <1>1 DEF TypeOK, Chunks, None
  <1>3. ASSUME NEW f \in [Ranks -> Chunks \cup {None}], NEW r \in Ranks
        PROVE  f[r] \in Int /\ f[r] >= -1 /\ f[r] < NumChunks
    <2>1. f[r] \in Chunks \cup {None} BY <1>3
    <2> QED BY <1>1, <2>1 DEF Chunks, None
  <1>4. ASSUME NEW r \in Ranks PROVE current[r] \in Tensors /\ held[r] \in Int
    <2>1. current[r] \in Tensors /\ held[r] \in Tensors \cup {None} BY DEF TypeOK
    <2> QED BY <1>1, <2>1 DEF Tensors, None
  <1>5. /\ chunk_reading \in [Ranks -> Chunks \cup {None}]
        /\ posted \in [Ranks -> Chunks \cup {None}]
        /\ launched \in [Ranks -> Chunks \cup {None}]
        /\ copied \in [Ranks -> Chunks \cup {None}]
        /\ wait_done \in [Ranks -> Chunks \cup {None}]
    BY DEF TypeOK
  <1> QED BY <1>1, <1>2, <1>3, <1>4, <1>5

-----------------------------------------------------------------------------
(* Preservation of IndInv, part by part.                                     *)

\* Variables keep their types: no counter runs past the last chunk.
LEMMA TypeStep == ASSUME IndInv, Next PROVE TypeOK'
  <1>0. TypeOK /\ PipelineInv /\ PaceInv /\ CallInv BY DEF IndInv
  <1>d. DistributedAssumption BY DistributedAssumption
  <1>1. ASSUME NEW r \in Ranks, User(r) \/ LoaderThread(r) PROVE TypeOK'
    <2>1. CASE User(r)
      <3>1. CASE Get(r) BY <1>0, <3>1 DEF Get, TypeOK
      <3>2. CASE Close(r) BY <1>0, <3>2 DEF Close, TypeOK
      <3> QED BY <2>1, <3>1, <3>2 DEF User
    <2>2. CASE ServeGet(r)
      <3>1. held[r] \in Tensors BY <1>0, <2>2 DEF ServeGet, CallInv, CallOf, TypeOK
      <3> QED BY <1>0, <2>2, <3>1 DEF ServeGet, TypeOK
    <2>3. CASE ServeClose(r) \/ SkipStep(r) \/ AnswerGet(r) \/ JoinCuda(r) \/ JoinWait(r)
      <3>1. /\ client' \in [Ranks -> {"idle", "waiting", "using", "closing", "closed"}]
            /\ lpc' \in [Ranks -> {"top", "try", "wait_step", "post", "join_cuda",
                                   "join_wait", "last_step", "exit"}]
        BY <1>0, <2>3 DEF ServeClose, SkipStep, AnswerGet, JoinCuda, JoinWait, TypeOK
      <3>2. UNCHANGED <<held, after, current, chunk_reading, posted, gpuVars, died>>
        BY <2>3 DEF ServeClose, SkipStep, AnswerGet, JoinCuda, JoinWait
      <3> QED BY <1>0, <3>1, <3>2 DEF TypeOK
    <2>4. CASE BeginStep(r)
      <3>1. chunk_reading[r] + 1 \in Chunks
        BY <1>0, <2>4, Counters, Layout DEF BeginStep, CanStep, Chunks
      <3>2. chunk_reading' \in [Ranks -> Chunks \cup {None}]
        BY <1>0, <2>4, <3>1 DEF BeginStep, TypeOK
      <3> QED BY <1>0, <2>4, <3>2 DEF BeginStep, TypeOK
    <2>5. CASE Post(r) BY <1>0, <2>5 DEF Post, TypeOK
    <2>6. CASE LastStep(r) BY <1>0, <2>6 DEF LastStep, TypeOK
    <2> QED BY <1>1, <2>1, <2>2, <2>3, <2>4, <2>5, <2>6 DEF LoaderThread
  <1>2. ASSUME NEW r \in Ranks, Background(r) PROVE TypeOK'
    <2>1. CASE Launch(r)
      <3>1. launched[r] + 1 \in Chunks BY <1>0, <2>1, Counters DEF Launch, Chunks
      <3>2. launched' \in [Ranks -> Chunks \cup {None}]
        BY <1>0, <2>1, <3>1 DEF Launch, TypeOK
      <3>3. dev' \in [Ranks -> [Cells -> Chunks \cup {None}]]
        BY <1>0, <2>1 DEF Launch, TypeOK
      <3> QED BY <1>0, <2>1, <3>2, <3>3 DEF Launch, TypeOK
    <2>2. CASE CopySlice(r)
      <3>1. copied[r] + 1 \in Chunks BY <1>0, <2>2, Counters DEF CopySlice, Chunks
      <3>2. copied' \in [Ranks -> Chunks \cup {None}]
        BY <1>0, <2>2, <3>1 DEF CopySlice, TypeOK
      <3>3. dev' \in [Ranks -> [Cells -> Chunks \cup {None}]]
        BY <1>0, <2>2, <3>1 DEF CopySlice, TypeOK
      <3> QED BY <1>0, <2>2, <3>2, <3>3 DEF CopySlice, TypeOK
    <2>3. CASE WaitFunc(r)
      <3>1. wait_done[r] + 1 \in Chunks BY <1>0, <2>3, Counters DEF WaitFunc, Chunks
      <3>2. wait_done' \in [Ranks -> Chunks \cup {None}]
        BY <1>0, <2>3, <3>1 DEF WaitFunc, TypeOK
      <3> QED BY <1>0, <2>3, <3>2 DEF WaitFunc, TypeOK
    <2> QED BY <1>2, <2>1, <2>2, <2>3 DEF Background
  <1>3. CASE AllGather
    <2>1. gathered + 1 \in Chunks BY <1>0, <1>3, Counters DEF AllGather, Chunks
    <2>2. dev' \in [Ranks -> [Cells -> Chunks \cup {None}]]
      BY <1>0, <1>3, <1>d DEF AllGather, TypeOK
    <2> QED BY <1>0, <1>3, <2>1, <2>2 DEF AllGather, TypeOK
  <1>4. CASE UNCHANGED vars BY <1>0, <1>4 DEF TypeOK
  <1> QED BY <1>1, <1>2, <1>3, <1>4 DEF Next, Blocked, Terminated

\* Each stage stays behind the one before it.
LEMMA PipelineStep == ASSUME IndInv, Next PROVE PipelineInv'
  <1>0. TypeOK /\ PipelineInv /\ PaceInv /\ CallInv BY DEF IndInv
  <1> USE Counters
  <1>1. ASSUME NEW r \in Ranks, User(r) \/ LoaderThread(r) PROVE PipelineInv'
    <2>1. CASE User(r) BY <1>0, <2>1 DEF User, Get, Close, PipelineInv
    <2>2. CASE ServeGet(r) \/ ServeClose(r) \/ SkipStep(r) \/ LastStep(r)
      BY <1>0, <2>2 DEF ServeGet, ServeClose, SkipStep, LastStep, PipelineInv, TypeOK
    <2>3. CASE AnswerGet(r) \/ JoinCuda(r) \/ JoinWait(r)
      BY <1>0, <2>3 DEF AnswerGet, JoinCuda, JoinWait, PipelineInv, TypeOK
    <2>4. CASE BeginStep(r) BY <1>0, <2>4 DEF BeginStep, PipelineInv, TypeOK
    <2>5. CASE Post(r) BY <1>0, <2>5 DEF Post, PipelineInv, TypeOK
    <2> QED BY <1>1, <2>1, <2>2, <2>3, <2>4, <2>5 DEF LoaderThread
  <1>2. ASSUME NEW r \in Ranks, Background(r) PROVE PipelineInv'
    <2>1. CASE Launch(r) BY <1>0, <2>1 DEF Launch, PipelineInv, TypeOK
    <2>2. CASE CopySlice(r) BY <1>0, <2>2 DEF CopySlice, PipelineInv, TypeOK
    <2>3. CASE WaitFunc(r) BY <1>0, <2>3 DEF WaitFunc, PipelineInv, TypeOK
    <2> QED BY <1>2, <2>1, <2>2, <2>3 DEF Background
  <1>3. CASE AllGather BY <1>0, <1>3 DEF AllGather, PipelineInv
  <1>4. CASE UNCHANGED vars BY <1>0, <1>4 DEF PipelineInv
  <1> QED BY <1>1, <1>2, <1>3, <1>4 DEF Next, Blocked, Terminated

\* A request never moves the loop backwards, nor past a tensor that is not
\* complete.
LEMMA PaceStep == ASSUME IndInv, Next PROVE PaceInv'
  <1>0. TypeOK /\ PipelineInv /\ PaceInv /\ CallInv BY DEF IndInv
  <1>1. ASSUME NEW r \in Ranks, ServeGet(r) PROVE PaceInv'
    <2>1. /\ held[r] \in Tensors
          /\ \/ held[r] = current[r]
             \/ held[r] = current[r] + 1 /\ Last[current[r]] <= wait_done[r]
      BY <1>0, <1>1 DEF ServeGet, CallInv, CallOf, Serving, TypeOK
    <2>2. /\ current' = [current EXCEPT ![r] = held[r]]
          /\ UNCHANGED <<chunk_reading, wait_done>>
      BY <1>1 DEF ServeGet
    <2> SUFFICES ASSUME NEW q \in Ranks
                 PROVE  /\ chunk_reading[q] <= Prefetch[current'[q]]
                        /\ \A t \in Tensors : t < current'[q] => Last[t] <= wait_done[q]
      BY <2>2 DEF PaceInv
    <2>3. CASE q # r BY <1>0, <2>2, <2>3 DEF PaceInv, TypeOK
    <2>4. CASE q = r
      <3>1. current'[r] = held[r] BY <1>0, <2>2 DEF TypeOK
      <3>2. current[r] \in Tensors /\ chunk_reading[r] \in Int /\ current[r] \in Int
        BY <1>0, Counters, Layout
      <3>3. Prefetch[current[r]] <= Prefetch[held[r]]
        BY <2>1, <3>2, Layout DEF Tensors
      <3>4. chunk_reading[r] <= Prefetch[held[r]]
        BY <1>0, <2>1, <3>2, <3>3, Layout DEF PaceInv
      <3>5. ASSUME NEW t \in Tensors, t < held[r] PROVE Last[t] <= wait_done[r]
        <4>1. t < current[r] \/ (t = current[r] /\ Last[current[r]] <= wait_done[r])
          BY <2>1, <3>2, <3>5, Layout
        <4> QED BY <1>0, <4>1 DEF PaceInv
      <3> QED BY <2>4, <3>1, <3>4, <3>5
    <2> QED BY <2>3, <2>4
  <1>2. ASSUME NEW r \in Ranks, BeginStep(r) PROVE PaceInv'
    BY <1>0, <1>2, Counters, Layout DEF BeginStep, CanStep, PaceInv, TypeOK
  <1>3. ASSUME NEW r \in Ranks, WaitFunc(r) PROVE PaceInv'
    BY <1>0, <1>3, Counters, Layout DEF WaitFunc, PaceInv, TypeOK
  <1>4. CASE UNCHANGED <<current, chunk_reading, wait_done>>
    BY <1>0, <1>4 DEF PaceInv
  <1>5. ASSUME NEW r \in Ranks, User(r) \/ LoaderThread(r) \/ Background(r),
               ~ServeGet(r), ~BeginStep(r), ~WaitFunc(r)
        PROVE  UNCHANGED <<current, chunk_reading, wait_done>>
    BY <1>5 DEF User, Get, Close, LoaderThread, ServeClose, SkipStep, Post, AnswerGet,
           JoinCuda, JoinWait, LastStep, Background, Launch, CopySlice
  <1> QED
    BY <1>1, <1>2, <1>3, <1>4, <1>5 DEF Next, Blocked, Terminated, AllGather

\* The loop serves what its client asked for, tensor after tensor.
LEMMA CallStep == ASSUME IndInv, Next PROVE CallInv'
  <1>0. TypeOK /\ PipelineInv /\ PaceInv /\ CallInv BY DEF IndInv
  <1>a. ASSUME NEW r \in Ranks, CallOf(r)', NEW q \in Ranks, User(r) \/ LoaderThread(r)
        PROVE  CallOf(q)'
    <2>1. CASE q = r BY <1>a, <2>1
    <2>2. CASE q # r
      <3>1. /\ client'[q] = client[q] /\ held'[q] = held[q] /\ lpc'[q] = lpc[q]
            /\ after'[q] = after[q] /\ current'[q] = current[q]
            /\ wait_done'[q] = wait_done[q]
        BY <1>0, <1>a, <2>2
        DEF User, Get, Close, LoaderThread, ServeGet, ServeClose, BeginStep, SkipStep,
            Post, AnswerGet, JoinCuda, JoinWait, LastStep, TypeOK
      <3> QED BY <1>0, <3>1 DEF CallInv, CallOf, Serving
    <2> QED BY <2>1, <2>2
  <1>1. ASSUME NEW r \in Ranks, User(r) \/ LoaderThread(r) PROVE CallOf(r)'
    <2>0. CallOf(r) BY <1>0 DEF CallInv
    <2>t. /\ current[r] \in Tensors /\ current[r] \in Int /\ held[r] \in Int
          /\ wait_done[r] \in Int
      BY <1>0, Counters, Layout
    <2> USE <1>0, <2>0, <2>t DEF CallOf, Serving, TypeOK, None
    <2>1. CASE Get(r)
      <3>1. client'[r] = "waiting" /\ held'[r] = held[r] + 1 /\ held'[r] # None
        BY <2>1 DEF Get, Tensors
      <3>2. ~Serving(r) /\ client[r] \in {"idle", "using"} BY <2>1 DEF Get
      <3>3. UNCHANGED <<lpc, after, current, wait_done>> BY <2>1 DEF Get
      <3> QED BY <3>1, <3>2, <3>3
    <2>2. CASE Close(r) BY <2>2 DEF Close
    <2>3. CASE ServeGet(r) BY <2>3 DEF ServeGet
    <2>4. CASE ServeClose(r) BY <2>4 DEF ServeClose
    <2>5. CASE BeginStep(r) BY <2>5 DEF BeginStep
    <2>6. CASE SkipStep(r) BY <2>6 DEF SkipStep
    <2>7. CASE Post(r) BY <2>7 DEF Post
    <2>8. CASE AnswerGet(r) BY <2>8, Layout DEF AnswerGet
    <2>9. CASE JoinCuda(r) BY <2>9 DEF JoinCuda
    <2>10. CASE JoinWait(r) BY <2>10 DEF JoinWait
    <2>11. CASE LastStep(r) BY <2>11 DEF LastStep
    <2> QED
      BY <1>1, <2>1, <2>2, <2>3, <2>4, <2>5, <2>6, <2>7, <2>8, <2>9, <2>10, <2>11
      DEF User, LoaderThread
  <1>2. ASSUME NEW r \in Ranks, User(r) \/ LoaderThread(r) PROVE CallInv'
    BY <1>1, <1>2, <1>a DEF CallInv
  <1>3. ASSUME UNCHANGED <<client, held, lpc, after, current>>,
               \A q \in Ranks : wait_done[q] <= wait_done'[q] /\ wait_done'[q] \in Int
        PROVE  CallInv'
    <2> SUFFICES ASSUME NEW q \in Ranks PROVE CallOf(q)' BY DEF CallInv
    <2>1. CallOf(q) BY <1>0 DEF CallInv
    <2>2. Last[current[q]] \in Int /\ wait_done[q] \in Int BY <1>0, Counters, Layout
    <2>3. wait_done[q] <= wait_done'[q] /\ wait_done'[q] \in Int BY <1>3
    <2> QED BY <1>3, <2>1, <2>2, <2>3 DEF CallOf, Serving
  <1>4. ASSUME NEW r \in Ranks, Background(r) PROVE CallInv'
    <2>1. UNCHANGED <<client, held, lpc, after, current>>
      BY <1>4 DEF Background, Launch, CopySlice, WaitFunc
    <2>2. ASSUME NEW q \in Ranks
          PROVE  wait_done[q] <= wait_done'[q] /\ wait_done'[q] \in Int
      BY <1>0, <1>4, Counters DEF Background, Launch, CopySlice, WaitFunc, TypeOK
    <2> QED BY <1>3, <2>1, <2>2
  <1>5. CASE AllGather \/ UNCHANGED vars
    BY <1>0, <1>3, <1>5, Counters DEF AllGather
  <1> QED BY <1>2, <1>4, <1>5 DEF Next, Blocked, Terminated

\* No chunk up to a tensor's watermark overwrites the bytes on a device: neither
\* a copy queued on the rank itself, nor what another rank contributes.
LEMMA DataStep == ASSUME IndInv, Next PROVE DataInv'
  <1>0. TypeOK /\ PipelineInv /\ PaceInv /\ DataInv BY DEF IndInv
  <1>1. ASSUME NEW r \in Ranks, Launch(r) PROVE DataInv'
    <2> DEFINE c == launched[r] + 1
    <2> SUFFICES ASSUME NEW q \in Ranks, NEW t \in Tensors, NEW p \in Payload[t],
                        launched'[q] <= Prefetch[t],
                        \/ p[2] <= gathered
                        \/ Owner[p[1]] = q /\ p[2] <= copied[q]
                 PROVE  dev'[q][p[1]] = p[2]
      BY <1>1 DEF Launch, DataInv
    <2>1. CASE q # r
      BY <1>0, <1>1, <2>1 DEF Launch, TypeOK, DataInv
    <2>2. CASE q = r
      <3>1. launched'[r] = c BY <1>0, <1>1 DEF Launch, TypeOK
      <3>2. p[1] \in Cells /\ p[2] \in Int BY Layout
      <3>3. p[2] < c /\ c \in Int
        BY <1>0, <2>2, <3>2, Counters DEF PipelineInv
      <3>4. c <= Prefetch[t] BY <2>2, <3>1
      <3>5. p[1] \notin Writes[c] BY <3>3, <3>4, Layout
      <3>6. dev'[r][p[1]] = dev[r][p[1]] BY <1>0, <1>1, <3>2, <3>5 DEF Launch, TypeOK
      <3>7. launched[r] <= Prefetch[t] BY <1>0, <3>4, Counters, Layout
      <3> QED BY <1>0, <2>2, <3>6, <3>7 DEF DataInv
    <2> QED BY <2>1, <2>2
  <1>2. ASSUME NEW r \in Ranks, CopySlice(r) PROVE DataInv'
    <2> DEFINE c == copied[r] + 1
    <2> SUFFICES ASSUME NEW q \in Ranks, NEW t \in Tensors, NEW p \in Payload[t],
                        launched[q] <= Prefetch[t],
                        \/ p[2] <= gathered
                        \/ Owner[p[1]] = q /\ p[2] <= copied'[q]
                 PROVE  dev'[q][p[1]] = p[2]
      BY <1>2 DEF CopySlice, DataInv
    <2>1. CASE q # r
      BY <1>0, <1>2, <2>1 DEF CopySlice, TypeOK, DataInv
    <2>2. CASE q = r
      <3>1. copied'[r] = c /\ c <= launched[r] BY <1>0, <1>2 DEF CopySlice, TypeOK
      <3>2. /\ p[1] \in Cells /\ p[2] \in Int /\ c \in Int
            /\ p[1] \in Writes[p[2]]
        BY <1>0, Counters, Layout
      <3>3. dev'[r][p[1]] = IF p[1] \in Writes[c] /\ Owner[p[1]] = r
                            THEN c ELSE dev[r][p[1]]
        BY <1>0, <1>2, <3>2 DEF CopySlice, TypeOK
      <3>4. p[2] <= c
        BY <1>0, <2>2, <3>1, <3>2, Counters DEF PipelineInv
      <3>5. CASE p[2] = c /\ Owner[p[1]] = r BY <2>2, <3>2, <3>3, <3>5
      <3>6. CASE ~(p[2] = c /\ Owner[p[1]] = r)
        <4>1. p[2] <= gathered \/ (Owner[p[1]] = r /\ p[2] <= copied[r])
          BY <1>0, <2>2, <3>1, <3>2, <3>4, <3>6, Counters
        <4>2. p[2] < c
          BY <1>0, <4>1, <3>2, Counters DEF PipelineInv
        <4>3. p[1] \notin Writes[c]
          BY <1>0, <2>2, <3>1, <3>2, <4>2, Counters, Layout
        <4> QED BY <1>0, <2>2, <3>3, <4>1, <4>3 DEF DataInv
      <3> QED BY <3>5, <3>6
    <2> QED BY <2>1, <2>2
  <1>3. ASSUME AllGather PROVE DataInv'
    <2> DEFINE c == gathered + 1
    <2>1. /\ \A q \in Ranks : c <= copied[q]
          /\ gathered' = c /\ UNCHANGED <<launched, copied>>
          /\ dev' = [r \in Ranks |-> [x \in Cells |->
                        IF x \in Writes[c] THEN dev[Owner[x]][x] ELSE dev[r][x]]]
      BY <1>3 DEF AllGather
    <2> SUFFICES ASSUME NEW r \in Ranks, NEW t \in Tensors, NEW p \in Payload[t],
                        launched[r] <= Prefetch[t],
                        \/ p[2] <= c
                        \/ Owner[p[1]] = r /\ p[2] <= copied[r]
                 PROVE  dev'[r][p[1]] = p[2]
      BY <2>1 DEF DataInv
    <2> DEFINE q == Owner[p[1]]
    <2>2. /\ p[1] \in Cells /\ p[2] \in Int /\ c \in Int /\ q \in Ranks
          /\ p[1] \in Writes[p[2]] /\ p[2] <= Last[t] /\ Last[t] \in Int
          /\ Prefetch[t] \in Int
      BY <1>0, Counters, Layout
    <2>3. dev'[r][p[1]] = IF p[1] \in Writes[c] THEN dev[q][p[1]] ELSE dev[r][p[1]]
      BY <2>1, <2>2
    <2>4. c <= copied[r] /\ c <= launched[r] /\ c <= Prefetch[t]
          /\ c <= copied[q] /\ wait_done[q] < c
      BY <1>0, <2>1, <2>2, Counters DEF PipelineInv
    <2> HIDE DEF c, q
    <2>5. CASE p[2] < c
      <3>1. p[1] \notin Writes[c] BY <2>2, <2>4, <2>5, Layout
      <3>2. p[2] <= gathered BY <1>0, <2>2, <2>5, Counters DEF c
      <3> QED BY <1>0, <2>3, <3>1, <3>2 DEF DataInv
    <2>6. CASE p[2] = c
      \* The owner of the cell has not run past t: its own wait thread would have
      \* seen this all-gather.
      <3>1. launched[q] <= Prefetch[t]
        <4>1. current[q] \in Tensors /\ current[q] \in Int /\ t \in Int
          BY <1>0, <2>2, Counters, Layout
        <4>2. ~(t < current[q])
          BY <1>0, <2>2, <2>4, <2>6, Counters DEF PaceInv
        <4>3. Prefetch[current[q]] <= Prefetch[t] BY <4>1, <4>2, Layout
        <4>4. launched[q] <= Prefetch[current[q]]
          BY <1>0, <2>2, <4>1, Counters, Layout DEF PipelineInv, PaceInv
        <4> QED BY <1>0, <2>2, <4>1, <4>3, <4>4, Counters, Layout
      <3>2. dev[q][p[1]] = p[2]
        BY <1>0, <2>2, <2>4, <2>6, <3>1 DEF DataInv, q
      <3> QED BY <2>2, <2>3, <2>6, <3>2
    <2>7. CASE p[2] > c
      <3>1. q = r /\ p[2] <= copied[r] BY <2>2, <2>7 DEF q
      <3>2. dev[r][p[1]] = p[2] BY <1>0, <3>1 DEF DataInv, q
      <3> QED BY <2>3, <3>1, <3>2
    <2> QED BY <2>2, <2>5, <2>6, <2>7
  <1>4. CASE UNCHANGED <<launched, copied, gathered, dev>>
    BY <1>0, <1>4 DEF DataInv
  <1>5. ASSUME NEW r \in Ranks, User(r) \/ LoaderThread(r) \/ WaitFunc(r)
        PROVE  UNCHANGED <<launched, copied, gathered, dev>>
    BY <1>5 DEF User, Get, Close, LoaderThread, ServeGet, ServeClose, BeginStep, SkipStep,
           Post, AnswerGet, JoinCuda, JoinWait, LastStep, WaitFunc
  <1> QED
    BY <1>1, <1>2, <1>3, <1>4, <1>5 DEF Next, Background, Blocked, Terminated

-----------------------------------------------------------------------------
(* The theorems.                                                             *)

LEMMA InitIndInv == Init => IndInv
  <1> SUFFICES ASSUME Init PROVE IndInv OBVIOUS
  <1>1. TypeOK BY DistributedAssumption DEF Init, TypeOK, Tensors, None
  <1>2. PipelineInv BY DistributedAssumption DEF Init, PipelineInv, None
  <1>3. PaceInv
    <2>1. 0 \in Tensors BY DistributedAssumption DEF Tensors
    <2>2. Prefetch[0] \in Int /\ Prefetch[0] >= 0 BY <2>1, Layout DEF Chunks
    <2> QED BY <2>2 DEF Init, PaceInv, None, Tensors
  <1>4. CallInv BY DEF Init, CallInv, CallOf, Serving
  <1>5. DataInv BY Layout DEF Init, DataInv, None
  <1> QED BY <1>1, <1>2, <1>3, <1>4, <1>5 DEF IndInv

\* The ranks keep the invariant together, however far apart they run: for any
\* number of ranks, any io_depth and every layout that satisfies the contract.
THEOREM Invariance == Spec => []IndInv
  <1>1. ASSUME IndInv, [Next]_vars PROVE IndInv'
    <2>1. CASE Next
      BY <1>1, <2>1, TypeStep, PipelineStep, PaceStep, CallStep, DataStep DEF IndInv
    <2>2. CASE UNCHANGED vars
      <3>1. TypeOK' BY <1>1, <2>2 DEF IndInv, TypeOK
      <3>2. PipelineInv' BY <1>1, <2>2 DEF IndInv, PipelineInv
      <3>3. PaceInv' /\ DataInv' BY <1>1, <2>2 DEF IndInv, PaceInv, DataInv
      <3>4. CallInv' BY <1>1, <2>2 DEF IndInv, CallInv, CallOf, Serving
      <3> QED BY <3>1, <3>2, <3>3, <3>4 DEF IndInv
    <2> QED BY <1>1, <2>1, <2>2
  <1> QED BY <1>1, InitIndInv, PTL DEF Spec

\* Variables keep their types; in particular no rank reads, copies or waits for
\* a chunk past the last.
THEOREM TypeCorrect == Spec => []TypeOK
  <1>1. IndInv => TypeOK BY DEF IndInv
  <1> QED BY <1>1, Invariance, PTL

\* On every rank the tensor in use has all its bytes, the ones other ranks read
\* included: an all-gather finds every owner's slice in place, and no prefetch of
\* any rank reaches the tensor.
THEOREM HeldTensorIntact == Spec => []TensorIntact
  <1>1. IndInv => TensorIntact
    <2> SUFFICES ASSUME IndInv, NEW r \in Ranks, client[r] = "using",
                        NEW p \in Payload[held[r]]
                 PROVE  dev[r][p[1]] = p[2]
      BY DEF TensorIntact
    <2>0. TypeOK /\ PipelineInv /\ PaceInv /\ CallInv /\ DataInv BY DEF IndInv
    <2>1. held[r] = current[r] /\ Last[current[r]] <= wait_done[r]
      BY <2>0 DEF CallInv, CallOf
    <2>2. current[r] \in Tensors BY <2>0, Counters
    <2>3. launched[r] <= Prefetch[current[r]]
      BY <2>0, <2>2, Counters, Layout DEF PipelineInv, PaceInv
    <2>4. p[2] <= gathered
      BY <2>0, <2>1, <2>2, Counters, Layout DEF PipelineInv
    <2> QED BY <2>0, <2>1, <2>2, <2>3, <2>4 DEF DataInv
  <1> QED BY <1>1, Invariance, PTL

\* The all-gather paces the ranks: none submits more than io_depth chunks beyond
\* what the slowest has submitted, whatever the watermarks allow.
THEOREM LeadBounded == Spec => []BoundedLead
  <1>1. IndInv => BoundedLead
    <2> SUFFICES ASSUME IndInv, NEW r \in Ranks, NEW q \in Ranks
                 PROVE  posted[r] - posted[q] <= IoDepth
      BY DEF BoundedLead
    <2>1. TypeOK /\ PipelineInv BY DEF IndInv
    <2>2. posted[r] <= wait_done[r] + IoDepth /\ wait_done[r] <= gathered
      BY <2>1 DEF PipelineInv
    <2>3. gathered <= posted[q] BY <2>1, Counters DEF PipelineInv
    <2> QED BY <2>1, <2>2, <2>3, Counters
  <1> QED BY <1>1, Invariance, PTL
=============================================================================
