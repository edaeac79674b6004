------------------------ MODULE LoaderRuntime_proofs ------------------------
(***************************************************************************)
(* Proofs about LoaderRuntime, for every layout that satisfies the         *)
(* contract and every depth: IndInv is inductive, the safety properties    *)
(* follow from it, and each step of the loader is a step of TensorStream   *)
(* or leaves it alone.                                                     *)
(***************************************************************************)
EXTENDS LoaderImplementsStream, TLAPS

USE DEF vars, clientVars, loaderVars, taskVars, dataVars
-----------------------------------------------------------------------------
(* Host windows.                                                             *)

\* A nonzero multiple of d is at least d away from zero.
LEMMA Multiple ==
    ASSUME NEW d \in Nat \ {0}, NEW k \in Int, k # 0
    PROVE  d * k >= d \/ d * k <= -d
  <1>1. CASE k >= 1
    <2>1. d * (k - 1) >= 0 BY <1>1
    <2>2. d * (k - 1) = d * k - d OBVIOUS
    <2> QED BY <2>1, <2>2
  <1>2. CASE k <= -1
    <2>1. d * (-1 - k) >= 0 BY <1>2
    <2>2. d * (-1 - k) = -d - d * k OBVIOUS
    <2> QED BY <2>1, <2>2
  <1> QED BY <1>1, <1>2

\* Chunks less than IoDepth apart use different host windows and events: the
\* arithmetic behind chunk_id % io_depth in post_read_chunk.
LEMMA WindowDistinct ==
    ASSUME NEW a \in Int, NEW b \in Int, a # b,
           NEW lo \in Int, lo < a, lo < b, a <= lo + IoDepth, b <= lo + IoDepth
    PROVE  Window(a) # Window(b)
  <1> DEFINE d == IoDepth
             p == a \div d
             q == b \div d
  <1>1. d \in Nat \ {0} BY DepthAssumption
  <1>2. p \in Int /\ q \in Int /\ a % d \in Int /\ b % d \in Int BY <1>1
  <1>3. a = d * p + (a % d) BY <1>1
  <1>4. b = d * q + (b % d) BY <1>1
  <1> HIDE DEF d, p, q
  <1> SUFFICES ASSUME a % d = b % d PROVE FALSE
    BY DEF Window, d
  <1>5. a - b = d * p - d * q BY <1>1, <1>2, <1>3, <1>4
  <1>6. d * p - d * q = d * (p - q) BY <1>1, <1>2
  <1>7. p # q BY <1>1, <1>2, <1>5
  <1>8. d * (p - q) >= d \/ d * (p - q) <= -d BY <1>1, <1>2, <1>7, Multiple
  <1> QED BY <1>1, <1>5, <1>6, <1>8 DEF d
LEMMA WindowType == \A c \in Int : Window(c) \in Windows
  BY DepthAssumption DEF Window, Windows

-----------------------------------------------------------------------------
(* Preservation of IndInv, part by part.                                     *)

\* Counters and constants are integers.
LEMMA Counters ==
    ASSUME TypeOK
    PROVE  /\ IoDepth \in Nat \ {0} /\ MaxIoDepth \in Nat /\ IoDepth <= MaxIoDepth
           /\ NumChunks \in Nat
           /\ chunk_reading \in Int /\ chunk_read \in Int
           /\ cuda_posted \in Int /\ wait_posted \in Int
           /\ cuda_done \in Int /\ gpu_done \in Int /\ wait_done \in Int
           /\ chunk_reading >= -1 /\ chunk_reading < NumChunks
           /\ chunk_read >= -1 /\ wait_done >= -1
           /\ gpu_done >= -1 /\ cuda_done >= -1
           /\ cuda_posted < NumChunks /\ wait_posted < NumChunks
  BY SizeAssumption, DepthAssumption DEF TypeOK, CounterType, Chunks, None

\* Each stage of the pipeline follows the one before it, and the loader thread
\* is never more than IoDepth chunks ahead of what it has reaped.
LEMMA PipelineStep == ASSUME IndInv, Next PROVE PipelineInv'
  <1> USE DEF PipelineInv
  <1>t. TypeOK /\ EventInv BY DEF IndInv
  <1>0. PipelineInv BY DEF IndInv
  <1> USE <1>t, Counters
  <1>a. ASSUME ClientCalls \/ ClientReceive \/ Kernel \/ CudaConsume \/ Terminated
        PROVE  PipelineInv'
    BY <1>0, <1>a DEF ClientCalls, ClientOpen, ClientGet, ClientClose, ClientReceive,
           Kernel, KernelComplete, CudaConsume, Terminated
  <1>b. ASSUME \/ LoopTop \/ DispatchOpen \/ DispatchGet \/ DispatchClose
               \/ JoinCuda \/ JoinWait \/ Destroy
        PROVE  PipelineInv'
    BY <1>0, <1>b DEF LoopTop, DispatchOpen, DispatchGet, DispatchClose, JoinCuda,
           JoinWait, Destroy
  <1>c. ASSUME BeginStep("top") \/ BeginStep("wait_step"), UNCHANGED taskVars,
               lpc \in {"try", "wait_step"}
        PROVE  PipelineInv'
    BY <1>0, <1>c DEF BeginStep
  <1>d. ASSUME PollReadChunk, UNCHANGED <<chunk_reading, taskVars>>,
               lpc \in {"try", "poll"}, lpc' \in {"top", "wait_step"}
        PROVE  PipelineInv'
    BY <1>0, <1>d DEF PollReadChunk, Later
  <1>1. CASE TryStep
    BY <1>1, <1>c, <1>d DEF TryStep
  <1>2. CASE WaitStep
    <2>1. CASE lpc' = "guard" BY <1>2, <2>1, <1>c DEF WaitStep
    <2>2. CASE lpc' # "guard" BY <1>0, <1>2, <2>2 DEF WaitStep, BeginStep
    <2> QED BY <2>1, <2>2
  <1>3. CASE WaitForTensor
    <2>1. Last[current] \in Int BY LayoutTypes DEF TypeOK, CounterType, Chunks
    <2> QED BY <1>0, <1>3, <2>1 DEF WaitForTensor, WaitReadChunk, Later
  <1>4. CASE GuardWindow
    BY <1>0, <1>4 DEF GuardWindow, WaitReadChunk, GuardChunk, Later
  <1>5. CASE PrepRead \/ SubmitRead \/ PostCuda \/ PostWait
    BY <1>0, <1>5 DEF PrepRead, SubmitRead, PostCuda, PostWait
  <1>6. CASE StepPoll BY <1>6, <1>d DEF StepPoll, TypeOK, ControlType
  <1>7. CASE CudaLaunch \/ GpuCopy BY <1>0, <1>7 DEF CudaLaunch, GpuCopy
  <1>8. CASE WaitFunc
    <2> DEFINE c == wait_done + 1
    <2>1. c \in Chunks /\ c <= cuda_done BY <1>0, <1>8 DEF WaitFunc, Chunks
    <2>2. event[Window(c)] >= c BY <1>0, <2>1 DEF EventInv
    <2>3. event[Window(c)] \in Int
      BY <2>1, WindowType DEF TypeOK, DataType, Chunks, None
    <2>4. c <= gpu_done BY <1>0, <1>8, <2>1, <2>2, <2>3 DEF WaitFunc
    <2> QED BY <1>0, <1>8, <2>4 DEF WaitFunc
  <1> QED
    BY <1>a, <1>b, <1>1, <1>2, <1>3, <1>4, <1>5, <1>6, <1>7, <1>8
    DEF Next, LoaderStep, CudaThread

\* Control points and flags take their values only.
LEMMA ControlStep == ASSUME IndInv, Next PROVE ControlType' /\ FlagType'
  <1>0. ControlType /\ FlagType BY DEF IndInv, TypeOK
  <1>1. ControlType'
    <2> USE <1>0 DEF ControlType, ClientStates, Requests, LoaderPoints
    <2>1. CASE ClientCalls \/ ClientReceive
      BY <2>1 DEF ClientCalls, ClientOpen, ClientGet, ClientClose, ClientReceive
    <2>2. CASE LoopTop \/ DispatchOpen \/ DispatchGet \/ DispatchClose
      BY <2>2 DEF LoopTop, DispatchOpen, DispatchGet, DispatchClose
    <2>3. CASE TryStep \/ WaitStep \/ WaitForTensor \/ GuardWindow
      BY <2>3 DEF TryStep, WaitStep, WaitForTensor, GuardWindow, BeginStep
    <2>4. CASE \/ PrepRead \/ SubmitRead \/ PostCuda \/ PostWait \/ StepPoll
               \/ JoinCuda \/ JoinWait \/ Destroy
      BY <2>4 DEF PrepRead, SubmitRead, PostCuda, PostWait, StepPoll, JoinCuda,
             JoinWait, Destroy
    <2>5. CASE Kernel \/ CudaThread \/ GpuCopy \/ WaitFunc \/ Terminated
      BY <2>5 DEF Kernel, KernelComplete, CudaThread, CudaConsume, CudaLaunch,
             GpuCopy, WaitFunc, Terminated
    <2> QED BY <2>1, <2>2, <2>3, <2>4, <2>5 DEF Next, LoaderStep
  <1>2. FlagType'
    <2> USE <1>0 DEF FlagType
    <2>1. CASE ClientCalls \/ ClientReceive
      BY <2>1 DEF ClientCalls, ClientOpen, ClientGet, ClientClose, ClientReceive
    <2>2. CASE LoopTop \/ DispatchOpen \/ DispatchGet \/ DispatchClose
      BY <2>2 DEF LoopTop, DispatchOpen, DispatchGet, DispatchClose
    <2>3. CASE TryStep \/ WaitStep \/ WaitForTensor \/ GuardWindow
      BY <2>3 DEF TryStep, WaitStep, WaitForTensor, GuardWindow, BeginStep
    <2>4. CASE \/ PrepRead \/ SubmitRead \/ PostCuda \/ PostWait \/ StepPoll
               \/ JoinCuda \/ JoinWait \/ Destroy
      BY <2>4 DEF PrepRead, SubmitRead, PostCuda, PostWait, StepPoll, JoinCuda,
             JoinWait, Destroy
    <2>5. CASE Kernel \/ CudaThread \/ GpuCopy \/ WaitFunc \/ Terminated
      BY <2>5 DEF Kernel, KernelComplete, CudaThread, CudaConsume, CudaLaunch,
             GpuCopy, WaitFunc, Terminated
    <2> QED BY <2>1, <2>2, <2>3, <2>4, <2>5 DEF Next, LoaderStep
  <1> QED BY <1>1, <1>2

\* Counters stay chunk and tensor numbers: the loop stops at the last chunk.
LEMMA CounterStep == ASSUME IndInv, Next PROVE CounterType'
  <1>0. CounterType /\ PipelineInv /\ CallInv BY DEF IndInv, TypeOK
  <1> USE <1>0, SizeAssumption, LayoutTypes
          DEF CounterType, None, Chunks, Tensors
  <1>1. CASE ClientCalls \/ ClientReceive
    BY <1>1 DEF ClientCalls, ClientOpen, ClientGet, ClientClose, ClientReceive
  <1>2. CASE LoopTop \/ DispatchOpen \/ DispatchClose
    BY <1>2 DEF LoopTop, DispatchOpen, DispatchClose
  <1>3. CASE DispatchGet
    BY <1>3 DEF DispatchGet, CallInv
  <1>4. CASE TryStep
    BY <1>4 DEF TryStep, BeginStep, CanStep, PollReadChunk, Later
  <1>5. CASE WaitStep
    BY <1>5 DEF WaitStep, BeginStep, CanStep
  <1>6. CASE WaitForTensor \/ StepPoll
    BY <1>6 DEF WaitForTensor, WaitReadChunk, StepPoll, PollReadChunk, Later
  <1>7. CASE GuardWindow
    BY <1>7, DepthAssumption DEF GuardWindow, GuardChunk, WaitReadChunk, Later
  <1>8. CASE PrepRead \/ SubmitRead \/ PostCuda \/ PostWait
    BY <1>8 DEF PrepRead, SubmitRead, PostCuda, PostWait
  <1>9. CASE JoinCuda \/ JoinWait \/ Destroy
    BY <1>9 DEF JoinCuda, JoinWait, Destroy
  <1>10. CASE Kernel \/ CudaConsume \/ Terminated
    BY <1>10 DEF Kernel, KernelComplete, CudaConsume, Terminated
  <1>11. CASE CudaLaunch BY <1>11 DEF CudaLaunch
  <1>12. CASE GpuCopy BY <1>12 DEF GpuCopy
  <1>13. CASE WaitFunc BY <1>13 DEF WaitFunc
  <1> QED
    BY <1>1, <1>2, <1>3, <1>4, <1>5, <1>6, <1>7, <1>8, <1>9, <1>10, <1>11,
       <1>12, <1>13
    DEF Next, LoaderStep, CudaThread

\* The chunk being posted exists.
LEMMA PostingChunk ==
    ASSUME TypeOK, PipelineInv, lpc \in {"guard", "prep", "submit", "post_cuda"}
    PROVE  chunk_reading \in Chunks
  <1>1. cuda_posted = chunk_reading - 1 BY DEF PipelineInv
  <1> QED BY <1>1, Counters DEF TypeOK, CounterType, Chunks, PipelineInv

\* Buffers, events and completions hold chunks of the layout, and a completion
\* is never accounted twice.
LEMMA DataStep == ASSUME IndInv, Next PROVE DataType'
  <1>0. TypeOK /\ PipelineInv /\ ReadInv BY DEF IndInv
  <1>t. DataType BY <1>0 DEF TypeOK
  <1>1. CASE ClientCalls \/ ClientReceive
    BY <1>t, <1>1 DEF ClientCalls, ClientOpen, ClientGet, ClientClose,
           ClientReceive, DataType
  <1>2. CASE \/ LoopTop \/ DispatchOpen \/ DispatchGet \/ DispatchClose
             \/ TryStep \/ WaitStep \/ WaitForTensor \/ GuardWindow
             \/ PostCuda \/ PostWait \/ StepPoll \/ JoinCuda \/ JoinWait \/ Destroy
    <2>1. UNCHANGED dataVars
      BY <1>2 DEF LoopTop, DispatchOpen, DispatchGet, DispatchClose, TryStep,
             WaitStep, WaitForTensor, GuardWindow, PostCuda, PostWait, StepPoll,
             JoinCuda, JoinWait, Destroy
    <2> QED BY <1>t, <2>1 DEF DataType
  <1>3. CASE PrepRead
    <2>1. chunk_reading \in Chunks BY <1>0, <1>3, PostingChunk DEF PrepRead
    <2> QED BY <1>t, <1>3, <2>1 DEF PrepRead, DataType
  <1>4. CASE SubmitRead
    <2>1. chunk_reading \in Chunks BY <1>0, <1>4, PostingChunk DEF SubmitRead
    <2> QED BY <1>t, <1>4, <2>1 DEF SubmitRead, DataType
  <1>5. CASE Kernel
    <2>1. PICK c \in Chunks : KernelComplete(c) BY <1>5 DEF Kernel
    <2>2. PICK r \in {"full", "short", "error"} :
             /\ cq' = cq \cup {<<c, r>>}
             /\ host' = IF r = "full" THEN [host EXCEPT ![Window(c)] = c] ELSE host
      BY <2>1 DEF KernelComplete
    <2>3. UNCHANGED <<unfinished, event, dev>> /\ inflight' \subseteq inflight
      BY <2>1 DEF KernelComplete
    <2>4. host' \in [Windows -> Chunks \cup {None}] BY <1>t, <2>2 DEF DataType
    <2> QED BY <1>t, <2>2, <2>3, <2>4 DEF DataType
  <1>6. CASE CudaConsume
    <2>1. PICK e \in cq :
             /\ cq' = cq \ {e}
             /\ \/ e[2] = "full" /\ unfinished' = [unfinished EXCEPT ![e[1]] = @ - 1]
                \/ e[2] # "full" /\ UNCHANGED unfinished
      BY <1>6 DEF CudaConsume
    <2>2. e[1] \in Chunks /\ e[2] \in {"full", "short", "error"} /\ e = <<e[1], e[2]>>
      BY <1>t DEF DataType
    <2>3. unfinished[e[1]] = 1 BY <1>0 DEF ReadInv, QueuedInv
    <2>4. unfinished' \in [Chunks -> {0, 1}]
      BY <1>t, <2>1, <2>2, <2>3 DEF DataType
    <2>5. UNCHANGED <<inflight, host, event, dev>> BY <1>6 DEF CudaConsume
    <2> QED BY <1>t, <2>1, <2>4, <2>5 DEF DataType
  <1>7. CASE CudaLaunch
    <2>1. cuda_done + 1 \in Chunks
      BY <1>0, <1>7, Counters DEF CudaLaunch, Chunks
    <2> QED BY <1>t, <1>7, <2>1 DEF CudaLaunch, DataType
  <1>8. CASE GpuCopy
    <2>1. gpu_done + 1 \in Chunks
      BY <1>0, <1>8, Counters DEF GpuCopy, Chunks, PipelineInv
    <2> QED BY <1>t, <1>8, <2>1 DEF GpuCopy, DataType
  <1>9. CASE WaitFunc \/ Terminated
    BY <1>t, <1>9 DEF WaitFunc, Terminated, DataType
  <1> QED
    BY <1>1, <1>2, <1>3, <1>4, <1>5, <1>6, <1>7, <1>8, <1>9
    DEF Next, LoaderStep, CudaThread

\* Events only ever move on to later chunks.
LEMMA EventStep == ASSUME IndInv, Next PROVE EventInv'
  <1>0. TypeOK /\ EventInv /\ PipelineInv BY DEF IndInv
  <1>1. CASE CudaLaunch
    <2> DEFINE n == cuda_done + 1
    <2>1. n \in Chunks /\ cuda_done' = n /\ event' = [event EXCEPT ![Window(n)] = n]
      BY <1>0, <1>1, Counters DEF CudaLaunch, Chunks
    <2> SUFFICES ASSUME NEW c \in Chunks, c <= n PROVE event'[Window(c)] >= c
      BY <2>1 DEF EventInv
    <2>2. Window(c) \in Windows /\ Window(n) \in Windows
      BY <2>1, WindowType DEF Chunks
    <2>3. CASE Window(c) = Window(n)
      BY <1>0, <2>1, <2>2, <2>3 DEF TypeOK, DataType, Chunks
    <2>4. CASE Window(c) # Window(n)
      <3>1. c <= cuda_done BY <2>1, <2>4, <1>0, Counters DEF Chunks
      <3> QED BY <1>0, <2>1, <2>2, <2>4, <3>1 DEF EventInv, TypeOK, DataType
    <2> QED BY <2>3, <2>4
  <1>2. CASE ~CudaLaunch
    <2>1. UNCHANGED <<event, cuda_done>>
      BY <1>2 DEF Next, ClientCalls, ClientOpen, ClientGet, ClientClose,
             ClientReceive, LoaderStep, LoopTop, DispatchOpen, DispatchGet,
             DispatchClose, TryStep, WaitStep, WaitForTensor, GuardWindow,
             PrepRead, SubmitRead, PostCuda, PostWait, StepPoll, JoinCuda,
             JoinWait, Destroy, Kernel, KernelComplete, CudaThread, CudaConsume,
             GpuCopy, WaitFunc, Terminated
    <2> QED BY <1>0, <2>1 DEF EventInv
  <1> QED BY <1>1, <1>2

\* The loader thread's view of Issued: the steps of step() before and after
\* io_uring_submit.
LEMMA IssuedFacts ==
    ASSUME TypeOK, PipelineInv
    PROVE  /\ Issued \in Int /\ Issued <= chunk_reading
           /\ cuda_posted <= Issued /\ Issued <= chunk_read + IoDepth
           /\ chunk_read <= gpu_done /\ gpu_done <= Issued
  BY Counters DEF PipelineInv, Issued

\* What the parts of ReadInv say about one chunk between the completed copies
\* and the last read issued.
LEMMA PendingFacts ==
    ASSUME TypeOK, PipelineInv, ReadInv
    PROVE  /\ \A c \in Chunks : c \in Int /\ c >= 0
           /\ \A c \in Chunks : unfinished[c] \in {0, 1}
           /\ \A c \in Chunks : unfinished[c] = 1 => gpu_done < c
           /\ \A e \in cq : /\ e[1] \in Chunks /\ e[2] \in {"full", "short", "error"}
                            /\ e = <<e[1], e[2]>> /\ gpu_done < e[1]
           /\ \A c \in inflight : c \in Chunks /\ gpu_done < c
  <1>1. \A c \in Chunks : c \in Int /\ c >= 0 BY DEF Chunks
  <1>2. DataType /\ gpu_done <= cuda_done /\ gpu_done \in Int /\ cuda_done \in Int
    BY Counters DEF TypeOK, PipelineInv
  <1>3. \A c \in Chunks : unfinished[c] = 1 => gpu_done < c
    BY <1>1, <1>2 DEF ReadInv, CountInv
  <1>4. \A c \in Chunks : unfinished[c] \in {0, 1} BY <1>2 DEF DataType
  <1>5. \A e \in cq : e[1] \in Chunks /\ e[2] \in {"full", "short", "error"}
                      /\ e = <<e[1], e[2]>>
    BY <1>2 DEF DataType
  <1>6. \A e \in cq : gpu_done < e[1] BY <1>3, <1>5 DEF ReadInv, QueuedInv
  <1>7. \A c \in inflight : c \in Chunks /\ gpu_done < c
    BY <1>2, <1>3 DEF ReadInv, InflightInv, DataType
  <1> QED BY <1>1, <1>3, <1>4, <1>5, <1>6, <1>7

\* Different chunks between the end of the copies and IoDepth beyond the last
\* chunk reaped are in different windows.
LEMMA PendingWindows ==
    ASSUME TypeOK, PipelineInv,
           NEW c \in Chunks, NEW n \in Chunks, c # n, gpu_done < c, gpu_done < n,
           c <= chunk_read + IoDepth, n <= chunk_read + IoDepth
    PROVE  Window(c) # Window(n)
  <1>1. c \in Int /\ n \in Int BY DEF Chunks
  <1>2. chunk_read \in Int /\ chunk_read < c /\ chunk_read < n
    BY <1>1, IssuedFacts, Counters
  <1> QED BY <1>1, <1>2, WindowDistinct

\* Steps that touch neither reads nor windows preserve ReadInv.
LEMMA ReadUntouched ==
    ASSUME ReadInv, UNCHANGED <<inflight, cq, unfinished, host, cuda_done, gpu_done>>,
           Issued' = Issued,
           lpc = "submit" => lpc' = "submit" /\ chunk_reading' = chunk_reading,
           lpc # "submit" => lpc' # "submit"
    PROVE  ReadInv'
  <1>1. CountInv' BY DEF ReadInv, CountInv
  <1>2. InflightInv' /\ QueuedInv' /\ WindowInv'
    BY DEF ReadInv, InflightInv, QueuedInv, WindowInv
  <1> QED BY <1>1, <1>2 DEF ReadInv

\* PrepRead counts the read it is about to submit.
LEMMA ReadPrep ==
    ASSUME TypeOK, PipelineInv, ReadInv, PrepRead, live
    PROVE  ReadInv'
  <1>1. /\ UNCHANGED <<inflight, cq, host, cuda_done, gpu_done, chunk_reading>>
        /\ unfinished' = [unfinished EXCEPT ![chunk_reading] = 1]
        /\ lpc = "prep" /\ lpc' = "submit"
    BY DEF PrepRead
  <1>2. Issued' = Issued /\ Issued = chunk_reading - 1 BY <1>1 DEF Issued
  <1>3. chunk_reading \in Chunks BY <1>1, PostingChunk
  <1>4. \A c \in Chunks : unfinished'[c] = IF c = chunk_reading THEN 1 ELSE unfinished[c]
    BY <1>1, <1>3 DEF TypeOK, DataType
  <1>5. cuda_done < chunk_reading /\ chunk_reading > Issued
    BY <1>1, <1>2, Counters DEF PipelineInv
  <1>6. CountInv' BY <1>1, <1>2, <1>4, <1>5 DEF ReadInv, CountInv
  <1>7. InflightInv'
    BY <1>1, <1>2, <1>4, PendingFacts DEF ReadInv, InflightInv
  <1>8. QueuedInv'
    BY <1>1, <1>2, <1>4, PendingFacts DEF ReadInv, QueuedInv
  <1>9. WindowInv'
    BY <1>1, <1>2, <1>4 DEF ReadInv, WindowInv
  <1> QED BY <1>6, <1>7, <1>8, <1>9 DEF ReadInv

\* SubmitRead gives the kernel a window nobody else uses.
LEMMA ReadSubmit ==
    ASSUME TypeOK, PipelineInv, ReadInv, SubmitRead, lpc' # "submit"
    PROVE  ReadInv'
  <1>1. /\ UNCHANGED <<unfinished, cq, cuda_done, gpu_done, chunk_reading>>
        /\ inflight' = inflight \cup {chunk_reading}
        /\ host' = [host EXCEPT ![Window(chunk_reading)] = None]
        /\ lpc = "submit" /\ lpc' = "post_cuda"
    BY DEF SubmitRead
  <1>2. Issued' = chunk_reading /\ Issued = chunk_reading - 1 BY <1>1 DEF Issued
  <1>3. chunk_reading \in Chunks BY <1>1, PostingChunk
  <1>4. /\ chunk_reading \in Int /\ chunk_reading <= chunk_read + IoDepth
        /\ gpu_done < chunk_reading
    BY <1>1, Counters DEF PipelineInv
  <1>5. unfinished[chunk_reading] = 1
    BY <1>1, <1>2, <1>3, <1>4 DEF ReadInv, CountInv
  <1>6. ASSUME NEW c \in Chunks, gpu_done < c, c <= Issued
        PROVE  host'[Window(c)] = host[Window(c)]
    <2>1. c \in Int /\ c # chunk_reading /\ c <= chunk_read + IoDepth
      BY <1>2, <1>4, <1>6, PendingFacts, Counters
    <2>2. Window(c) # Window(chunk_reading)
      BY <1>3, <1>4, <1>6, <2>1, PendingWindows
    <2> QED BY <1>1, <2>1, <2>2, WindowType DEF TypeOK, DataType
  <1>7. \A c \in Chunks : c <= Issued' <=> c <= Issued \/ c = chunk_reading
    BY <1>2, <1>4, PendingFacts
  <1>8. CountInv'
    <2>1. \A c \in Chunks : c > Issued' => c > Issued /\ c # chunk_reading
      BY <1>2, <1>4, PendingFacts
    <2>2. \A c \in Chunks : c > Issued' => unfinished[c] = 0
      BY <2>1 DEF ReadInv, CountInv
    <2>3. \A c \in Chunks : unfinished'[c] = 1 => cuda_done' < c
      BY <1>1 DEF ReadInv, CountInv
    <2>4. unfinished' = unfinished /\ lpc' # "submit" BY <1>1
    <2> QED BY <2>2, <2>3, <2>4 DEF CountInv
  <1>9. InflightInv'
    BY <1>1, <1>3, <1>5, <1>7, PendingFacts DEF ReadInv, InflightInv
  <1>10. QueuedInv'
    <2>1. \A e \in cq : e[1] <= Issued /\ e[1] # chunk_reading
      BY <1>2, <1>4, PendingFacts DEF ReadInv, QueuedInv
    <2>2. \A e \in cq : host'[Window(e[1])] = host[Window(e[1])]
      BY <1>6, <2>1, PendingFacts
    <2> QED BY <1>1, <1>7, <2>1, <2>2, PendingFacts DEF ReadInv, QueuedInv
  <1>11. WindowInv'
    BY <1>1, <1>5, <1>6, <1>7 DEF ReadInv, WindowInv
  <1> QED BY <1>8, <1>9, <1>10, <1>11 DEF ReadInv

\* A completion fills its own window and no other pending one.
LEMMA ReadComplete ==
    ASSUME TypeOK, PipelineInv, ReadInv, NEW n \in Chunks, KernelComplete(n)
    PROVE  ReadInv'
  <1>1. PICK r \in {"full", "short", "error"} :
           /\ cq' = cq \cup {<<n, r>>}
           /\ host' = IF r = "full" THEN [host EXCEPT ![Window(n)] = n] ELSE host
    BY DEF KernelComplete
  <1>2. /\ n \in inflight /\ inflight' = inflight \ {n}
        /\ UNCHANGED <<unfinished, cuda_done, gpu_done, chunk_reading, lpc>>
        /\ Issued' = Issued
    BY DEF KernelComplete, Issued
  <1>3. n <= Issued /\ unfinished[n] = 1 /\ gpu_done < n
    BY <1>2, PendingFacts DEF ReadInv, InflightInv
  <1>4. \A e \in cq : e[1] # n BY <1>2 DEF ReadInv, QueuedInv
  <1>5. ASSUME NEW c \in Chunks, c # n, gpu_done < c, c <= Issued
        PROVE  host'[Window(c)] = host[Window(c)]
    <2>1. c \in Int /\ n \in Int BY PendingFacts
    <2>2. c <= chunk_read + IoDepth /\ n <= chunk_read + IoDepth
      BY <1>3, <1>5, <2>1, IssuedFacts, Counters
    <2>3. Window(c) # Window(n) BY <1>3, <1>5, <2>2, PendingWindows
    <2> QED BY <1>1, <2>1, <2>3, WindowType DEF TypeOK, DataType
  <1>6. r = "full" => host'[Window(n)] = n
    BY <1>1, PendingFacts, WindowType DEF TypeOK, DataType
  <1>7. CountInv' BY <1>2 DEF ReadInv, CountInv
  <1>8. InflightInv' BY <1>2 DEF ReadInv, InflightInv
  <1>9. QueuedInv'
    <2>1. \A e \in cq : /\ e[1] <= Issued /\ unfinished[e[1]] = 1 /\ e[1] \notin inflight
                        /\ e[2] = "full" => host'[Window(e[1])] = e[1]
      BY <1>4, <1>5, PendingFacts DEF ReadInv, QueuedInv
    <2>2. \A e \in cq' : /\ e[1] <= Issued /\ unfinished[e[1]] = 1 /\ e[1] \notin inflight'
                         /\ e[2] = "full" => host'[Window(e[1])] = e[1]
      BY <1>1, <1>2, <1>3, <1>6, <2>1
    <2>3. \A e, f \in cq' : e[1] = f[1] => e = f
      BY <1>1, <1>4 DEF ReadInv, QueuedInv
    <2> QED BY <1>2, <2>2, <2>3 DEF QueuedInv
  <1>10. WindowInv'
    BY <1>2, <1>3, <1>5 DEF ReadInv, WindowInv
  <1> QED BY <1>7, <1>8, <1>9, <1>10 DEF ReadInv

\* Consuming a completion counts exactly its chunk.
LEMMA ReadConsume ==
    ASSUME TypeOK, PipelineInv, ReadInv, CudaConsume
    PROVE  ReadInv'
  <1>1. PICK e \in cq :
           /\ cq' = cq \ {e}
           /\ \/ e[2] = "full" /\ unfinished' = [unfinished EXCEPT ![e[1]] = @ - 1]
              \/ e[2] # "full" /\ UNCHANGED unfinished
    BY DEF CudaConsume
  <1>2. /\ UNCHANGED <<inflight, host, cuda_done, gpu_done, chunk_reading, lpc>>
        /\ Issued' = Issued
    BY DEF CudaConsume, Issued
  <1>3. /\ e[1] \in Chunks /\ e[1] <= Issued
        /\ unfinished[e[1]] = 1 /\ e[1] \notin inflight
        /\ e[2] = "full" => host[Window(e[1])] = e[1]
        /\ \A f \in cq' : f[1] # e[1]
    BY <1>1, PendingFacts DEF ReadInv, QueuedInv
  <1>4. CASE e[2] # "full"
    BY <1>1, <1>2, <1>4 DEF ReadInv, CountInv, InflightInv, QueuedInv, WindowInv
  <1>5. CASE e[2] = "full"
    <2>1. \A c \in Chunks : unfinished'[c] = IF c = e[1] THEN 0 ELSE unfinished[c]
      BY <1>1, <1>3, <1>5 DEF TypeOK, DataType
    <2>2. Issued \in Int /\ e[1] \in Int BY <1>3, IssuedFacts, PendingFacts
    <2>3. CountInv'
      <3>1. \A c \in Chunks : c > Issued => c # e[1] BY <1>3, <2>2, PendingFacts
      <3> QED BY <1>2, <2>1, <3>1 DEF ReadInv, CountInv
    <2>4. InflightInv' BY <1>2, <1>3, <2>1, PendingFacts DEF ReadInv, InflightInv
    <2>5. QueuedInv' BY <1>1, <1>2, <1>3, <2>1, PendingFacts DEF ReadInv, QueuedInv
    <2>6. WindowInv' BY <1>2, <1>3, <1>5, <2>1 DEF ReadInv, WindowInv
    <2> QED BY <2>3, <2>4, <2>5, <2>6 DEF ReadInv
  <1> QED BY <1>4, <1>5

\* A read is accounted exactly once and its bytes stay in the host window until
\* they are copied, because nobody else uses that window.
LEMMA ReadStep == ASSUME IndInv, Next PROVE ReadInv'
  <1>0. TypeOK /\ PipelineInv /\ ReadInv BY DEF IndInv
  <1>1. CASE ClientCalls \/ ClientReceive \/ WaitFunc \/ Terminated
    <2>1. UNCHANGED <<inflight, cq, unfinished, host, cuda_done, gpu_done, lpc,
                      chunk_reading>>
      BY <1>1 DEF ClientCalls, ClientOpen, ClientGet, ClientClose, ClientReceive,
             WaitFunc, Terminated
    <2> QED BY <1>0, <2>1, ReadUntouched DEF Issued
  <1>2. CASE \/ LoopTop \/ DispatchOpen \/ DispatchGet \/ DispatchClose
             \/ WaitForTensor \/ GuardWindow \/ PostCuda \/ PostWait
             \/ JoinCuda \/ JoinWait \/ Destroy
    <2>1. /\ UNCHANGED <<inflight, cq, unfinished, host, cuda_done, gpu_done>>
          /\ lpc # "submit" /\ lpc' # "submit" /\ Issued' = Issued
      BY <1>2 DEF LoopTop, DispatchOpen, DispatchGet, DispatchClose, WaitForTensor,
             GuardWindow, PostCuda, PostWait, JoinCuda, JoinWait, Destroy, Issued
    <2> QED BY <1>0, <2>1, ReadUntouched
  <1>3. CASE StepPoll
    <2>1. ret \in {"top", "wait_step"} BY <1>0 DEF TypeOK, ControlType
    <2>2. /\ UNCHANGED <<inflight, cq, unfinished, host, cuda_done, gpu_done>>
          /\ lpc # "submit" /\ lpc' # "submit" /\ Issued' = Issued
      BY <1>3, <2>1 DEF StepPoll, Issued
    <2> QED BY <1>0, <2>2, ReadUntouched
  <1>4. CASE TryStep
    <2>1. /\ UNCHANGED <<inflight, cq, unfinished, host, cuda_done, gpu_done>>
          /\ lpc # "submit" /\ lpc' # "submit" /\ Issued' = Issued
      BY <1>0, <1>4, Counters DEF TryStep, BeginStep, Issued
    <2> QED BY <1>0, <2>1, ReadUntouched
  <1>5. CASE WaitStep
    <2>1. /\ UNCHANGED <<inflight, cq, unfinished, host, cuda_done, gpu_done>>
          /\ lpc # "submit" /\ lpc' # "submit" /\ Issued' = Issued
      BY <1>0, <1>5, Counters DEF WaitStep, BeginStep, Issued
    <2> QED BY <1>0, <2>1, ReadUntouched
  <1>6. CASE PrepRead
    <2>1. CASE ~live
      <3>1. UNCHANGED <<inflight, cq, unfinished, host, cuda_done, gpu_done, lpc,
                        chunk_reading>>
        BY <1>6, <2>1 DEF PrepRead
      <3> QED BY <1>0, <3>1, ReadUntouched DEF Issued
    <2> QED BY <1>0, <1>6, <2>1, ReadPrep
  <1>7. CASE SubmitRead
    <2>1. CASE lpc' = "submit"
      <3>1. UNCHANGED <<inflight, cq, unfinished, host, cuda_done, gpu_done, lpc,
                        chunk_reading>>
        BY <1>7, <2>1 DEF SubmitRead
      <3> QED BY <1>0, <3>1, ReadUntouched DEF Issued
    <2> QED BY <1>0, <1>7, <2>1, ReadSubmit
  <1>8. CASE Kernel BY <1>0, <1>8, ReadComplete DEF Kernel
  <1>9. CASE CudaConsume BY <1>0, <1>9, ReadConsume
  <1>10. CASE CudaLaunch
    <2>1. /\ UNCHANGED <<inflight, cq, host, unfinished, gpu_done, chunk_reading, lpc>>
          /\ cuda_done' = cuda_done + 1 /\ unfinished[cuda_done + 1] = 0
          /\ Issued' = Issued
      BY <1>10 DEF CudaLaunch, Issued
    <2>2. CountInv'
      <3>1. \A c \in Chunks : unfinished[c] = 1 => cuda_done < c /\ c # cuda_done + 1
        BY <1>0, <2>1 DEF ReadInv, CountInv
      <3>2. \A c \in Chunks : unfinished[c] = 1 => cuda_done' < c
        BY <1>0, <2>1, <3>1, PendingFacts, Counters
      <3> QED BY <1>0, <2>1, <3>2 DEF ReadInv, CountInv
    <2> QED BY <1>0, <2>1, <2>2 DEF ReadInv, InflightInv, QueuedInv, WindowInv
  <1>11. CASE GpuCopy
    <2>1. /\ UNCHANGED <<inflight, cq, host, unfinished, cuda_done, chunk_reading, lpc>>
          /\ gpu_done' = gpu_done + 1 /\ Issued' = Issued
      BY <1>11 DEF GpuCopy, Issued
    <2>2. \A c \in Chunks : gpu_done' < c => gpu_done < c
      BY <1>0, <2>1, PendingFacts, Counters
    <2> QED
      BY <1>0, <2>1, <2>2 DEF ReadInv, CountInv, InflightInv, QueuedInv, WindowInv
  <1> QED
    BY <1>1, <1>2, <1>3, <1>4, <1>5, <1>6, <1>7, <1>8, <1>9, <1>10, <1>11
    DEF Next, LoaderStep, CudaThread

\* A device cell changes only by a copy of a chunk that writes it.
LEMMA DeviceStep == ASSUME IndInv, Next PROVE DeviceInv'
  <1>0. TypeOK /\ PipelineInv /\ ReadInv /\ DeviceInv BY DEF IndInv
  <1>d. \A c \in Chunks : Writes[c] \subseteq Cells BY LayoutTypes
  <1>1. CASE CudaLaunch
    <2> DEFINE n == cuda_done + 1
    <2>1. /\ cuda_done' = n /\ gpu_done' = gpu_done /\ n \in Chunks
          /\ \A x \in Cells : dev'[x] = IF x \in Writes[n] THEN None ELSE dev[x]
      BY <1>0, <1>1, Counters DEF CudaLaunch, Chunks
    <2> SUFFICES ASSUME NEW c \in Chunks, NEW x \in Writes[c], c <= gpu_done,
                        \A d \in (c + 1)..n : x \notin Writes[d]
                 PROVE  dev'[x] = c
      BY <2>1 DEF DeviceInv
    <2>2. c \in Int /\ n \in (c + 1)..n /\ \A d \in (c + 1)..cuda_done : d \in (c + 1)..n
      BY <1>0, PendingFacts, Counters DEF PipelineInv
    <2>3. x \notin Writes[n] /\ x \in Cells BY <1>d, <2>2
    <2>4. dev[x] = c BY <1>0, <2>2 DEF DeviceInv
    <2> QED BY <2>1, <2>3, <2>4
  <1>2. CASE GpuCopy
    <2> DEFINE n == gpu_done + 1
    <2>1. n \in Chunks /\ n <= cuda_done /\ n <= Issued /\ gpu_done < n
      BY <1>0, <1>2, Counters, IssuedFacts DEF GpuCopy, Chunks, PipelineInv
    <2>2. unfinished[n] = 0
      BY <1>0, <2>1, PendingFacts, Counters DEF ReadInv, CountInv
    <2>3. host[Window(n)] = n BY <1>0, <2>1, <2>2 DEF ReadInv, WindowInv
    <2>4. /\ cuda_done' = cuda_done /\ gpu_done' = n
          /\ \A x \in Cells : dev'[x] = IF x \in Writes[n] THEN n ELSE dev[x]
      BY <1>2, <2>3 DEF GpuCopy
    <2> SUFFICES ASSUME NEW c \in Chunks, NEW x \in Writes[c], c <= n,
                        \A d \in (c + 1)..cuda_done : x \notin Writes[d]
                 PROVE  dev'[x] = c
      BY <2>4 DEF DeviceInv
    <2>5. CASE c = n BY <1>d, <2>4, <2>5
    <2>6. CASE c # n
      <3>1. c <= gpu_done /\ n \in (c + 1)..cuda_done
        BY <1>0, <2>1, <2>6, PendingFacts, Counters
      <3>2. dev[x] = c BY <1>0, <3>1 DEF DeviceInv
      <3> QED BY <1>d, <2>4, <3>1, <3>2
    <2> QED BY <2>5, <2>6
  <1>3. CASE ~CudaLaunch /\ ~GpuCopy
    <2>1. UNCHANGED <<dev, cuda_done, gpu_done>>
      BY <1>3 DEF Next, ClientCalls, ClientOpen, ClientGet, ClientClose,
             ClientReceive, LoaderStep, LoopTop, DispatchOpen, DispatchGet,
             DispatchClose, TryStep, WaitStep, WaitForTensor, GuardWindow,
             PrepRead, SubmitRead, PostCuda, PostWait, StepPoll, JoinCuda,
             JoinWait, Destroy, Kernel, KernelComplete, CudaThread, CudaConsume,
             WaitFunc, Terminated
    <2> QED BY <1>0, <2>1 DEF DeviceInv
  <1> QED BY <1>1, <1>2, <1>3

\* What the contract says about the current tensor, in the form the loop needs.
LEMMA Watermarks ==
    ASSUME NEW t \in Tensors
    PROVE  /\ Last[t] \in Int /\ Prefetch[t] \in Int /\ Last[t] <= Prefetch[t]
           /\ Prefetch[t] \in Chunks
           /\ \A u \in Tensors : t <= u => Prefetch[t] <= Prefetch[u]
  BY LayoutTypes, LayoutAssumption
  DEF LayoutSound, WatermarksOrdered, Tensors, Chunks

\* The loop stops at the watermark, and a later tensor's watermark is no lower.
LEMMA WatermarkStep == ASSUME IndInv, Next PROVE WatermarkInv'
  <1>0. TypeOK /\ WatermarkInv /\ CallInv BY DEF IndInv
  <1>t. current \in Tensors BY <1>0 DEF TypeOK, CounterType
  <1>1. CASE TryStep
    BY <1>0, <1>1, <1>t, Counters, Watermarks DEF TryStep, BeginStep, CanStep, WatermarkInv
  <1>2. CASE WaitStep
    BY <1>0, <1>2, <1>t, Counters, Watermarks DEF WaitStep, BeginStep, CanStep, WatermarkInv
  <1>3. CASE DispatchGet
    <2>1. held \in Tensors /\ current <= held /\ current' = held
          /\ chunk_reading' = chunk_reading
      BY <1>0, <1>3 DEF DispatchGet, CallInv, TypeOK, CounterType
    <2> QED BY <1>0, <1>t, <2>1, Counters, Watermarks DEF WatermarkInv
  <1>4. CASE ~TryStep /\ ~WaitStep /\ ~DispatchGet
    <2>1. UNCHANGED <<chunk_reading, current>>
      BY <1>4 DEF Next, ClientCalls, ClientOpen, ClientGet, ClientClose,
             ClientReceive, LoaderStep, LoopTop, DispatchOpen, DispatchClose,
             WaitForTensor, GuardWindow, PrepRead, SubmitRead, PostCuda, PostWait,
             StepPoll, JoinCuda, JoinWait, Destroy, Kernel, KernelComplete,
             CudaThread, CudaConsume, CudaLaunch, GpuCopy, WaitFunc, Terminated
    <2> QED BY <1>0, <2>1 DEF WatermarkInv
  <1> QED BY <1>1, <1>2, <1>3, <1>4

\* None of the loop's checks fires: the watermark is respected, and when the
\* loop may not step, the current tensor's last chunk has been posted.
LEMMA NoInternalErrorStep == ASSUME IndInv, Next PROVE NoInternalError'
  <1>0. TypeOK /\ WatermarkInv /\ CallInv /\ NoInternalError BY DEF IndInv
  <1>t. current \in Tensors BY <1>0 DEF TypeOK, CounterType
  <1>p. ~PastWatermark
    BY <1>0, <1>t, Counters, Watermarks DEF PastWatermark, WatermarkInv
  <1>1. CASE LoopTop BY <1>0, <1>1, <1>p DEF LoopTop, NoInternalError
  <1>2. CASE TryStep BY <1>0, <1>2, <1>p DEF TryStep, BeginStep, NoInternalError
  <1>3. CASE WaitStep
    <2>1. opened BY <1>0, <1>3 DEF WaitStep, CallInv, Getting
    <2>2. ~CanStep => Last[current] <= chunk_reading
      BY <1>0, <1>t, <2>1, Counters, Watermarks DEF CanStep
    <2>3. ~CanStep => ~(Last[current] > chunk_reading)
      BY <1>0, <1>t, <2>2, Counters, Watermarks
    <2> QED BY <1>0, <1>3, <1>p, <2>3 DEF WaitStep, BeginStep, NoInternalError
  <1>4. CASE DispatchGet
    <2>1. ~(held < current)
      BY <1>0, <1>4 DEF DispatchGet, CallInv, TypeOK, CounterType, Tensors, None
    <2> QED BY <1>0, <1>4, <2>1 DEF DispatchGet, NoInternalError
  <1>5. CASE ~LoopTop /\ ~TryStep /\ ~WaitStep /\ ~DispatchGet
    BY <1>0, <1>5
    DEF NoInternalError, Next, ClientCalls, ClientOpen, ClientGet, ClientClose,
        ClientReceive, LoaderStep, DispatchOpen, DispatchClose, WaitForTensor,
        GuardWindow, PrepRead, SubmitRead, PostCuda, PostWait, StepPoll, JoinCuda,
        JoinWait, Destroy, Kernel, KernelComplete, CudaThread, CudaConsume,
        CudaLaunch, GpuCopy, WaitFunc, Terminated
  <1> QED BY <1>1, <1>2, <1>3, <1>4, <1>5

\* Client and loader thread stay in agreement about the call in progress.
LEMMA CallStep == ASSUME IndInv, Next PROVE CallInv'
  <1>0. TypeOK /\ CallInv /\ PipelineInv BY DEF IndInv
  <1>t. /\ current \in Tensors /\ held \in Tensors \cup {None}
        /\ Last[current] \in Int /\ \A t \in Tensors : t \in Int /\ t >= 0
        /\ chunk_read \in Int /\ wait_done \in Int /\ None = -1
        /\ client \in ClientStates /\ req \in Requests
    BY <1>0, Watermarks, Counters
    DEF TypeOK, CounterType, ControlType, Tensors, None
  <1>1. CASE ClientOpen
    BY <1>0, <1>t, <1>1 DEF ClientOpen, CallInv, Getting, Joining, InStep
  <1>2. CASE \E t \in Tensors : ClientGet(t)
    BY <1>0, <1>t, <1>2 DEF ClientGet, CallInv, Getting, Joining, InStep
  <1>3. CASE ClientClose
    BY <1>0, <1>t, <1>3 DEF ClientClose, CallInv, Getting, Joining, InStep
  <1>4. CASE ClientReceive
    BY <1>0, <1>t, <1>4 DEF ClientReceive, CallInv, Getting, Joining, InStep
  <1>5. CASE LoopTop
    BY <1>0, <1>t, <1>5 DEF LoopTop, CallInv, Getting, Joining, InStep
  <1>6. CASE DispatchOpen
    BY <1>0, <1>t, <1>6 DEF DispatchOpen, CallInv, Getting, Joining, InStep
  <1>7. CASE DispatchGet
    BY <1>0, <1>t, <1>7 DEF DispatchGet, CallInv, Getting, Joining, InStep
  <1>8. CASE DispatchClose
    BY <1>0, <1>t, <1>8 DEF DispatchClose, CallInv, Getting, Joining, InStep
  \* The rest of the loader thread moves within a call; chunk_read only grows.
  <1>g. ASSUME UNCHANGED <<clientVars, opened, current>>,
               Getting' <=> Getting, Joining' <=> Joining,
               chunk_read' \in Int, chunk_read <= chunk_read'
        PROVE  CallInv'
    BY <1>0, <1>t, <1>g DEF CallInv
  <1>m. ASSUME PollReadChunk \/ WaitReadChunk(Last[current])
        PROVE  chunk_read' \in Int /\ chunk_read <= chunk_read'
    BY <1>t, <1>m DEF PollReadChunk, WaitReadChunk, Later
  <1>9. CASE TryStep
    <2>1. CASE CanStep
      BY <1>t, <1>9, <1>g, <2>1 DEF TryStep, BeginStep, Getting, Joining, InStep
    <2>2. CASE ~CanStep
      BY <1>9, <1>g, <1>m, <2>2 DEF TryStep, Getting, Joining, InStep
    <2> QED BY <2>1, <2>2
  <1>10. CASE WaitStep
    BY <1>0, <1>t, <1>10 DEF WaitStep, BeginStep, CallInv, Getting, Joining, InStep
  <1>11. CASE WaitForTensor
    BY <1>11, <1>g, <1>m DEF WaitForTensor, Getting, Joining, InStep
  <1>12. CASE GuardWindow
    <2>1. chunk_read' \in Int /\ chunk_read <= chunk_read'
      BY <1>0, <1>t, <1>12, Counters DEF GuardWindow, WaitReadChunk, GuardChunk, Later
    <2> QED BY <1>12, <1>g, <2>1 DEF GuardWindow, Getting, Joining, InStep
  <1>13. CASE PrepRead \/ SubmitRead \/ PostCuda \/ PostWait
    BY <1>t, <1>13, <1>g
    DEF PrepRead, SubmitRead, PostCuda, PostWait, Getting, Joining, InStep
  <1>14. CASE StepPoll
    <2>1. ret \in {"top", "wait_step"} BY <1>0 DEF TypeOK, ControlType
    <2> QED BY <1>14, <1>g, <1>m, <2>1 DEF StepPoll, Getting, Joining, InStep
  <1>15. CASE JoinCuda \/ JoinWait
    BY <1>t, <1>15, <1>g DEF JoinCuda, JoinWait, Getting, Joining, InStep
  <1>16. CASE Destroy
    BY <1>0, <1>t, <1>16 DEF Destroy, CallInv, Getting, Joining, InStep
  <1>17. CASE Kernel \/ CudaThread \/ GpuCopy \/ WaitFunc \/ Terminated
    <2>1. UNCHANGED <<clientVars, loaderVars>>
      BY <1>17 DEF Kernel, KernelComplete, CudaThread, CudaConsume, CudaLaunch,
             GpuCopy, WaitFunc, Terminated
    <2> QED BY <1>t, <1>g, <2>1 DEF Getting, Joining, InStep
  <1> QED
    BY <1>1, <1>2, <1>3, <1>4, <1>5, <1>6, <1>7, <1>8, <1>9, <1>10, <1>11, <1>12,
       <1>13, <1>14, <1>15, <1>16, <1>17
    DEF Next, ClientCalls, LoaderStep

\* Memory goes only after both executors have run all they were given, and no
\* read is issued after that.
LEMMA ReleaseStep == ASSUME IndInv, Next PROVE ReleaseInv'
  <1>0. TypeOK /\ ReleaseInv /\ PipelineInv /\ CallInv BY DEF IndInv
  <1> USE <1>0, Counters DEF ReleaseInv, Joining
  <1>1. CASE ClientCalls \/ ClientReceive \/ Kernel \/ CudaConsume \/ Terminated
    <2>1. UNCHANGED <<loaderVars, taskVars>>
      BY <1>1 DEF ClientCalls, ClientOpen, ClientGet, ClientClose, ClientReceive,
             Kernel, KernelComplete, CudaConsume, Terminated
    <2> QED BY <2>1
  <1>2. CASE LoopTop BY <1>2 DEF LoopTop
  <1>3. CASE DispatchOpen BY <1>3 DEF DispatchOpen
  <1>4. CASE DispatchGet BY <1>4 DEF DispatchGet
  <1>5. CASE DispatchClose
    <2>1. opened BY <1>5 DEF DispatchClose, CallInv
    <2>2. ~stop BY <1>5 DEF DispatchClose
    <2> QED BY <1>5, <2>1, <2>2 DEF DispatchClose
  <1>6. CASE TryStep BY <1>6 DEF TryStep, BeginStep
  <1>7. CASE WaitStep BY <1>7 DEF WaitStep, BeginStep
  <1>8. CASE WaitForTensor \/ GuardWindow BY <1>8 DEF WaitForTensor, GuardWindow
  <1>9. CASE PrepRead BY <1>9 DEF PrepRead
  <1>10. CASE SubmitRead BY <1>10 DEF SubmitRead
  <1>11. CASE PostCuda \/ PostWait BY <1>11 DEF PostCuda, PostWait
  <1>12. CASE StepPoll
    <2>1. ret \in {"top", "wait_step"} BY DEF TypeOK, ControlType
    <2> QED BY <1>12, <2>1 DEF StepPoll
  <1>13. CASE JoinCuda \/ JoinWait BY <1>13 DEF JoinCuda, JoinWait
  <1>14. CASE Destroy BY <1>14 DEF Destroy
  <1>15. CASE CudaLaunch \/ GpuCopy \/ WaitFunc
    BY <1>15 DEF CudaLaunch, GpuCopy, WaitFunc
  <1> QED
    BY <1>1, <1>2, <1>3, <1>4, <1>5, <1>6, <1>7, <1>8, <1>9, <1>10, <1>11, <1>12,
       <1>13, <1>14, <1>15
    DEF Next, LoaderStep, CudaThread

-----------------------------------------------------------------------------
(* The invariant holds, and what follows from it.                            *)

\* The invariant holds when run_loader enters the loop.
LEMMA InitIndInv == ASSUME Init PROVE IndInv
  <1> USE SizeAssumption, DepthAssumption DEF Init, None
  <1>1. ControlType /\ CounterType /\ DataType
    BY DEF ControlType, CounterType, DataType, ClientStates, Requests,
           LoaderPoints, Chunks, Tensors
  <1>2. FlagType BY DEF FlagType
  <1>3. TypeOK BY <1>1, <1>2 DEF TypeOK
  <1>4. PipelineInv BY DEF PipelineInv
  <1>5. EventInv /\ DeviceInv BY DEF EventInv, DeviceInv, Chunks
  <1>6. ReadInv
    BY DEF ReadInv, CountInv, InflightInv, QueuedInv, WindowInv, Issued, Chunks
  <1>7. WatermarkInv
    BY <1>3, Watermarks DEF WatermarkInv, TypeOK, CounterType, Chunks
  <1>8. CallInv BY DEF CallInv, Getting, Joining, InStep
  <1>9. ReleaseInv BY DEF ReleaseInv, Joining
  <1> QED
    BY <1>3, <1>4, <1>5, <1>6, <1>7, <1>8, <1>9 DEF IndInv, NoInternalError

\* Every step of every thread preserves IndInv: the induction behind every
\* safety theorem below.
LEMMA IndInvStep == ASSUME IndInv, [Next]_vars PROVE IndInv'
  <1>1. CASE Next
    <2>1. TypeOK'
      BY <1>1, ControlStep, CounterStep, DataStep DEF TypeOK
    <2> QED
      BY <1>1, <2>1, PipelineStep, EventStep, ReadStep, DeviceStep, WatermarkStep,
         CallStep, ReleaseStep, NoInternalErrorStep
      DEF IndInv
  <1>2. CASE UNCHANGED vars
    BY <1>2
    DEF IndInv, TypeOK, ControlType, FlagType, CounterType, DataType, PipelineInv,
        EventInv, ReadInv, CountInv, InflightInv, QueuedInv, WindowInv, Issued,
        DeviceInv, WatermarkInv, CallInv, Getting, Joining, InStep, ReleaseInv,
        NoInternalError
  <1> QED BY <1>1, <1>2

\* The invariant holds in every state of every behaviour of the loader, for
\* every layout that satisfies the contract and every legal io_depth.
THEOREM Invariance == Spec => []IndInv
  BY IndInvStep, InitIndInv, PTL DEF Spec

\* Variables keep their types for every layout and depth; in particular
\* chunk_reading never runs past the last chunk.
THEOREM TypeCorrect == Spec => []TypeOK
  <1>1. IndInv => TypeOK BY DEF IndInv
  <1> QED BY <1>1, Invariance, PTL

\* The payload of a tensor whose last chunk has been reaped is intact as long as
\* the loop respects the tensor's watermark.
LEMMA CurrentIntact ==
    ASSUME IndInv, Last[current] <= chunk_read
    PROVE  Intact(current)
  <1>0. TypeOK /\ PipelineInv /\ DeviceInv /\ WatermarkInv BY DEF IndInv
  <1>1. current \in Tensors BY <1>0 DEF TypeOK, CounterType
  <1>2. ASSUME NEW p \in Payload[current] PROVE dev[p[1]] = p[2]
    <2>1. p[1] \in Cells /\ p[2] \in Chunks BY <1>1, LayoutTypes
    <2>2. /\ p[2] \in 0..Last[current] /\ p[1] \in Writes[p[2]]
          /\ \A c \in (p[2] + 1)..Prefetch[current] : p[1] \notin Writes[c]
      BY <1>1, LayoutAssumption
      DEF LayoutSound, PayloadComplete, WatermarkProtects, Tensors
    <2>3. p[2] \in Int /\ p[2] <= gpu_done
      BY <1>0, <1>1, <2>2, Counters, Watermarks DEF PipelineInv
    <2>4. cuda_done <= Prefetch[current]
      BY <1>0, <1>1, Counters, Watermarks DEF PipelineInv, WatermarkInv
    <2>5. \A c \in (p[2] + 1)..cuda_done : c \in (p[2] + 1)..Prefetch[current]
      BY <1>0, <1>1, <2>3, <2>4, Counters, Watermarks
    <2>6. \A c \in (p[2] + 1)..cuda_done : p[1] \notin Writes[c]
      BY <2>2, <2>5
    <2> QED BY <1>0, <2>1, <2>2, <2>3, <2>6 DEF DeviceInv
  <1> QED BY <1>2 DEF Intact

\* The overwrite watermark works: for every layout that satisfies the contract,
\* the tensor in the client's hands is never overwritten by prefetching.
THEOREM HeldTensorIntact == Spec => []TensorIntact
  <1>1. IndInv => TensorIntact
    <2> SUFFICES ASSUME IndInv, client = "using" PROVE Intact(held)
      BY DEF TensorIntact
    <2>0. TypeOK /\ CallInv BY DEF IndInv
    <2>1. held = current /\ chunk_read >= Last[current] BY <2>0 DEF CallInv
    <2>2. current \in Tensors BY <2>0 DEF TypeOK, CounterType
    <2>3. Last[current] <= chunk_read BY <2>0, <2>1, <2>2, Counters, Watermarks
    <2> QED BY <2>1, <2>3, CurrentIntact
  <1> QED BY <1>1, Invariance, PTL

\* chunk_id % io_depth with the wait before reuse keeps host windows apart.
THEOREM WindowsExclusive == Spec => []WindowExclusive
  <1>1. IndInv => WindowExclusive
    <2> SUFFICES ASSUME IndInv, NEW c \in inflight, NEW d \in Chunks,
                        gpu_done < d, d <= Issued, d # c
                 PROVE  Window(d) # Window(c)
      BY DEF WindowExclusive
    <2>0. TypeOK /\ PipelineInv /\ ReadInv BY DEF IndInv
    <2>1. c \in Chunks /\ gpu_done < c /\ c \in Int /\ d \in Int
      BY <2>0, PendingFacts
    <2>2. c <= Issued BY <2>0 DEF ReadInv, InflightInv
    <2>3. c <= chunk_read + IoDepth /\ d <= chunk_read + IoDepth
      BY <2>0, <2>1, <2>2, IssuedFacts, Counters
    <2> QED BY <2>0, <2>1, <2>3, PendingWindows
  <1> QED BY <1>1, Invariance, PTL

\* The "Internal error" checks of can_step, wait_read_chunk and get_tensor_ptr
\* are unreachable.
THEOREM ChecksNeverFire == Spec => []NoInternalError
  <1>1. IndInv => NoInternalError BY DEF IndInv
  <1> QED BY <1>1, Invariance, PTL

\* The executors' queues have room for everything that is ever outstanding.
THEOREM QueuesSuffice == Spec => []QueuesNeverFull
  <1>1. IndInv => QueuesNeverFull
    BY Counters DEF IndInv, PipelineInv, QueuesNeverFull
  <1> QED BY <1>1, Invariance, PTL

\* close() frees memory only when neither the kernel nor the GPU uses it.
THEOREM ReleaseSafe == Spec => []ReleasedWhenQuiet
  <1>1. IndInv => ReleasedWhenQuiet
    <2> SUFFICES ASSUME IndInv, opened, ~live
                 PROVE  /\ inflight = {} /\ cq = {}
                        /\ gpu_done = cuda_posted /\ wait_done = cuda_posted
      BY DEF ReleasedWhenQuiet
    <2>0. TypeOK /\ PipelineInv /\ ReadInv /\ ReleaseInv BY DEF IndInv
    <2>1. cuda_done = cuda_posted /\ wait_done = wait_posted
      BY <2>0 DEF ReleaseInv
    <2>2. lpc \notin {"submit", "post_cuda", "post_wait"}
      BY <2>0 DEF ReleaseInv, Joining
    <2>3. wait_posted = cuda_posted /\ Issued = cuda_posted
      BY <2>0, <2>2 DEF PipelineInv, Issued
    <2>4. \A c \in Chunks : unfinished[c] = 1 => ~(c <= Issued)
      BY <2>0, <2>1, <2>3, PendingFacts, Counters DEF ReadInv, CountInv
    <2>5. inflight = {}
      BY <2>0, <2>4, PendingFacts DEF ReadInv, InflightInv
    <2>6. cq = {}
      BY <2>0, <2>4, PendingFacts DEF ReadInv, QueuedInv
    <2>7. gpu_done = cuda_posted BY <2>0, <2>1, <2>3, Counters DEF PipelineInv
    <2> QED BY <2>1, <2>3, <2>5, <2>6, <2>7
  <1> QED BY <1>1, Invariance, PTL

\* Only a reaping step moves chunk_read, forward, and not past wait_done.
LEMMA ReapStep ==
    ASSUME IndInv, Next, chunk_read' # chunk_read
    PROVE  chunk_read < chunk_read' /\ chunk_read' <= wait_done
  <1>0. TypeOK /\ PipelineInv BY DEF IndInv
  <1>l. Last[current] \in Int BY <1>0, Watermarks DEF TypeOK, CounterType
  <1>1. CASE TryStep \/ StepPoll
    BY <1>0, <1>1, Counters DEF TryStep, BeginStep, StepPoll, PollReadChunk, Later
  <1>2. CASE WaitForTensor
    BY <1>0, <1>l, <1>2, Counters DEF WaitForTensor, WaitReadChunk, Later
  <1>3. CASE GuardWindow
    BY <1>0, <1>3, Counters DEF GuardWindow, GuardChunk, WaitReadChunk, Later
  <1>4. CASE ~TryStep /\ ~StepPoll /\ ~WaitForTensor /\ ~GuardWindow
    BY <1>4
    DEF Next, ClientCalls, ClientOpen, ClientGet, ClientClose, ClientReceive,
        LoaderStep, LoopTop, DispatchOpen, DispatchGet, DispatchClose, WaitStep,
        BeginStep, PrepRead, SubmitRead, PostCuda, PostWait, JoinCuda, JoinWait,
        Destroy, Kernel, KernelComplete, CudaThread, CudaConsume, CudaLaunch,
        GpuCopy, WaitFunc, Terminated
  <1> QED BY <1>1, <1>2, <1>3, <1>4

\* A chunk is reported as read only when it and its predecessors are on the
\* device: read, copied and synchronized, not merely submitted or launched.
THEOREM ReapedChunksCopied == Spec => ReapedMeansCopied
  <1>1. ASSUME IndInv, Next, chunk_read' # chunk_read
        PROVE  /\ chunk_read < chunk_read'
               /\ \A c \in 0..chunk_read' :
                     c <= gpu_done /\ c \notin inflight /\ unfinished[c] = 0
    <2>0. TypeOK /\ PipelineInv /\ ReadInv BY <1>1 DEF IndInv
    <2>1. chunk_read < chunk_read' /\ chunk_read' <= wait_done BY <1>1, ReapStep
    <2>2. chunk_read' \in Int
      BY <1>1, CounterStep DEF CounterType, Chunks, None
    <2>3. ASSUME NEW c \in 0..chunk_read'
          PROVE  c <= gpu_done /\ c \in Chunks
      BY <2>0, <2>1, <2>2, Counters DEF PipelineInv, Chunks
    <2>4. ASSUME NEW c \in 0..chunk_read'
          PROVE  c \notin inflight /\ unfinished[c] = 0
      <3>1. c \in Int /\ ~(gpu_done < c) BY <2>0, <2>3, PendingFacts, Counters
      <3> QED BY <2>0, <2>3, <3>1, PendingFacts
    <2> QED BY <2>1, <2>3, <2>4
  <1>2. IndInv /\ [Next]_vars =>
          [chunk_read' # chunk_read =>
             /\ chunk_read < chunk_read'
             /\ \A c \in 0..chunk_read' :
                   c <= gpu_done /\ c \notin inflight /\ unfinished[c] = 0]_vars
    BY <1>1
  <1> QED BY <1>2, Invariance, PTL DEF Spec, ReapedMeansCopied

-----------------------------------------------------------------------------
(* The abstract stream.                                                      *)

View == IF client = "using" THEN ViewOf(held) ELSE {}

\* An intact tensor shows the bytes of the file.
LEMMA IntactView ==
    ASSUME NEW t \in Tensors, Intact(t)
    PROVE  ViewOf(t) = Payload[t]
  <1>1. \A p \in Payload[t] : p = <<p[1], p[2]>> BY LayoutTypes
  <1> QED BY <1>1 DEF Intact, ViewOf

\* While a tensor is in use its view is the file's.
LEMMA UsingView ==
    ASSUME IndInv, client = "using"
    PROVE  held \in Tensors /\ held = current /\ ViewOf(held) = Payload[held]
  <1>0. TypeOK /\ CallInv BY DEF IndInv
  <1>1. current \in Tensors BY <1>0 DEF TypeOK, CounterType
  <1>2. held = current /\ chunk_read >= Last[current] BY <1>0 DEF CallInv
  <1>3. Last[current] <= chunk_read BY <1>0, <1>1, <1>2, Counters, Watermarks
  <1> QED BY <1>1, <1>2, <1>3, CurrentIntact, IntactView

\* A delivery shows the tensor that was asked for.
LEMMA DeliveredView ==
    ASSUME IndInv, client = "waiting", resp
    PROVE  held \in Tensors /\ ViewOf(held) = Payload[held]
  <1>0. TypeOK /\ CallInv BY DEF IndInv
  <1>1. current \in Tensors BY <1>0 DEF TypeOK, CounterType
  <1>2. held = current /\ chunk_read >= Last[current] BY <1>0 DEF CallInv
  <1>3. Last[current] <= chunk_read BY <1>0, <1>1, <1>2, Counters, Watermarks
  <1> QED BY <1>1, <1>2, <1>3, CurrentIntact, IntactView

\* A step that is not the client's leaves what the client sees alone.
LEMMA QuietStep ==
    ASSUME IndInv, IndInv', UNCHANGED <<client, held>>
    PROVE  View' = View
  <1>1. CASE client = "using"
    <2>1. ViewOf(held) = Payload[held] BY <1>1, UsingView
    <2>2. (ViewOf(held))' = Payload[held]
      <3>1. (IndInv /\ client = "using" => ViewOf(held) = Payload[held])'
        BY UsingView, PTL
      <3> QED BY <1>1, <3>1
    <2> QED BY <1>1, <2>1, <2>2 DEF View
  <1>2. CASE client # "using" BY <1>2 DEF View
  <1> QED BY <1>1, <1>2

\* The loader starts as the stream does.
LEMMA StartMaps == ASSUME Init PROVE Stream!StreamInit
  BY DEF Init, Stream!StreamInit, Stream!Nothing, None

\* A call of the client, or an answer it receives, is that call or answer of
\* the stream; nothing else moves the client.
LEMMA ClientMaps ==
    ASSUME IndInv, abort = "no", ClientCalls \/ ClientReceive
    PROVE  Stream!StreamNext
  <1>1. CASE ClientOpen
    BY <1>1 DEF ClientOpen, Stream!StreamNext, Stream!Open, Stream!Call, Stream!Nothing
  <1>2. CASE ClientClose
    BY <1>2 DEF ClientClose, Stream!StreamNext, Stream!Close, Stream!Call, Stream!Nothing
  <1>3. ASSUME NEW t \in Tensors, ClientGet(t) PROVE Stream!StreamNext
    <2>1. t \in (held + 1)..(NumTensors - 1)
      BY <1>3, Counters, SizeAssumption DEF IndInv, TypeOK, CounterType, ClientGet, Tensors, None
    <2> QED BY <1>3, <2>1
      DEF ClientGet, Stream!StreamNext, Stream!Request, Stream!Call, Stream!Nothing
  <1>4. CASE ClientReceive
    <2>1. client \in {"opening", "waiting", "closing"}
      BY <1>4 DEF ClientReceive, IndInv, CallInv, TypeOK, ControlType, ClientStates
    <2>2. CASE client = "opening"
      BY <1>4, <2>2 DEF ClientReceive, Stream!StreamNext, Stream!Opened,
                        Stream!Answer, Stream!Nothing
    <2>3. CASE client = "waiting"
      <3>1. ViewOf(held)' = Payload[held]
        <4>1. ViewOf(held) = Payload[held] BY <1>4, <2>3, DeliveredView DEF ClientReceive
        <4>2. UNCHANGED <<held, dev>> BY <1>4 DEF ClientReceive, dataVars
        <4> QED BY <4>1, <4>2 DEF ViewOf
      <3> QED BY <1>4, <2>3, <3>1
        DEF ClientReceive, Stream!StreamNext, Stream!Deliver, Stream!Answer
    <2>4. CASE client = "closing"
      BY <1>4, <2>4 DEF ClientReceive, Stream!StreamNext, Stream!Closed,
                        Stream!Answer, Stream!Nothing
    <2> QED BY <2>1, <2>2, <2>3, <2>4
  <1> QED BY <1>1, <1>2, <1>3, <1>4 DEF ClientCalls

\* Any other step leaves the client's state alone.
LEMMA OthersQuiet ==
    ASSUME LoaderStep \/ Kernel \/ CudaThread \/ GpuCopy \/ WaitFunc
    PROVE  UNCHANGED <<client, held>>
  BY DEF LoaderStep, LoopTop, DispatchOpen, DispatchGet, DispatchClose, TryStep,
         WaitStep, WaitForTensor, GuardWindow, PrepRead, SubmitRead, PostCuda,
         PostWait, StepPoll, JoinCuda, JoinWait, Destroy, Kernel, KernelComplete,
         CudaThread, CudaConsume, CudaLaunch, GpuCopy, WaitFunc, clientVars

\* Every step of the loader is a step of the stream, or none.
LEMMA StepMaps ==
    ASSUME IndInv, IndInv', [Next]_vars
    PROVE  [Stream!StreamNext]_(Stream!streamVars)
  <1>1. ASSUME UNCHANGED <<client, held>>, abort = "no" \/ abort' = abort
        PROVE  [Stream!StreamNext]_(Stream!streamVars)
    <2>1. View' = View BY <1>1, QuietStep
    <2>2. CASE abort' = abort BY <1>1, <2>1, <2>2 DEF View, Stream!streamVars
    <2>3. CASE abort = "no" /\ abort' # "no"
      BY <1>1, <2>1, <2>3 DEF View, Stream!StreamNext, Stream!Die
    <2> QED BY <1>1, <2>2, <2>3
  <1>2. CASE UNCHANGED vars BY <1>1, <1>2 DEF vars, clientVars
  <1>3. CASE Next
    <2>1. CASE Terminated BY <1>1, <2>1 DEF Terminated, vars, clientVars
    <2>2. CASE abort = "no" /\ (ClientCalls \/ ClientReceive) BY <2>2, ClientMaps
    <2>3. CASE abort = "no" /\ (LoaderStep \/ Kernel \/ CudaThread \/ GpuCopy \/ WaitFunc)
      BY <1>1, <2>3, OthersQuiet
    <2> QED BY <1>3, <2>1, <2>2, <2>3 DEF Next
  <1> QED BY <1>2, <1>3

\* The safety half of ImplementsStream, for every layout that satisfies the
\* contract, every depth and every fault: the client sees the tensors it asks
\* for, in order, each with the bytes of the file for as long as it is in use.
THEOREM StreamImplemented == Spec => Stream!StreamSafety
  <1>1. Spec => [](IndInv) BY Invariance
  <1> QED BY <1>1, StartMaps, StepMaps, PTL DEF Spec, Stream!StreamSafety
=============================================================================
