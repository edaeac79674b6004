-------------------------- MODULE TaskExecutor_proofs --------------------------
(***************************************************************************)
(* Proofs about TaskExecutor, for any number of workers and tasks and any  *)
(* capacity: no task is lost or run twice, neither queue is ever too       *)
(* small, and the executor implements TaskPool.                            *)
(*                                                                         *)
(* The argument: task_queue holds the last tasks submitted, in order, and  *)
(* then the sentinels (QueueInv).  So every task before the head of the    *)
(* queue has been taken by a worker, and it is with one worker, or a       *)
(* result, or reaped (PlaceInv).                                           *)
(***************************************************************************)
EXTENDS TaskExecutor, DataLemmas

\* The workers that have met a sentinel.
Exited == {w \in Workers : wpc[w] = "exit"}

\* Tasks among the elements of task_queue, and the first of them.
Queued == Len(task_queue) - (stops - Cardinality(Exited))
First == submitted - Queued + 1

\* The tasks in order, the sentinels behind them; a worker leaves only when all
\* tasks have been taken.
QueueInv ==
    /\ Queued \in 0..Len(task_queue) /\ reaped < First /\ Queued <= submitted
    /\ \A k \in 1..Len(task_queue) :
          task_queue[k] = IF k <= Queued THEN First + k - 1 ELSE Stop
    /\ Exited # {} => Queued = 0

\* The tasks whose results are with a worker, in the queue of results or cached.
Working == {w \in Workers : pending[w] # Idle}
WithWorkers == {pending[w] : w \in Working}
Results == ToSet(result_queue)

\* A task that was taken and is not reaped is in one of these places.
PlaceInv ==
    /\ \A w \in Workers : pending[w] # Idle <=> wpc[w] \in {"run", "push"}
    /\ \A v, w \in Working : pending[v] = pending[w] => v = w
    /\ IsInjective(result_queue)
    /\ WithWorkers \cap Results = {} /\ WithWorkers \cap completed_results = {}
    /\ Results \cap completed_results = {}
    /\ WithWorkers \cup Results \cup completed_results = (reaped + 1)..(First - 1)

\* A task has run when it was taken and no worker is still at it.
RanInv ==
    \A t \in Ids :
        ran[t] = IF t < First /\ \A w \in Workers : wpc[w] = "run" => pending[w] # t
                 THEN 1 ELSE 0

\* The submitter keeps the caller's bound, and pushes its sentinels at the end.
SubmitInv ==
    /\ submitted - reaped <= Outstanding
    /\ spc = "submit" => submitted < Tasks /\ submitted - reaped < Outstanding
    /\ spc \in {"open", "submit"} => stops = 0
    /\ spc = "stop" => stops < setup.num_threads
    /\ spc \in {"join", "joined"} => stops = setup.num_threads
    /\ rpc # "off" => reaped < submitted

IndInv == TypeOK /\ QueueInv /\ PlaceInv /\ RanInv /\ SubmitInv

\* A caller that keeps its bound never waits for a place in a queue: submit()
\* finds room in task_queue, and a worker finds room in result_queue.
QueuesSuffice ==
    /\ spc = "submit" => Len(task_queue) < Capacity
    /\ \A w \in Workers : wpc[w] = "push" => Len(result_queue) < Capacity
-----------------------------------------------------------------------------
(* The queue of tasks.                                                       *)

LEMMA Numbers ==
    ASSUME TypeOK
    PROVE  /\ setup.num_threads \in Nat \ {0}
           /\ Tasks \in Nat /\ Capacity \in Nat /\ Outstanding \in Nat
           /\ Outstanding <= Capacity
           /\ submitted \in Nat /\ reaped \in Nat /\ stops \in Nat
           /\ reaped <= submitted /\ submitted <= Tasks /\ stops <= setup.num_threads
           /\ Len(task_queue) \in Nat /\ Len(result_queue) \in Nat
           /\ IsFiniteSet(Workers) /\ Cardinality(Workers) = setup.num_threads
           /\ IsFiniteSet(Exited) /\ Cardinality(Exited) \in Nat
           /\ Queued \in Int /\ First \in Int /\ First = submitted - Queued + 1
           /\ Queued = Len(task_queue) - stops + Cardinality(Exited)
  <1>1. setup.num_threads \in Nat \ {0} BY ExecutorAssumption DEF TypeOK
  <1>2. /\ Tasks \in Nat /\ Capacity \in Nat /\ Outstanding \in Nat
        /\ Outstanding <= Capacity
    BY ExecutorAssumption, OutstandingAssumption
  <1>3. /\ submitted \in Nat /\ reaped \in Nat /\ stops \in Nat
        /\ reaped <= submitted /\ submitted <= Tasks /\ stops <= setup.num_threads
    BY <1>1, <1>2 DEF TypeOK
  <1>4. Len(task_queue) \in Nat /\ Len(result_queue) \in Nat
    BY LenProperties DEF TypeOK
  <1>5. IsFiniteSet(Workers) /\ Cardinality(Workers) = setup.num_threads
    BY <1>1, FS_Interval DEF Workers
  <1>6. IsFiniteSet(Exited) /\ Cardinality(Exited) \in Nat
    BY <1>5, FS_Subset, FS_CardinalityType DEF Exited
  <1>7. /\ Queued \in Int /\ First \in Int /\ First = submitted - Queued + 1
        /\ Queued = Len(task_queue) - stops + Cardinality(Exited)
    BY <1>3, <1>4, <1>6 DEF Queued, First
  <1> QED BY <1>1, <1>2, <1>3, <1>4, <1>5, <1>6, <1>7

\* Who may run does not change after start().
LEMMA SameSetup == Next => setup' = setup /\ Workers' = Workers
  BY DEF Next, Submitter, Reaper, Worker, Submit, PushTask, RequestStop, PushStop, Join,
         Reap, TakeCached, DrainResult, NotReady, TakeTask, RunTask, PushResult, Yield,
         PushBlocked, Joined, vars, Workers

\* A step that neither pushes nor pops tasks.
QueueSame ==
    /\ UNCHANGED <<setup, task_queue, stops, submitted>>
    /\ \A w \in Workers : wpc'[w] = "exit" <=> wpc[w] = "exit"

LEMMA QueueSameFacts ==
    ASSUME TypeOK, QueueSame
    PROVE  Exited' = Exited /\ Queued' = Queued /\ First' = First
  <1>1. Exited' = Exited BY DEF QueueSame, Exited, Workers
  <1> QED BY <1>1 DEF QueueSame, Queued, First

\* submit() appends the next task.
LEMMA PushTaskMove ==
    ASSUME IndInv, PushTask
    PROVE  /\ Exited' = Exited /\ Queued' = Queued + 1 /\ First' = First
           /\ task_queue' \in Seq(Ids \cup {Stop})
           /\ Len(task_queue') = Len(task_queue) + 1
           /\ \A k \in 1..Len(task_queue) : task_queue'[k] = task_queue[k]
           /\ task_queue'[Len(task_queue) + 1] = submitted + 1
           /\ Queued = Len(task_queue) /\ submitted + 1 \in Ids
  <1>0. TypeOK /\ QueueInv /\ SubmitInv BY DEF IndInv
  <1>n. /\ Len(task_queue) \in Nat /\ Cardinality(Exited) \in Nat /\ stops \in Nat
        /\ Queued \in Int /\ First \in Int /\ submitted \in Nat /\ reaped \in Nat
        /\ First = submitted - Queued + 1
        /\ Queued = Len(task_queue) - stops + Cardinality(Exited)
    BY <1>0, Numbers
  <1>d. /\ Queued' = Len(task_queue') - (stops' - Cardinality(Exited'))
        /\ First' = submitted' - Queued' + 1
    BY DEF Queued, First
  <1>1. submitted + 1 \in Ids BY <1>0, Numbers, SMTT(40) DEF PushTask, SubmitInv, Ids
  <1>2. task_queue' = Append(task_queue, submitted + 1) /\ submitted' = submitted + 1
        /\ UNCHANGED <<wpc, stops, setup>>
    BY DEF PushTask
  <1>3. /\ task_queue' \in Seq(Ids \cup {Stop})
        /\ Len(task_queue') = Len(task_queue) + 1
        /\ \A k \in 1..Len(task_queue) : task_queue'[k] = task_queue[k]
        /\ task_queue'[Len(task_queue) + 1] = submitted + 1
    BY <1>0, <1>1, <1>2, AppendProperties DEF TypeOK
  <1>4. Exited' = Exited BY <1>2 DEF Exited, Workers
  <1>5. Queued' = Queued + 1 /\ First' = First
    <2>1. /\ Len(task_queue') = Len(task_queue) + 1 /\ stops' = stops
          /\ Cardinality(Exited') = Cardinality(Exited) /\ submitted' = submitted + 1
      BY <1>2, <1>3, <1>4
    <2>2. Queued' = Queued + 1 BY <1>d, <1>n, <2>1, SMTT(40)
    <2> QED BY <1>d, <1>n, <2>1, <2>2
  <1>6. stops = 0 BY <1>0 DEF PushTask, SubmitInv
  <1>7. Queued = Len(task_queue) BY <1>0, <1>6, Numbers DEF QueueInv
  <1> QED BY <1>1, <1>3, <1>4, <1>5, <1>7

\* stop() appends a sentinel.
LEMMA PushStopMove ==
    ASSUME IndInv, PushStop
    PROVE  /\ Exited' = Exited /\ Queued' = Queued /\ First' = First
           /\ task_queue' \in Seq(Ids \cup {Stop})
           /\ Len(task_queue') = Len(task_queue) + 1
           /\ \A k \in 1..Len(task_queue) : task_queue'[k] = task_queue[k]
           /\ task_queue'[Len(task_queue) + 1] = Stop
  <1>0. TypeOK /\ QueueInv /\ SubmitInv BY DEF IndInv
  <1>n. /\ Len(task_queue) \in Nat /\ Cardinality(Exited) \in Nat /\ stops \in Nat
        /\ Queued \in Int /\ First \in Int /\ submitted \in Nat /\ reaped \in Nat
        /\ First = submitted - Queued + 1
        /\ Queued = Len(task_queue) - stops + Cardinality(Exited)
    BY <1>0, Numbers
  <1>d. /\ Queued' = Len(task_queue') - (stops' - Cardinality(Exited'))
        /\ First' = submitted' - Queued' + 1
    BY DEF Queued, First
  <1>1. task_queue' = Append(task_queue, Stop) /\ stops' = stops + 1
        /\ UNCHANGED <<wpc, submitted, setup>>
    BY DEF PushStop
  <1>2. /\ task_queue' \in Seq(Ids \cup {Stop})
        /\ Len(task_queue') = Len(task_queue) + 1
        /\ \A k \in 1..Len(task_queue) : task_queue'[k] = task_queue[k]
        /\ task_queue'[Len(task_queue) + 1] = Stop
    BY <1>0, <1>1, AppendProperties DEF TypeOK
  <1>3. Exited' = Exited BY <1>1 DEF Exited, Workers
  <1>4. Queued' = Queued /\ First' = First BY <1>1, <1>2, <1>3, <1>d, <1>n
  <1> QED BY <1>2, <1>3, <1>4

\* A worker takes the first task, or a sentinel when there is none.
LEMMA TakeMove ==
    ASSUME IndInv, NEW w \in Workers, TakeTask(w)
    PROVE  /\ task_queue' \in Seq(Ids \cup {Stop})
           /\ Len(task_queue) > 0 /\ Len(task_queue') = Len(task_queue) - 1
           /\ \A k \in 1..Len(task_queue') : task_queue'[k] = task_queue[k + 1]
           /\ \/ /\ Queued > 0 /\ Head(task_queue) = First /\ First \in Ids
                 /\ Exited' = Exited /\ Queued' = Queued - 1 /\ First' = First + 1
                 /\ wpc' = [wpc EXCEPT ![w] = "run"]
                 /\ pending' = [pending EXCEPT ![w] = First]
              \/ /\ Queued = 0 /\ Head(task_queue) = Stop
                 /\ Exited' # {} /\ Queued' = Queued /\ First' = First
                 /\ wpc' = [wpc EXCEPT ![w] = "exit"] /\ pending' = pending
  <1>0. TypeOK /\ QueueInv /\ SubmitInv BY DEF IndInv
  <1>n. /\ Len(task_queue) \in Nat /\ Cardinality(Exited) \in Nat /\ stops \in Nat
        /\ Queued \in Int /\ First \in Int /\ submitted \in Nat /\ reaped \in Nat
        /\ First = submitted - Queued + 1
        /\ Queued = Len(task_queue) - stops + Cardinality(Exited)
    BY <1>0, Numbers
  <1>d. /\ Queued' = Len(task_queue') - (stops' - Cardinality(Exited'))
        /\ First' = submitted' - Queued' + 1
    BY DEF Queued, First
  <1>1. task_queue \in Seq(Ids \cup {Stop}) /\ task_queue # <<>>
        /\ wpc[w] = "loop" /\ task_queue' = Tail(task_queue)
        /\ UNCHANGED <<stops, submitted, setup>>
    BY <1>0 DEF TypeOK, TakeTask
  <1>2. /\ task_queue' \in Seq(Ids \cup {Stop}) /\ Head(task_queue) = task_queue[1]
        /\ Len(task_queue') = Len(task_queue) - 1
        /\ \A k \in 1..Len(task_queue') : task_queue'[k] = task_queue[k + 1]
    BY <1>1, PopFront
  <1>3. Len(task_queue) > 0 BY <1>0, <1>1, Numbers, SetOf
  <1>4. Head(task_queue) = IF 1 <= Queued THEN First ELSE Stop
    <2>1. 1 \in 1..Len(task_queue) BY <1>3, <1>n
    <2>2. task_queue[1] = IF 1 <= Queued THEN First + 1 - 1 ELSE Stop
      BY <1>0, <2>1 DEF QueueInv
    <2> QED BY <1>2, <1>n, <2>2
  <1>5. CASE Queued > 0
    <2>1. First \in Ids /\ First # Stop
      <3>1. reaped < First BY <1>0 DEF QueueInv
      <3>2. submitted <= Tasks /\ Tasks \in Nat BY <1>0, Numbers
      <3> QED BY <1>5, <1>n, <3>1, <3>2 DEF Ids, Stop
    <2>2. Head(task_queue) = First BY <1>4, <1>5, <1>n
    <2>3. /\ wpc' = [wpc EXCEPT ![w] = "run"] /\ pending' = [pending EXCEPT ![w] = First]
      BY <2>1, <2>2 DEF TakeTask
    <2>4. Exited' = Exited BY <1>0, <1>1, <2>3 DEF Exited, Workers, TypeOK
    <2>5. Queued' = Queued - 1 /\ First' = First + 1
      <3>1. /\ Len(task_queue') = Len(task_queue) - 1 /\ stops' = stops
            /\ Cardinality(Exited') = Cardinality(Exited) /\ submitted' = submitted
        BY <1>1, <1>2, <2>4
      <3>2. Queued' = Queued - 1 BY <1>d, <1>n, <3>1
      <3> QED BY <1>d, <1>n, <3>1, <3>2
    <2> QED BY <1>2, <1>3, <1>5, <2>1, <2>2, <2>3, <2>4, <2>5
  <1>6. CASE Queued = 0
    <2>1. Head(task_queue) = Stop BY <1>4, <1>6
    <2>2. wpc' = [wpc EXCEPT ![w] = "exit"] /\ pending' = pending
      BY <2>1 DEF TakeTask
    <2>3. Exited' = Exited \cup {w} /\ w \notin Exited
      BY <1>0, <1>1, <2>2 DEF Exited, Workers, TypeOK
    <2>4. Cardinality(Exited') = Cardinality(Exited) + 1
      BY <1>0, <2>3, Numbers, FS_AddElement
    <2>5. Queued' = Queued /\ First' = First
      <3>1. /\ Len(task_queue') = Len(task_queue) - 1 /\ stops' = stops
            /\ submitted' = submitted
        BY <1>1, <1>2
      <3>2. Queued' = Queued BY <1>d, <1>n, <2>4, <3>1, SMTT(40)
      <3> QED BY <1>d, <1>n, <3>1, <3>2
    <2>6. Exited' # {} BY <2>3
    <2> QED BY <1>2, <1>3, <1>6, <2>1, <2>2, <2>5, <2>6
  <1>7. Queued > 0 \/ Queued = 0 BY <1>0, <1>n DEF QueueInv
  <1> QED BY <1>5, <1>6, <1>7

\* The other steps do not touch task_queue.
LEMMA Steps ==
    ASSUME IndInv, Next
    PROVE  \/ PushTask \/ PushStop \/ (\E w \in Workers : TakeTask(w))
           \/ QueueSame
  <1>0. TypeOK BY DEF IndInv
  <1>1. CASE Submit \/ RequestStop \/ Join \/ Reaper \/ PushBlocked \/ Joined
    BY <1>1 DEF Submit, RequestStop, Join, Reaper, Reap, TakeCached, DrainResult, NotReady,
           PushBlocked, Joined, vars, QueueSame
  <1>2. ASSUME NEW w \in Workers, RunTask(w) \/ PushResult(w) \/ Yield(w)
        PROVE  QueueSame
    BY <1>0, <1>2 DEF RunTask, PushResult, Yield, vars, QueueSame, TypeOK
  <1> QED BY <1>1, <1>2 DEF Next, Submitter, Worker

\* Tasks stay in order and in front of the sentinels.
LEMMA QueueStep == ASSUME IndInv, Next PROVE QueueInv'
  <1>0. TypeOK /\ QueueInv /\ SubmitInv /\ PlaceInv BY DEF IndInv
  <1>n. /\ Len(task_queue) \in Nat /\ Queued \in Int /\ First \in Int
        /\ submitted \in Nat /\ reaped \in Nat /\ First = submitted - Queued + 1
    BY <1>0, Numbers
  <1>1. CASE PushTask
    <2>1. /\ Exited' = Exited /\ Queued' = Queued + 1 /\ First' = First
          /\ Len(task_queue') = Len(task_queue) + 1
          /\ \A k \in 1..Len(task_queue) : task_queue'[k] = task_queue[k]
          /\ task_queue'[Len(task_queue) + 1] = submitted + 1
          /\ Queued = Len(task_queue)
      BY <1>1, PushTaskMove
    <2>2. Exited = {}
      <3>1. stops = 0 BY <1>0, <1>1 DEF PushTask, SubmitInv
      <3>2. Cardinality(Exited) = 0 BY <1>0, <2>1, <3>1, Numbers
      <3> QED BY <1>0, <3>2, Numbers, FS_EmptySet
    <2>3. submitted' = submitted + 1 /\ reaped' = reaped BY <1>1 DEF PushTask
    <2>4. ASSUME NEW k \in 1..Len(task_queue') PROVE task_queue'[k] = First' + k - 1
      <3>1. CASE k \in 1..Len(task_queue) BY <1>0, <1>n, <2>1, <3>1 DEF QueueInv
      <3>2. CASE k = Len(task_queue) + 1 BY <1>n, <2>1, <3>2
      <3> QED BY <1>n, <2>1, <3>1, <3>2
    <2>5. \A k \in 1..Len(task_queue') : k <= Queued' BY <1>n, <2>1
    <2> QED BY <1>0, <1>n, <2>1, <2>2, <2>3, <2>4, <2>5 DEF QueueInv
  <1>2. CASE PushStop
    <2>1. /\ Exited' = Exited /\ Queued' = Queued /\ First' = First
          /\ Len(task_queue') = Len(task_queue) + 1
          /\ \A k \in 1..Len(task_queue) : task_queue'[k] = task_queue[k]
          /\ task_queue'[Len(task_queue) + 1] = Stop
      BY <1>2, PushStopMove
    <2>2. submitted' = submitted /\ reaped' = reaped BY <1>2 DEF PushStop
    <2>3. ASSUME NEW k \in 1..Len(task_queue')
          PROVE  task_queue'[k] = IF k <= Queued THEN First + k - 1 ELSE Stop
      <3>1. CASE k \in 1..Len(task_queue) BY <1>0, <1>n, <2>1, <3>1 DEF QueueInv
      <3>2. CASE k = Len(task_queue) + 1
        <4>1. Queued <= Len(task_queue) BY <1>0, <1>n DEF QueueInv
        <4> QED BY <1>n, <2>1, <3>2, <4>1
      <3> QED BY <1>n, <2>1, <3>1, <3>2
    <2> QED BY <1>0, <1>n, <2>1, <2>2, <2>3 DEF QueueInv
  <1>3. ASSUME NEW w \in Workers, TakeTask(w) PROVE QueueInv'
    <2>1. submitted' = submitted /\ reaped' = reaped BY <1>3 DEF TakeTask
    <2>2. /\ Len(task_queue) > 0 /\ Len(task_queue') = Len(task_queue) - 1
          /\ \A k \in 1..Len(task_queue') : task_queue'[k] = task_queue[k + 1]
      BY <1>3, TakeMove
    <2>3. CASE Queued > 0
      <3>1. /\ Exited' = Exited /\ Queued' = Queued - 1 /\ First' = First + 1
        BY <1>3, <2>3, TakeMove
      <3>2. Exited = {} BY <1>0, <1>n, <2>3 DEF QueueInv
      <3>3. ASSUME NEW k \in 1..Len(task_queue')
            PROVE  task_queue'[k] = IF k <= Queued' THEN First' + k - 1 ELSE Stop
        <4>1. k + 1 \in 1..Len(task_queue) BY <1>n, <2>2
        <4>2. task_queue'[k] = IF k + 1 <= Queued THEN First + (k + 1) - 1 ELSE Stop
          BY <1>0, <2>2, <4>1 DEF QueueInv
        <4> QED BY <1>n, <3>1, <4>2
      <3> QED BY <1>0, <1>n, <2>1, <2>2, <2>3, <3>1, <3>2, <3>3 DEF QueueInv
    <2>4. CASE ~(Queued > 0)
      <3>1. Queued = 0 /\ Queued' = Queued /\ First' = First
        BY <1>3, <1>n, <2>4, TakeMove
      <3>2. ASSUME NEW k \in 1..Len(task_queue')
            PROVE  task_queue'[k] = IF k <= Queued' THEN First' + k - 1 ELSE Stop
        <4>1. k + 1 \in 1..Len(task_queue) BY <1>n, <2>2
        <4>2. task_queue'[k] = IF k + 1 <= Queued THEN First + (k + 1) - 1 ELSE Stop
          BY <1>0, <2>2, <4>1 DEF QueueInv
        <4> QED BY <1>n, <3>1, <4>2
      <3> QED BY <1>0, <1>n, <2>1, <2>2, <3>1, <3>2 DEF QueueInv
    <2> QED BY <2>3, <2>4
  <1>4. CASE QueueSame
    <2>1. Exited' = Exited /\ Queued' = Queued /\ First' = First
      BY <1>0, <1>4, QueueSameFacts
    <2>2. reaped' < First
      <3>1. CASE TakeCached
        <4>1. reaped + 1 \in completed_results /\ reaped' = reaped + 1
          BY <3>1 DEF TakeCached
        <4>2. reaped + 1 <= First - 1 BY <1>0, <1>n, <4>1 DEF PlaceInv
        <4> QED BY <1>n, <4>1, <4>2
      <3>2. CASE ~TakeCached
        <4>1. reaped' = reaped
          BY <3>2 DEF Next, Submitter, Reaper, Worker, Submit, PushTask, RequestStop,
                 PushStop, Join, Reap, DrainResult, NotReady, TakeTask, RunTask,
                 PushResult, Yield, PushBlocked, Joined, vars
        <4> QED BY <1>0, <4>1 DEF QueueInv
      <3> QED BY <3>1, <3>2
    <2> QED BY <1>0, <1>4, <2>1, <2>2 DEF QueueInv, QueueSame
  <1> QED BY <1>1, <1>2, <1>3, <1>4, Steps
-----------------------------------------------------------------------------
(* The places of a task.                                                     *)

\* The values the workers, the results and the cache can hold.
LEMMA PlaceTypes ==
    ASSUME IndInv
    PROVE  /\ WithWorkers \subseteq Ids /\ Results \subseteq Ids
           /\ completed_results \subseteq Ids
           /\ result_queue \in Seq(Ids)
           /\ \A w \in Working : pending[w] \in WithWorkers
           /\ \A w \in Workers : wpc[w] = "run" => w \in Working
           /\ \A t \in WithWorkers \cup Results \cup completed_results :
                 t \in Int /\ reaped < t /\ t < First
           /\ \A t \in Int : reaped < t /\ t < First =>
                 t \in WithWorkers \cup Results \cup completed_results
           /\ Idle \notin WithWorkers
  <1>0. TypeOK /\ PlaceInv BY DEF IndInv
  <1>1. WithWorkers \subseteq Ids /\ Idle \notin WithWorkers
    BY <1>0 DEF TypeOK, WithWorkers, Working
  <1>2. Results \subseteq Ids /\ result_queue \in Seq(Ids)
    BY <1>0, SetOf DEF TypeOK, Results
  <1>3. completed_results \subseteq Ids BY <1>0 DEF TypeOK
  <1>4. \A w \in Working : pending[w] \in WithWorkers BY DEF WithWorkers
  <1>5. \A w \in Workers : wpc[w] = "run" => w \in Working BY <1>0 DEF PlaceInv, Working
  <1>6. reaped \in Int /\ First \in Int BY <1>0, Numbers
  <1>7. WithWorkers \cup Results \cup completed_results = (reaped + 1)..(First - 1)
    BY <1>0 DEF PlaceInv
  <1>8. \A t \in Int : t \in (reaped + 1)..(First - 1) <=> reaped < t /\ t < First
    BY <1>6
  <1>9. \A t \in (reaped + 1)..(First - 1) : t \in Int OBVIOUS
  <1> QED BY <1>1, <1>2, <1>3, <1>4, <1>5, <1>7, <1>8, <1>9

\* Steps that leave the places alone.
PlaceSame ==
    /\ UNCHANGED <<setup, pending, wpc, result_queue, completed_results, reaped, ran>>
    /\ First' = First

LEMMA PlaceSteps ==
    ASSUME IndInv, Next
    PROVE  \/ TakeCached \/ DrainResult \/ PlaceSame
           \/ \E w \in Workers : TakeTask(w) \/ RunTask(w) \/ PushResult(w)
  <1>0. TypeOK BY DEF IndInv
  <1>1. CASE PushTask \/ PushStop
    BY <1>1, PushTaskMove, PushStopMove DEF PushTask, PushStop, PlaceSame
  <1>2. CASE Submit \/ RequestStop \/ Join \/ Reap \/ NotReady \/ PushBlocked \/ Joined
    <2>1. QueueSame
      BY <1>2 DEF Submit, RequestStop, Join, Reap, NotReady, PushBlocked, Joined, vars,
             QueueSame
    <2>2. First' = First BY <1>0, <2>1, QueueSameFacts
    <2> QED
      BY <1>2, <2>2 DEF Submit, RequestStop, Join, Reap, NotReady, PushBlocked, Joined,
             vars, PlaceSame
  <1>3. ASSUME NEW w \in Workers, Yield(w) PROVE PlaceSame
    <2>1. QueueSame BY <1>3 DEF Yield, vars, QueueSame
    <2>2. First' = First BY <1>0, <2>1, QueueSameFacts
    <2> QED BY <1>3, <2>2 DEF Yield, vars, PlaceSame
  <1> QED BY <1>1, <1>2, <1>3 DEF Next, Submitter, Reaper, Worker

\* TakeCached, DrainResult, RunTask and PushResult do not touch task_queue.
LEMMA FirstKept ==
    ASSUME IndInv,
           \/ TakeCached \/ DrainResult
           \/ \E w \in Workers : RunTask(w) \/ PushResult(w)
    PROVE  First' = First /\ Workers' = Workers
  <1>0. TypeOK BY DEF IndInv
  <1>1. QueueSame
    <2>1. CASE TakeCached \/ DrainResult BY <2>1 DEF TakeCached, DrainResult, QueueSame
    <2>2. ASSUME NEW w \in Workers, RunTask(w) \/ PushResult(w) PROVE QueueSame
      BY <1>0, <2>2 DEF RunTask, PushResult, QueueSame, TypeOK
    <2> QED BY <2>1, <2>2
  <1> QED BY <1>0, <1>1, QueueSameFacts DEF QueueSame, Workers

\* A task moves from one place to the next and is never in two.
LEMMA PlaceStep == ASSUME IndInv, Next PROVE PlaceInv'
  <1>0. TypeOK /\ PlaceInv BY DEF IndInv
  <1>t. pending \in [Workers -> Ids \cup {Idle}] /\ Idle \notin Ids
        /\ wpc \in [Workers -> {"loop", "run", "push", "exit"}]
    BY <1>0 DEF TypeOK, Ids, Idle
  <1>n. reaped \in Nat /\ First \in Int BY <1>0, Numbers
  <1>1. CASE PlaceSame
    <2>1. /\ Workers' = Workers /\ Working' = Working /\ WithWorkers' = WithWorkers
          /\ Results' = Results
      BY <1>1 DEF PlaceSame, Workers, Working, WithWorkers, Results
    <2> QED BY <1>0, <1>1, <2>1 DEF PlaceSame, PlaceInv
  <1>2. CASE TakeCached
    <2>1. First' = First /\ Workers' = Workers BY <1>2, FirstKept
    <2>2. /\ UNCHANGED <<pending, wpc, result_queue>> /\ reaped' = reaped + 1
          /\ completed_results' = completed_results \ {reaped + 1}
          /\ reaped + 1 \in completed_results
      BY <1>2 DEF TakeCached
    <2>3. /\ Working' = Working /\ WithWorkers' = WithWorkers /\ Results' = Results
      BY <2>1, <2>2 DEF Working, WithWorkers, Results
    <2>4. reaped + 1 \notin WithWorkers \cup Results BY <1>0, <2>2 DEF PlaceInv
    <2>5. WithWorkers \cup Results \cup completed_results'
            = ((reaped + 1)..(First - 1)) \ {reaped + 1}
      BY <1>0, <2>2, <2>4 DEF PlaceInv
    <2>6. ((reaped + 1)..(First - 1)) \ {reaped + 1} = (reaped' + 1)..(First' - 1)
      BY <1>n, <2>1, <2>2
    <2> QED BY <1>0, <2>1, <2>2, <2>3, <2>5, <2>6 DEF PlaceInv
  <1>3. CASE DrainResult
    <2> DEFINE t == Head(result_queue)
    <2>1. First' = First /\ Workers' = Workers BY <1>3, FirstKept
    <2>2. /\ UNCHANGED <<pending, wpc, reaped>> /\ result_queue # <<>>
          /\ completed_results' = completed_results \cup {t}
          /\ result_queue' = Tail(result_queue)
      BY <1>3 DEF DrainResult
    <2>3. Working' = Working /\ WithWorkers' = WithWorkers
      BY <2>1, <2>2 DEF Working, WithWorkers
    <2>4. /\ t \in Results /\ IsInjective(Tail(result_queue))
          /\ ToSet(Tail(result_queue)) = Results \ {t}
      BY <1>0, <2>2, PlaceTypes, PopFront DEF PlaceInv, Results
    <2> HIDE DEF t
    <2>5. IsInjective(result_queue') /\ Results' = Results \ {t}
      BY <2>2, <2>4 DEF Results
    <2> QED BY <1>0, <2>1, <2>2, <2>3, <2>4, <2>5 DEF PlaceInv
  <1>4. ASSUME NEW w \in Workers, TakeTask(w) PROVE PlaceInv'
    <2>1. /\ Workers' = Workers /\ wpc[w] = "loop"
          /\ UNCHANGED <<result_queue, completed_results, reaped>>
      BY <1>4 DEF TakeTask, Workers
    <2>2. w \notin Working /\ pending[w] = Idle BY <1>0, <2>1 DEF PlaceInv, Working
    <2>3. Results' = Results BY <2>1 DEF Results
    <2>4. CASE Queued > 0
      <3>1. /\ First \in Ids /\ First' = First + 1
            /\ wpc' = [wpc EXCEPT ![w] = "run"]
            /\ pending' = [pending EXCEPT ![w] = First]
        BY <1>4, <2>4, TakeMove
      <3>2. pending'[w] = First /\ \A v \in Workers \ {w} : pending'[v] = pending[v]
        BY <1>t, <3>1
      <3>3. Working' = Working \cup {w} BY <1>t, <2>1, <3>1, <3>2 DEF Working
      <3>4. WithWorkers' = WithWorkers \cup {First}
        <4>1. WithWorkers' = {pending'[v] : v \in Working'} BY DEF WithWorkers
        <4>2. \A v \in Working : pending'[v] = pending[v] /\ v \in Workers
          BY <2>2, <3>2 DEF Working
        <4> QED BY <3>2, <3>3, <4>1, <4>2 DEF WithWorkers
      <3>5. First \notin WithWorkers \cup Results \cup completed_results
        BY <1>n, PlaceTypes
      <3>6. WithWorkers' \cup Results' \cup completed_results'
              = (reaped' + 1)..(First' - 1)
        <4>1. WithWorkers' \cup Results' \cup completed_results'
                = ((reaped + 1)..(First - 1)) \cup {First}
          BY <1>0, <2>1, <2>3, <3>4 DEF PlaceInv
        <4>2. reaped < First BY DEF IndInv, QueueInv
        <4>3. ((reaped + 1)..(First - 1)) \cup {First} = (reaped + 1)..First
          BY <1>n, <4>2
        <4>4. First' - 1 = First BY <1>n, <3>1
        <4> QED BY <2>1, <4>1, <4>3, <4>4
      <3>7. \A v \in Workers : pending'[v] # Idle <=> wpc'[v] \in {"run", "push"}
        <4>1. First # Idle BY <1>t, <3>1
        <4>2. wpc'[w] = "run" /\ \A v \in Workers \ {w} : wpc'[v] = wpc[v]
          BY <1>t, <3>1
        <4> QED BY <1>0, <3>2, <4>1, <4>2 DEF PlaceInv
      <3>8. \A u, v \in Working' : pending'[u] = pending'[v] => u = v
        <4>1. \A v \in Working : pending'[v] = pending[v] /\ pending[v] # First
          BY <2>2, <3>2, <3>5, PlaceTypes DEF Working
        <4> QED BY <1>0, <3>2, <3>3, <4>1 DEF PlaceInv
      <3>9. WithWorkers' \cap Results' = {} /\ WithWorkers' \cap completed_results' = {}
            /\ Results' \cap completed_results' = {} /\ IsInjective(result_queue')
        BY <1>0, <2>1, <2>3, <3>4, <3>5 DEF PlaceInv
      <3> QED BY <2>1, <3>6, <3>7, <3>8, <3>9 DEF PlaceInv
    <2>5. CASE ~(Queued > 0)
      <3>1. /\ First' = First /\ wpc' = [wpc EXCEPT ![w] = "exit"] /\ pending' = pending
        BY <1>4, <2>5, TakeMove
      <3>2. Working' = Working /\ WithWorkers' = WithWorkers
        BY <2>1, <3>1 DEF Working, WithWorkers
      <3>3. \A v \in Workers : pending'[v] # Idle <=> wpc'[v] \in {"run", "push"}
        BY <1>0, <1>t, <2>2, <3>1 DEF PlaceInv
      <3> QED BY <1>0, <2>1, <2>3, <3>1, <3>2, <3>3 DEF PlaceInv
    <2> QED BY <2>4, <2>5
  <1>5. ASSUME NEW w \in Workers, RunTask(w) PROVE PlaceInv'
    <2>1. First' = First /\ Workers' = Workers BY <1>5, FirstKept
    <2>2. /\ UNCHANGED <<pending, reaped, result_queue, completed_results>>
          /\ wpc[w] = "run" /\ wpc' = [wpc EXCEPT ![w] = "push"]
      BY <1>5 DEF RunTask
    <2>3. Working' = Working /\ WithWorkers' = WithWorkers /\ Results' = Results
      BY <2>1, <2>2 DEF Working, WithWorkers, Results
    <2>4. \A v \in Workers : pending'[v] # Idle <=> wpc'[v] \in {"run", "push"}
      BY <1>0, <1>t, <2>2 DEF PlaceInv
    <2> QED BY <1>0, <2>1, <2>2, <2>3, <2>4 DEF PlaceInv
  <1>6. ASSUME NEW w \in Workers, PushResult(w) PROVE PlaceInv'
    <2> DEFINE t == pending[w]
    <2>1. First' = First /\ Workers' = Workers BY <1>6, FirstKept
    <2>2. /\ UNCHANGED <<reaped, completed_results>> /\ wpc[w] = "push"
          /\ wpc' = [wpc EXCEPT ![w] = "loop"]
          /\ pending' = [pending EXCEPT ![w] = Idle]
          /\ result_queue' = Append(result_queue, t)
      BY <1>6 DEF PushResult
    <2>3. w \in Working /\ t \in WithWorkers /\ t \in Ids
      BY <1>0, <2>2, PlaceTypes DEF PlaceInv, Working
    <2>4. pending'[w] = Idle /\ \A v \in Workers \ {w} : pending'[v] = pending[v]
      BY <1>t, <2>2
    <2>5. Working' = Working \ {w} BY <2>1, <2>4 DEF Working
    <2>6. /\ IsInjective(Append(result_queue, t))
          /\ ToSet(Append(result_queue, t)) = ToSet(result_queue) \cup {t}
      <3>1. t \notin ToSet(result_queue) BY <1>0, <2>3 DEF PlaceInv, Results
      <3> QED BY <1>0, <2>3, <3>1, PlaceTypes, PushBack DEF PlaceInv
    <2>7. IsInjective(result_queue') /\ Results' = Results \cup {t}
      BY <2>2, <2>6 DEF Results
    <2>8. WithWorkers' = WithWorkers \ {t}
      <3>1. \A v \in Working' : pending'[v] = pending[v] /\ v \in Working /\ pending[v] # t
        BY <1>0, <2>3, <2>4, <2>5 DEF PlaceInv, Working
      <3>2. WithWorkers' = {pending'[v] : v \in Working'} BY DEF WithWorkers
      <3>3. \A v \in Working : v \in Working' \/ pending[v] = t BY <2>5
      <3> HIDE DEF t
      <3> QED BY <3>1, <3>2, <3>3 DEF WithWorkers
    <2>9. \A v \in Workers : pending'[v] # Idle <=> wpc'[v] \in {"run", "push"}
      <3>1. wpc'[w] = "loop" /\ \A v \in Workers \ {w} : wpc'[v] = wpc[v]
        BY <1>t, <2>2
      <3> QED BY <1>0, <2>4, <3>1 DEF PlaceInv
    <2>10. \A u, v \in Working' : pending'[u] = pending'[v] => u = v
      BY <1>0, <2>4, <2>5 DEF PlaceInv, Working
    <2> HIDE DEF t
    <2>11. /\ WithWorkers' \cap Results' = {} /\ WithWorkers' \cap completed_results' = {}
           /\ Results' \cap completed_results' = {}
           /\ WithWorkers' \cup Results' \cup completed_results'
                = WithWorkers \cup Results \cup completed_results
      BY <1>0, <2>2, <2>3, <2>7, <2>8 DEF PlaceInv
    <2> QED BY <1>0, <2>1, <2>2, <2>7, <2>9, <2>10, <2>11 DEF PlaceInv
  <1> QED BY <1>1, <1>2, <1>3, <1>4, <1>5, <1>6, PlaceSteps

\* A task counts as run from the moment its function returns, once.
LEMMA RanStep == ASSUME IndInv, Next PROVE RanInv'
  <1>0. TypeOK /\ PlaceInv /\ RanInv BY DEF IndInv
  <1>t. /\ pending \in [Workers -> Ids \cup {Idle}] /\ ran \in [Ids -> {0, 1}]
        /\ wpc \in [Workers -> {"loop", "run", "push", "exit"}]
    BY <1>0 DEF TypeOK
  <1>n. First \in Int /\ \A t \in Ids : t \in Int BY <1>0, Numbers DEF Ids
  <1>a. ASSUME ran' = ran, First' = First, Workers' = Workers,
               \A w \in Workers : \/ wpc'[w] = wpc[w] /\ pending'[w] = pending[w]
                                  \/ wpc'[w] # "run" /\ wpc[w] # "run"
        PROVE  RanInv'
    BY <1>0, <1>a DEF RanInv
  <1>1. CASE PlaceSame BY <1>1, <1>a DEF PlaceSame, Workers
  <1>2. CASE TakeCached \/ DrainResult
    BY <1>2, <1>a, FirstKept DEF TakeCached, DrainResult
  <1>3. ASSUME NEW w \in Workers, TakeTask(w) PROVE RanInv'
    <2>1. Workers' = Workers /\ ran' = ran /\ wpc[w] = "loop"
      BY <1>3 DEF TakeTask, Workers
    <2>2. CASE Queued > 0
      <3>1. /\ First \in Ids /\ First' = First + 1
            /\ wpc' = [wpc EXCEPT ![w] = "run"]
            /\ pending' = [pending EXCEPT ![w] = First]
        BY <1>3, <2>2, TakeMove
      <3>2. /\ pending'[w] = First /\ wpc'[w] = "run"
            /\ \A v \in Workers \ {w} : pending'[v] = pending[v] /\ wpc'[v] = wpc[v]
        BY <1>t, <3>1
      <3> SUFFICES ASSUME NEW t \in Ids
                   PROVE  ran[t] = IF /\ t < First'
                                      /\ \A v \in Workers : wpc'[v] = "run" => pending'[v] # t
                                   THEN 1 ELSE 0
        BY <2>1 DEF RanInv
      <3>3. CASE t = First
        <4>1. ran[t] = 0 BY <1>0, <1>n, <3>3 DEF RanInv
        <4> QED BY <3>2, <3>3, <4>1
      <3>4. CASE t # First
        <4>1. t < First' <=> t < First BY <1>n, <3>1, <3>4
        <4>2. (\A v \in Workers : wpc'[v] = "run" => pending'[v] # t)
                <=> (\A v \in Workers : wpc[v] = "run" => pending[v] # t)
          BY <2>1, <3>2, <3>4
        <4> QED BY <1>0, <4>1, <4>2 DEF RanInv
      <3> QED BY <3>3, <3>4
    <2>3. CASE ~(Queued > 0)
      <3>1. /\ First' = First /\ wpc' = [wpc EXCEPT ![w] = "exit"] /\ pending' = pending
        BY <1>3, <2>3, TakeMove
      <3> QED BY <1>a, <1>t, <2>1, <3>1
    <2> QED BY <2>2, <2>3
  <1>4. ASSUME NEW w \in Workers, RunTask(w) PROVE RanInv'
    <2> DEFINE u == pending[w]
    <2>1. First' = First /\ Workers' = Workers BY <1>4, FirstKept
    <2>2. /\ wpc[w] = "run" /\ pending' = pending /\ ran' = [ran EXCEPT ![u] = @ + 1]
          /\ wpc' = [wpc EXCEPT ![w] = "push"]
      BY <1>4 DEF RunTask
    <2>3. u \in Ids /\ u < First /\ w \in Working
      BY <2>2, PlaceTypes
    <2>4. ran[u] = 0 BY <1>0, <2>2, <2>3 DEF RanInv
    <2>5. ran'[u] = 1 /\ \A t \in Ids \ {u} : ran'[t] = ran[t] BY <1>t, <2>2, <2>3, <2>4
    <2>6. wpc'[w] = "push" /\ \A v \in Workers \ {w} : wpc'[v] = wpc[v] BY <1>t, <2>2
    <2>7. \A v \in Workers \ {w} : wpc[v] = "run" => pending[v] # u
      BY <1>0, <2>3, PlaceTypes DEF PlaceInv
    <2> SUFFICES ASSUME NEW t \in Ids
                 PROVE  ran'[t] = IF /\ t < First
                                     /\ \A v \in Workers : wpc'[v] = "run" => pending[v] # t
                                  THEN 1 ELSE 0
      BY <2>1, <2>2 DEF RanInv
    <2>8. CASE t = u BY <2>3, <2>5, <2>6, <2>7, <2>8
    <2>9. CASE t # u
      <3>1. (\A v \in Workers : wpc'[v] = "run" => pending[v] # t)
              <=> (\A v \in Workers : wpc[v] = "run" => pending[v] # t)
        BY <2>6, <2>9
      <3> QED BY <1>0, <2>5, <2>9, <3>1 DEF RanInv
    <2> QED BY <2>8, <2>9
  <1>5. ASSUME NEW w \in Workers, PushResult(w) PROVE RanInv'
    <2>1. First' = First /\ Workers' = Workers BY <1>5, FirstKept
    <2>2. /\ wpc[w] = "push" /\ wpc' = [wpc EXCEPT ![w] = "loop"] /\ ran' = ran
          /\ pending' = [pending EXCEPT ![w] = Idle]
      BY <1>5 DEF PushResult
    <2> QED BY <1>a, <1>t, <2>1, <2>2
  <1> QED BY <1>1, <1>2, <1>3, <1>4, <1>5, PlaceSteps

\* The submitter's bound and its sentinels.
LEMMA SubmitStep == ASSUME IndInv, Next PROVE SubmitInv'
  <1>0. TypeOK /\ QueueInv /\ PlaceInv /\ SubmitInv BY DEF IndInv
  <1>n. /\ submitted \in Nat /\ reaped \in Nat /\ stops \in Nat
        /\ setup.num_threads \in Nat \ {0} /\ Tasks \in Nat /\ Outstanding \in Nat
        /\ reaped <= submitted
    BY <1>0, Numbers
  <1> USE DEF SubmitInv
  <1>1. CASE Submit \/ RequestStop BY <1>0, <1>1, <1>n DEF Submit, RequestStop, SubmitterFree
  <1>2. CASE PushTask BY <1>0, <1>2, <1>n DEF PushTask
  <1>3. CASE PushStop BY <1>0, <1>3, <1>n DEF PushStop, TypeOK
  <1>4. CASE Join BY <1>0, <1>4, <1>n DEF Join
  <1>5. CASE Reap \/ NotReady BY <1>0, <1>5, <1>n DEF Reap, NotReady
  <1>6. CASE TakeCached BY <1>0, <1>6, <1>n DEF TakeCached
  <1>7. CASE DrainResult BY <1>0, <1>7, <1>n DEF DrainResult
  <1>8. ASSUME NEW w \in Workers, Worker(w) PROVE SubmitInv'
    BY <1>0, <1>8, <1>n DEF Worker, TakeTask, RunTask, PushResult, Yield, vars
  <1>9. CASE PushBlocked \/ Joined BY <1>0, <1>9 DEF PushBlocked, Joined, vars
  <1> QED
    BY <1>1, <1>2, <1>3, <1>4, <1>5, <1>6, <1>7, <1>8, <1>9 DEF Next, Submitter, Reaper

\* Variables keep their types.
LEMMA TypeStep == ASSUME IndInv, Next PROVE TypeOK'
  <1>0. TypeOK /\ QueueInv /\ PlaceInv /\ RanInv /\ SubmitInv BY DEF IndInv
  <1>w. Workers' = Workers /\ setup' = setup BY SameSetup
  <1>n. /\ submitted \in Nat /\ reaped \in Nat /\ stops \in Nat
        /\ setup.num_threads \in Nat \ {0} /\ Tasks \in Nat /\ Capacity \in Nat
        /\ Len(task_queue) \in Nat /\ Len(result_queue) \in Nat
        /\ reaped <= submitted /\ submitted <= Tasks
    BY <1>0, Numbers
  <1>1. CASE Submit \/ RequestStop \/ Join
    BY <1>0, <1>1, <1>w DEF Submit, RequestStop, Join, TypeOK
  <1>2. CASE PushTask
    <2>1. task_queue' \in Seq(Ids \cup {Stop}) /\ Len(task_queue') = Len(task_queue) + 1
      BY <1>2, PushTaskMove
    <2>2. Len(task_queue') <= Capacity BY <1>2, <1>n, <2>1 DEF PushTask
    <2>3. submitted' \in 0..Tasks /\ reaped' \in 0..submitted'
      BY <1>0, <1>2, <1>n DEF PushTask, SubmitInv
    <2> QED BY <1>0, <1>2, <1>w, <2>1, <2>2, <2>3 DEF PushTask, TypeOK
  <1>3. CASE PushStop
    <2>1. task_queue' \in Seq(Ids \cup {Stop}) /\ Len(task_queue') = Len(task_queue) + 1
      BY <1>3, PushStopMove
    <2>2. Len(task_queue') <= Capacity BY <1>3, <1>n, <2>1 DEF PushStop
    <2>3. stops' \in 0..setup.num_threads BY <1>0, <1>3, <1>n DEF PushStop, SubmitInv
    <2> QED BY <1>0, <1>3, <1>w, <2>1, <2>2, <2>3 DEF PushStop, TypeOK
  <1>4. CASE Reap \/ NotReady BY <1>0, <1>4, <1>w DEF Reap, NotReady, TypeOK
  <1>5. CASE TakeCached
    <2>1. reaped + 1 < First BY <1>5, PlaceTypes DEF TakeCached
    <2>2. Queued \in Int /\ Queued >= 0 /\ First = submitted - Queued + 1
      BY <1>0, Numbers DEF QueueInv
    <2>3. reaped' \in 0..submitted BY <1>5, <1>n, <2>1, <2>2 DEF TakeCached
    <2> QED BY <1>0, <1>5, <1>w, <2>3 DEF TakeCached, TypeOK
  <1>6. CASE DrainResult
    <2>1. /\ result_queue # <<>> /\ result_queue' = Tail(result_queue)
          /\ completed_results' = completed_results \cup {Head(result_queue)}
      BY <1>6 DEF DrainResult
    <2>2. /\ Head(result_queue) \in Ids /\ result_queue' \in Seq(Ids)
          /\ Len(result_queue') = Len(result_queue) - 1
      BY <2>1, PlaceTypes, PopFront
    <2>3. Len(result_queue') <= Capacity BY <1>0, <1>n, <2>2 DEF TypeOK
    <2> QED BY <1>0, <1>6, <1>w, <2>1, <2>2, <2>3 DEF DrainResult, TypeOK
  <1>7. ASSUME NEW w \in Workers, TakeTask(w) PROVE TypeOK'
    <2>1. task_queue' \in Seq(Ids \cup {Stop}) /\ Len(task_queue') = Len(task_queue) - 1
      BY <1>7, TakeMove
    <2>2. Len(task_queue') <= Capacity BY <1>0, <1>n, <2>1 DEF TypeOK
    <2>3. /\ pending' \in [Workers -> Ids \cup {Idle}]
          /\ wpc' \in [Workers -> {"loop", "run", "push", "exit"}]
      <3>1. \/ /\ First \in Ids /\ wpc' = [wpc EXCEPT ![w] = "run"]
               /\ pending' = [pending EXCEPT ![w] = First]
            \/ wpc' = [wpc EXCEPT ![w] = "exit"] /\ pending' = pending
        BY <1>7, TakeMove
      <3> QED BY <1>0, <3>1 DEF TypeOK
    <2> QED BY <1>0, <1>7, <1>w, <2>1, <2>2, <2>3 DEF TakeTask, TypeOK
  <1>8. ASSUME NEW w \in Workers, RunTask(w) PROVE TypeOK'
    <2>1. pending[w] \in Ids /\ ran[pending[w]] = 0
      BY <1>0, <1>8, PlaceTypes DEF RunTask, RanInv
    <2>2. ran' \in [Ids -> {0, 1}] BY <1>0, <1>8, <2>1 DEF RunTask, TypeOK
    <2> QED BY <1>0, <1>8, <1>w, <2>2 DEF RunTask, TypeOK
  <1>9. ASSUME NEW w \in Workers, PushResult(w) PROVE TypeOK'
    <2>1. pending[w] \in Ids
      BY <1>0, <1>9, PlaceTypes DEF PushResult, PlaceInv, Working
    <2>2. /\ result_queue' \in Seq(Ids) /\ Len(result_queue') = Len(result_queue) + 1
      BY <1>9, <2>1, PlaceTypes, AppendProperties DEF PushResult
    <2>3. Len(result_queue') <= Capacity BY <1>9, <1>n, <2>2 DEF PushResult
    <2> QED BY <1>0, <1>9, <1>w, <2>2, <2>3 DEF PushResult, TypeOK
  <1>10. CASE UNCHANGED vars BY <1>0, <1>10, <1>w DEF vars, TypeOK
  <1> QED
    BY <1>1, <1>2, <1>3, <1>4, <1>5, <1>6, <1>7, <1>8, <1>9, <1>10
    DEF Next, Submitter, Reaper, Worker, Yield, PushBlocked, Joined
-----------------------------------------------------------------------------
(* The executor's invariant.                                                 *)

LEMMA InitIndInv == Init => IndInv
  <1> SUFFICES ASSUME Init PROVE IndInv OBVIOUS
  <1> USE DEF Init
  <1>1. setup.num_threads \in Nat \ {0} BY ExecutorAssumption
  <1>2. Tasks \in Nat /\ Capacity \in Nat \ {0} /\ Outstanding \in Nat
    BY ExecutorAssumption, OutstandingAssumption
  <1>3. /\ task_queue \in Seq(Ids \cup {Stop}) /\ Len(task_queue) = 0
        /\ result_queue \in Seq(Ids) /\ Len(result_queue) = 0
    BY EmptySeq
  <1>4. Exited = {} /\ Cardinality(Exited) = 0 BY FS_EmptySet DEF Exited
  <1>5. Queued = 0 /\ First = 1 BY <1>3, <1>4 DEF Queued, First
  <1>6. TypeOK BY <1>1, <1>2, <1>3 DEF TypeOK
  <1>7. QueueInv BY <1>3, <1>4, <1>5 DEF QueueInv
  <1>8. PlaceInv
    <2>1. Working = {} /\ WithWorkers = {} BY DEF Working, WithWorkers
    <2>2. Results = {} /\ IsInjective(result_queue)
      <3>1. ToSet(result_queue) = {} BY <1>3, SetOf
      <3>2. DOMAIN result_queue = 1..0 BY <1>3, LenProperties
      <3>3. IsInjective(result_queue) BY <3>2 DEF IsInjective
      <3> QED BY <3>1, <3>3 DEF Results
    <2>3. (reaped + 1)..(First - 1) = {} BY <1>5
    <2> QED BY <2>1, <2>2, <2>3 DEF PlaceInv
  <1>9. RanInv BY <1>2, <1>5 DEF RanInv, Ids
  <1>10. SubmitInv BY <1>2 DEF SubmitInv
  <1> QED BY <1>6, <1>7, <1>8, <1>9, <1>10 DEF IndInv

\* Every reachable state satisfies IndInv: tasks wait in order in front of the
\* sentinels, and a task that was taken is with one worker, a result or reaped.
THEOREM Invariance == Spec => []IndInv
  <1>1. IndInv /\ Next => IndInv'
    BY TypeStep, QueueStep, PlaceStep, RanStep, SubmitStep DEF IndInv
  <1>2. IndInv /\ UNCHANGED vars => IndInv'
    <2> SUFFICES ASSUME IndInv, UNCHANGED vars PROVE IndInv' OBVIOUS
    <2>1. /\ Workers' = Workers /\ Exited' = Exited /\ Queued' = Queued /\ First' = First
          /\ Working' = Working /\ WithWorkers' = WithWorkers /\ Results' = Results
      BY DEF vars, Workers, Exited, Queued, First, Working, WithWorkers, Results
    <2> QED BY <2>1 DEF IndInv, TypeOK, QueueInv, PlaceInv, RanInv, SubmitInv, vars
  <1> QED BY <1>1, <1>2, InitIndInv, PTL DEF Spec

\* Every variable of the executor keeps its type: in particular neither queue
\* outgrows its capacity and no task's function returns twice.
THEOREM TypeCorrect == Spec => []TypeOK
  BY Invariance, PTL DEF IndInv

-----------------------------------------------------------------------------
(* No task is lost, duplicated or run twice.                                 *)

\* Where task t is, by its number: task_queue has the tasks from First on, and
\* the tasks that were taken and not reaped are in one of the other places.
LEMMA PlaceParts ==
    ASSUME IndInv, NEW t \in Ids
    PROVE  /\ {k \in DOMAIN task_queue : task_queue[k] = t}
                = IF First <= t /\ t <= submitted THEN {t - First + 1} ELSE {}
           /\ t \in WithWorkers =>
                \E w \in Workers : {v \in Workers : pending[v] = t} = {w}
           /\ t \notin WithWorkers => {v \in Workers : pending[v] = t} = {}
           /\ t \in Results =>
                \E k : {j \in DOMAIN result_queue : result_queue[j] = t} = {k}
           /\ t \notin Results => {j \in DOMAIN result_queue : result_queue[j] = t} = {}
  <1>0. TypeOK /\ QueueInv /\ PlaceInv BY DEF IndInv
  <1>n. /\ t \in Nat \ {0} /\ Idle = 0 /\ Stop = 0 /\ Len(task_queue) \in Nat
        /\ Queued \in Int /\ First \in Int /\ submitted \in Nat
        /\ First = submitted - Queued + 1
    BY <1>0, Numbers DEF Ids, Idle, Stop
  <1>1. /\ DOMAIN task_queue = 1..Len(task_queue)
        /\ DOMAIN result_queue = 1..Len(result_queue)
    BY <1>0, LenProperties DEF TypeOK
  <1>2. ASSUME NEW k \in 1..Len(task_queue)
        PROVE  task_queue[k] = t <=> k <= Queued /\ k = t - First + 1
    <2>1. task_queue[k] = IF k <= Queued THEN First + k - 1 ELSE 0
      BY <1>0, <1>n DEF QueueInv
    <2> QED BY <1>n, <2>1
  <1>3. {k \in 1..Len(task_queue) : task_queue[k] = t}
          = IF First <= t /\ t <= submitted THEN {t - First + 1} ELSE {}
    <2>1. Queued <= Len(task_queue) /\ Queued >= 0 BY <1>0, <1>n DEF QueueInv
    <2>2. CASE First <= t /\ t <= submitted
      <3>1. t - First + 1 \in 1..Len(task_queue) /\ t - First + 1 <= Queued
        BY <1>n, <2>1, <2>2
      <3> QED BY <1>2, <2>2, <3>1
    <2>3. CASE ~(First <= t /\ t <= submitted)
      <3>1. \A k \in 1..Len(task_queue) : ~(k <= Queued /\ k = t - First + 1)
        BY <1>n, <2>1, <2>3
      <3> QED BY <1>2, <2>3, <3>1
    <2> QED BY <2>2, <2>3
  <1>4. t \in WithWorkers => \E w \in Workers : {v \in Workers : pending[v] = t} = {w}
    <2> SUFFICES ASSUME t \in WithWorkers
                 PROVE  \E w \in Workers : {v \in Workers : pending[v] = t} = {w}
      OBVIOUS
    <2>1. PICK w \in Working : pending[w] = t BY DEF WithWorkers
    <2>2. \A v \in Workers : pending[v] = t => v \in Working BY <1>n DEF Working
    <2>3. \A v \in Workers : pending[v] = t => v = w BY <1>0, <2>1, <2>2 DEF PlaceInv
    <2>4. w \in Workers BY DEF Working
    <2> QED BY <2>1, <2>3, <2>4
  <1>5. t \notin WithWorkers => {v \in Workers : pending[v] = t} = {}
    BY <1>n DEF WithWorkers, Working
  <1>6. t \in Results =>
          \E k : {j \in 1..Len(result_queue) : result_queue[j] = t} = {k}
    <2> SUFFICES ASSUME t \in Results
                 PROVE  \E k : {j \in 1..Len(result_queue) : result_queue[j] = t} = {k}
      OBVIOUS
    <2>1. result_queue \in Seq(Ids) /\ IsInjective(result_queue)
      BY <1>0 DEF TypeOK, PlaceInv
    <2>2. PICK k \in 1..Len(result_queue) : result_queue[k] = t
      BY <2>1, SetOf DEF Results
    <2>3. \A a, b \in 1..Len(result_queue) : result_queue[a] = result_queue[b] => a = b
      BY <2>1, SetOf
    <2> QED BY <2>2, <2>3
  <1>7. t \notin Results => {j \in 1..Len(result_queue) : result_queue[j] = t} = {}
    <2>1. \A x : x \in ToSet(result_queue)
                   <=> \E k \in 1..Len(result_queue) : result_queue[k] = x
      BY <1>0, SetOf DEF TypeOK
    <2> QED BY <2>1 DEF Results
  <1> QED BY <1>1, <1>3, <1>4, <1>5, <1>6, <1>7

\* A task that was submitted and not reaped is in one place, any other in none.
LEMMA OnePlace ==
    ASSUME IndInv, NEW t \in Ids
    PROVE  Cardinality(Places(t)) = IF reaped < t /\ t <= submitted THEN 1 ELSE 0
  <1> DEFINE a == {k \in DOMAIN task_queue : task_queue[k] = t}
             b == {w \in Workers : pending[w] = t}
             c == {k \in DOMAIN result_queue : result_queue[k] = t}
             d == completed_results \cap {t}
  <1>0. TypeOK /\ QueueInv /\ PlaceInv BY DEF IndInv
  <1>n. /\ t \in Int /\ First \in Int /\ submitted \in Int /\ reaped \in Int /\ Queued \in Int
        /\ First = submitted - Queued + 1 /\ Queued >= 0 /\ reaped < First
    BY <1>0, Numbers DEF Ids, QueueInv
  <1>1. Places(t) = {<<"task", k>> : k \in a} \cup {<<"worker", w>> : w \in b}
                    \cup {<<"result", k>> : k \in c} \cup {<<"cached", k>> : k \in d}
    BY DEF Places
  <1>2. a = IF First <= t /\ t <= submitted THEN {t - First + 1} ELSE {}
    BY PlaceParts
  <1>3. b = {} <=> t \notin WithWorkers BY PlaceParts
  <1>4. c = {} <=> t \notin Results BY PlaceParts
  <1>5. d = {} <=> t \notin completed_results OBVIOUS
  <1>6. t \in WithWorkers \cup Results \cup completed_results <=> reaped < t /\ t < First
    BY <1>n, PlaceTypes
  <1>7. /\ t \in WithWorkers => \E x : b = {x}
        /\ t \in Results => \E x : c = {x}
        /\ t \in completed_results => d = {t}
    BY PlaceParts
  <1>8. /\ ~(t \in WithWorkers /\ t \in Results)
        /\ ~(t \in WithWorkers /\ t \in completed_results)
        /\ ~(t \in Results /\ t \in completed_results)
    BY <1>0 DEF PlaceInv
  <1> HIDE DEF a, b, c, d
  <1>9. CASE First <= t /\ t <= submitted
    <2>1. a = {t - First + 1} /\ b = {} /\ c = {} /\ d = {}
      BY <1>n, <1>2, <1>3, <1>4, <1>5, <1>6, <1>9
    <2>2. Places(t) = {<<"task", t - First + 1>>} BY <1>1, <2>1
    <2>3. Cardinality(Places(t)) = 1 BY <2>2, FS_Singleton
    <2> QED BY <1>n, <1>9, <2>3
  <1>10. CASE reaped < t /\ t < First
    <2>1. a = {} BY <1>n, <1>2, <1>10
    <2>2. t \in WithWorkers \cup Results \cup completed_results BY <1>6, <1>10
    <2>3. ASSUME t \in WithWorkers PROVE \E x : Places(t) = {x}
      <3>1. c = {} /\ d = {} BY <1>4, <1>5, <1>8, <2>3
      <3>2. PICK x : b = {x} BY <1>7, <2>3
      <3>3. Places(t) = {<<"worker", x>>} BY <1>1, <2>1, <3>1, <3>2
      <3> QED BY <3>3
    <2>4. ASSUME t \in Results PROVE \E x : Places(t) = {x}
      <3>1. b = {} /\ d = {} BY <1>3, <1>5, <1>8, <2>4
      <3>2. PICK x : c = {x} BY <1>7, <2>4
      <3>3. Places(t) = {<<"result", x>>} BY <1>1, <2>1, <3>1, <3>2
      <3> QED BY <3>3
    <2>5. ASSUME t \in completed_results PROVE \E x : Places(t) = {x}
      <3>1. b = {} /\ c = {} BY <1>3, <1>4, <1>8, <2>5
      <3>2. Places(t) = {<<"cached", t>>} BY <1>1, <1>7, <2>1, <2>5, <3>1
      <3> QED BY <3>2
    <2>6. \E x : Places(t) = {x} BY <2>2, <2>3, <2>4, <2>5
    <2>7. Cardinality(Places(t)) = 1 BY <2>6, FS_Singleton
    <2> QED BY <1>n, <1>10, <2>7
  <1>11. CASE t <= reaped \/ submitted < t
    <2>1. a = {} /\ b = {} /\ c = {} /\ d = {}
      BY <1>n, <1>2, <1>3, <1>4, <1>5, <1>6, <1>11
    <2>2. Places(t) = {} BY <1>1, <2>1
    <2> QED BY <1>n, <1>11, <2>2, FS_EmptySet
  <1> QED BY <1>n, <1>9, <1>10, <1>11

\* ExecutorCore loses, duplicates or repeats no task, for any number of workers:
\* a submitted task is in exactly one of task_queue, a worker, result_queue and
\* completed_results until it is reaped, and by then it has run, once.
THEOREM NoTaskLost == Spec => []TaskConserved
  <1>1. IndInv => TaskConserved
    <2> SUFFICES ASSUME IndInv, NEW t \in Ids, t <= reaped PROVE ran[t] = 1
      BY OnePlace DEF TaskConserved
    <2>1. TypeOK /\ RanInv /\ QueueInv BY DEF IndInv
    <2>2. t \in Int /\ reaped \in Int /\ First \in Int /\ reaped < First
      BY <2>1, Numbers DEF Ids, QueueInv
    <2>3. t < First /\ ~(reaped < t) BY <2>2
    <2>4. \A w \in Workers : wpc[w] = "run" => pending[w] # t BY <2>3, PlaceTypes
    <2> QED BY <2>1, <2>3, <2>4 DEF RanInv
  <1> QED BY <1>1, Invariance, PTL
-----------------------------------------------------------------------------
(* The queues are large enough.                                              *)

\* Results in the queue and with a worker are tasks submitted and not reaped.
LEMMA RoomForResult ==
    ASSUME IndInv, NEW w \in Workers, wpc[w] = "push"
    PROVE  Len(result_queue) < Capacity
  <1>0. TypeOK /\ QueueInv /\ PlaceInv /\ SubmitInv BY DEF IndInv
  <1>n. /\ Len(result_queue) \in Nat /\ First \in Int /\ submitted \in Int
        /\ reaped \in Int /\ Queued \in Int /\ Outstanding \in Nat /\ Capacity \in Nat
        /\ Outstanding <= Capacity /\ First = submitted - Queued + 1
    BY <1>0, Numbers
  <1>1. result_queue \in Seq(Ids) /\ IsInjective(result_queue)
    BY <1>0 DEF TypeOK, PlaceInv
  <1>2. IsFiniteSet(Results) /\ Cardinality(Results) = Len(result_queue)
    BY <1>1, SetSize DEF Results
  <1>3. pending[w] \in WithWorkers BY <1>0 DEF PlaceInv, WithWorkers, Working
  <1>4. pending[w] \notin Results BY <1>0, <1>2, <1>3 DEF PlaceInv
  <1>5. Cardinality(Results \cup {pending[w]}) = Len(result_queue) + 1
    BY <1>2, <1>4, FS_AddElement
  <1>6. Results \cup {pending[w]} \subseteq (reaped + 1)..(First - 1)
    BY <1>0, <1>2, <1>3 DEF PlaceInv
  <1>7. /\ IsFiniteSet((reaped + 1)..(First - 1))
        /\ Cardinality((reaped + 1)..(First - 1)) = First - 1 - reaped
    <2>1. reaped < First BY <1>0 DEF QueueInv
    <2>2. reaped + 1 \in Int /\ First - 1 \in Int BY <1>n
    <2>3. /\ IsFiniteSet((reaped + 1)..(First - 1))
          /\ Cardinality((reaped + 1)..(First - 1))
               = IF reaped + 1 > First - 1 THEN 0 ELSE (First - 1) - (reaped + 1) + 1
      BY <2>2, FS_Interval
    <2> QED BY <1>n, <2>1, <2>3
  <1>8. Cardinality(Results \cup {pending[w]}) <= Cardinality((reaped + 1)..(First - 1))
    BY <1>6, <1>7, FS_Subset
  <1>9. Queued >= 0 /\ submitted - reaped <= Outstanding
    BY <1>0, <1>n DEF QueueInv, SubmitInv
  <1>10. Len(result_queue) + 1 <= First - 1 - reaped BY <1>5, <1>7, <1>8
  <1> QED BY <1>n, <1>9, <1>10

\* While the caller bounds its outstanding tasks by the capacity, as the comment
\* of ExecutorCore asks, submit() never finds task_queue full and no worker ever
\* finds result_queue full: the two blocking pushes cannot wait for each other.
THEOREM PushesNeverBlock == Spec => []QueuesSuffice
  <1>1. IndInv => QueuesSuffice
    <2> SUFFICES ASSUME IndInv, spc = "submit" PROVE Len(task_queue) < Capacity
      BY RoomForResult DEF QueuesSuffice
    <2>0. TypeOK /\ QueueInv /\ SubmitInv BY DEF IndInv
    <2>n. /\ Len(task_queue) \in Nat /\ First \in Int /\ submitted \in Int
          /\ reaped \in Int /\ Queued \in Int /\ Outstanding \in Nat /\ Capacity \in Nat
          /\ Cardinality(Exited) \in Nat
          /\ Outstanding <= Capacity /\ First = submitted - Queued + 1
          /\ Queued = Len(task_queue) - stops + Cardinality(Exited)
      BY <2>0, Numbers
    <2>1. stops = 0 /\ submitted - reaped < Outstanding BY <2>0 DEF SubmitInv
    <2>2. reaped < First BY <2>0 DEF QueueInv
    <2> QED BY <2>n, <2>1, <2>2
  <1> QED BY <1>1, Invariance, PTL

-----------------------------------------------------------------------------
(* The executor implements TaskPool.                                         *)

\* The tasks that are done, as the mapping to TaskPool reads them.
Done == {t \in Ids : ran[t] = 1}

LEMMA StartMaps == Init => Pool!PoolInit
  <1> SUFFICES ASSUME Init PROVE Pool!PoolInit OBVIOUS
  <1>1. setup.num_threads \in Nat \ {0} BY ExecutorAssumption DEF Init
  <1>2. {t \in Ids : ran[t] = 1} = {} BY DEF Init
  <1> QED BY <1>1, <1>2 DEF Init, Pool!PoolInit

\* A task before First that is not done is with a worker that runs it.
LEMMA NotDone ==
    ASSUME IndInv, NEW u \in Ids, u < First, u \notin Done
    PROVE  \E v \in Workers : wpc[v] = "run" /\ pending[v] = u
  BY DEF IndInv, RanInv, Done

\* A worker that finishes a task overtakes at most what the others run.
LEMMA FinishMaps ==
    ASSUME IndInv, NEW w \in Workers, RunTask(w)
    PROVE  Pool!Finish
  <1> DEFINE t == pending[w]
             before == (1..(t - 1)) \ Done
             f == [u \in before |-> CHOOSE v \in Workers : wpc[v] = "run" /\ pending[v] = u]
  <1>0. TypeOK /\ QueueInv /\ PlaceInv /\ RanInv BY DEF IndInv
  <1>1. /\ wpc[w] = "run" /\ ran' = [ran EXCEPT ![t] = @ + 1]
        /\ UNCHANGED <<setup, submitted, reaped, spc>>
    BY <1>0 DEF RunTask
  <1>2. t \in Ids /\ t < First /\ w \in Working BY <1>1, PlaceTypes
  <1>n. /\ First \in Int /\ submitted \in Int /\ Queued \in Int /\ Tasks \in Nat
        /\ First = submitted - Queued + 1 /\ Queued >= 0 /\ setup.num_threads \in Nat
    BY <1>0, Numbers DEF QueueInv
  <1>3. t \in Int /\ t \in 1..submitted BY <1>2, <1>n DEF Ids
  <1>4. ran[t] = 0 /\ t \notin Done BY <1>0, <1>1, <1>2 DEF RanInv, Done
  <1>5. Done' = Done \cup {t}
    BY <1>0, <1>1, <1>2, <1>4 DEF Done, TypeOK, Ids
  <1>6. ASSUME NEW u \in before
        PROVE  f[u] \in Workers \ {w} /\ pending[f[u]] = u
    <2>1. u \in Ids /\ u < First /\ u # t BY <1>2, <1>n DEF Ids
    <2>2. \E v \in Workers : wpc[v] = "run" /\ pending[v] = u BY <2>1, NotDone
    <2>3. f[u] \in Workers /\ pending[f[u]] = u BY <2>2
    <2> QED BY <2>1, <2>3
  <1> HIDE DEF f, before
  <1>7. f \in Injection(before, Workers \ {w})
    <2>1. f \in [before -> Workers \ {w}] BY <1>6 DEF f
    <2>2. \A x, y \in before : f[x] = f[y] => x = y BY <1>6
    <2> QED BY <2>1, <2>2 DEF Injection, IsInjective
  <1>8. /\ IsFiniteSet(Workers \ {w})
        /\ Cardinality(Workers \ {w}) = setup.num_threads - 1
    BY <1>0, Numbers, FS_RemoveElement
  <1>9. IsFiniteSet(before) /\ Cardinality(before) <= setup.num_threads - 1
    BY <1>7, <1>8, FS_Injection
  <1>10. Cardinality(before) \in Nat BY <1>9, FS_CardinalityType
  <1>11. Cardinality((1..(t - 1)) \ Done) < setup.num_threads
    BY <1>n, <1>9, <1>10 DEF before
  <1> HIDE DEF t
  <1>12. \E x \in (1..submitted) \ Done :
            /\ Cardinality((1..(x - 1)) \ Done) < setup.num_threads
            /\ Done' = Done \cup {x}
    BY <1>3, <1>4, <1>5, <1>11
  <1>13. (spc' = "joined") = (spc = "joined") BY <1>1
  <1>14. \E x \in (1..submitted) \ {u \in Ids : ran[u] = 1} :
            /\ Cardinality((1..(x - 1)) \ {u \in Ids : ran[u] = 1}) < setup.num_threads
            /\ {u \in Ids : ran'[u] = 1} = {u \in Ids : ran[u] = 1} \cup {x}
    BY <1>12 DEF Done
  <1>15. \A X : Pool!Cardinality(X) = Cardinality(X)
    BY DEF Cardinality, Pool!Cardinality
  <1> QED BY <1>1, <1>13, <1>14, <1>15 DEF Pool!Finish

\* The executor joins when every task has been done.
LEMMA JoinMaps == ASSUME IndInv, Join PROVE Pool!Close
  <1>0. TypeOK /\ QueueInv /\ PlaceInv /\ RanInv BY DEF IndInv
  <1>n. /\ First \in Int /\ submitted \in Nat /\ Queued \in Int /\ Tasks \in Nat
        /\ First = submitted - Queued + 1 /\ submitted <= Tasks
        /\ setup.num_threads \in Nat \ {0}
    BY <1>0, Numbers
  <1>1. \A w \in Workers : wpc[w] = "exit" BY DEF Join
  <1>2. 1 \in Workers BY <1>n DEF Workers
  <1>3. Queued = 0 BY <1>0, <1>1, <1>2 DEF QueueInv, Exited
  <1>4. \A t \in Ids : ran[t] = 1 <=> t <= submitted
    <2>1. \A t \in Ids : t < First <=> t <= submitted BY <1>n, <1>3 DEF Ids
    <2> QED BY <1>0, <1>1, <2>1 DEF RanInv
  <1>5. {t \in Ids : ran[t] = 1} = 1..submitted BY <1>4, <1>n DEF Ids
  <1> QED BY <1>5 DEF Join, Pool!Close

\* A result that is taken is of a task that is done.
LEMMA TakeMaps == ASSUME IndInv, TakeCached PROVE Pool!Take
  <1>0. TypeOK /\ PlaceInv /\ RanInv BY DEF IndInv
  <1>1. reaped + 1 \in completed_results BY DEF TakeCached
  <1>2. reaped + 1 \in Ids /\ reaped + 1 < First BY <1>1, PlaceTypes
  <1>3. reaped + 1 \notin WithWorkers BY <1>0, <1>1 DEF PlaceInv
  <1>4. \A w \in Workers : wpc[w] = "run" => pending[w] # reaped + 1
    BY <1>3, PlaceTypes
  <1>5. ran[reaped + 1] = 1 BY <1>0, <1>2, <1>4 DEF RanInv
  <1> QED BY <1>2, <1>5 DEF TakeCached, Pool!Take

\* Every step of the executor is a step of the pool, or none.
LEMMA StepMaps ==
    ASSUME IndInv, [Next]_vars
    PROVE  [Pool!PoolNext]_(Pool!poolVars)
  <1>1. CASE PushTask BY <1>1 DEF PushTask, Pool!PoolNext, Pool!Post
  <1>2. CASE Join BY <1>2, JoinMaps DEF Pool!PoolNext
  <1>3. CASE TakeCached BY <1>3, TakeMaps DEF Pool!PoolNext
  <1>4. ASSUME NEW w \in Workers, RunTask(w) PROVE Pool!PoolNext
    BY <1>4, FinishMaps DEF Pool!PoolNext
  <1>5. ASSUME UNCHANGED <<setup, submitted, ran, reaped>>,
               (spc' = "joined") <=> (spc = "joined")
        PROVE  UNCHANGED Pool!poolVars
    BY <1>5 DEF Pool!poolVars
  <1>6. CASE Submit \/ RequestStop \/ PushStop
    BY <1>5, <1>6 DEF Submit, RequestStop, PushStop, SubmitterFree
  <1>7. CASE Reap \/ DrainResult \/ NotReady
    BY <1>5, <1>7 DEF Reap, DrainResult, NotReady
  <1>8. ASSUME NEW w \in Workers, TakeTask(w) \/ PushResult(w)
        PROVE  UNCHANGED Pool!poolVars
    BY <1>5, <1>8 DEF TakeTask, PushResult
  <1>9. CASE UNCHANGED vars BY <1>5, <1>9 DEF vars
  <1> QED
    BY <1>1, <1>2, <1>3, <1>4, <1>6, <1>7, <1>8, <1>9
    DEF Next, Submitter, Reaper, Worker, Yield, PushBlocked, Joined

\* The two queues, completed_results and the sentinels implement the simple
\* pool (the safety half of ImplementsPool): results are taken in the order of
\* the tasks, a task overtakes only what other workers are at, and the executor
\* joins when all tasks are done.
THEOREM PoolImplemented == Spec => Pool!PoolSafety
  <1>1. Spec => []IndInv BY Invariance
  <1> QED BY <1>1, StartMaps, StepMaps, PTL DEF Spec, Pool!PoolSafety
=============================================================================
