----------------------------- MODULE TaskExecutor -----------------------------
(***************************************************************************)
(* ExecutorCore with FunctionWorkerDriver: a submitter, the worker threads *)
(* and a reaper around two bounded queues, as the loader uses it.  Tasks   *)
(* are numbered in the order of their submission; the reaper asks for      *)
(* results in that order, the workers may finish in any order, and what    *)
(* comes too early is kept in completed_results.                           *)
(***************************************************************************)
EXTENDS Integers, Sequences, FiniteSets

CONSTANTS
    Setups,         \* how the executor may be started and used:
                    \*   num_threads, and one_thread, TRUE when submitter
                    \*   and reaper are the same thread
    Tasks,          \* number of tasks the submitter has
    Capacity,       \* capacity of task_queue and of result_queue
    Outstanding     \* the caller's bound on tasks submitted and not reaped

ASSUME ExecutorAssumption ==
    /\ Setups \subseteq [num_threads : Nat \ {0}, one_thread : BOOLEAN]
    /\ Tasks \in Nat /\ Capacity \in Nat \ {0}

\* "callers must keep a Reaper running, or bound outstanding tasks below queue
\* capacity": post_read_chunk's wait keeps the loader within it.
ASSUME OutstandingAssumption == Outstanding \in 1..Capacity

Stop == 0               \* the sentinel of make_stop
Idle == 0               \* a worker without a task

VARIABLES
    setup,              \* one of Setups
    task_queue,         \* tasks and sentinels
    result_queue,       \* finished tasks
    completed_results,  \* results popped before they were asked for
    pending,            \* the task a worker runs, or whose result it pushes
    wpc,                \* "loop", "run", "push" or "exit" of each worker
    ran,                \* how often each task's function has returned
    submitted,          \* tasks pushed so far
    reaped,             \* results returned so far
    spc,                \* "open", "submit", "stop", "join" or "joined"
    stops,              \* sentinels pushed
    rpc                 \* "off", "poll" (try_reap) or "wait" (reap)

vars == <<setup, task_queue, result_queue, completed_results, pending, wpc, ran,
          submitted, reaped, spc, stops, rpc>>

\* The worker threads that start() creates.
Workers == 1..setup.num_threads
Ids == 1..Tasks

Init ==
    /\ setup \in Setups
    /\ task_queue = <<>> /\ result_queue = <<>> /\ completed_results = {}
    /\ pending = [w \in Workers |-> Idle] /\ wpc = [w \in Workers |-> "loop"]
    /\ ran = [t \in Ids |-> 0]
    /\ submitted = 0 /\ reaped = 0
    /\ spc = "open" /\ stops = 0 /\ rpc = "off"

\* A thread inside submit() or reap() does nothing else.
SubmitterFree == spc = "open" /\ (setup.one_thread => rpc = "off")
ReaperFree == rpc = "off" /\ (setup.one_thread => spc \in {"open", "joined"})

-----------------------------------------------------------------------------
(* The submitter.                                                            *)

\* submit(), called within the caller's bound ...
Submit ==
    /\ SubmitterFree
    /\ submitted < Tasks /\ submitted - reaped < Outstanding
    /\ spc' = "submit"
    /\ UNCHANGED <<task_queue, result_queue, completed_results, pending, wpc,
                   ran, submitted, reaped, stops, rpc, setup>>

\* ... blocks while task_queue is full.
PushTask ==
    /\ spc = "submit"
    /\ Len(task_queue) < Capacity
    /\ task_queue' = Append(task_queue, submitted + 1)
    /\ submitted' = submitted + 1
    /\ spc' = "open"
    /\ UNCHANGED <<result_queue, completed_results, pending, wpc, ran, reaped,
                   stops, rpc, setup>>

\* stop(): one sentinel for each worker, behind all tasks.
RequestStop ==
    /\ SubmitterFree
    /\ spc' = "stop"
    /\ UNCHANGED <<task_queue, result_queue, completed_results, pending, wpc,
                   ran, submitted, reaped, stops, rpc, setup>>

\* Mutant: one sentinel, whatever the number of workers.
OneStop ==
    /\ spc = "stop"
    /\ Len(task_queue) < Capacity
    /\ task_queue' = Append(task_queue, Stop)
    /\ stops' = stops + 1
    /\ spc' = "join"
    /\ UNCHANGED <<result_queue, completed_results, pending, wpc, ran,
                   submitted, reaped, rpc, setup>>

PushStop ==
    /\ spc = "stop"
    /\ Len(task_queue) < Capacity
    /\ task_queue' = Append(task_queue, Stop)
    /\ stops' = stops + 1
    /\ spc' = IF stops + 1 = setup.num_threads THEN "join" ELSE "stop"
    /\ UNCHANGED <<result_queue, completed_results, pending, wpc, ran,
                   submitted, reaped, rpc, setup>>

\* join() returns when every worker thread has.
Join ==
    /\ spc = "join"
    /\ \A w \in Workers : wpc[w] = "exit"
    /\ spc' = "joined"
    /\ UNCHANGED <<task_queue, result_queue, completed_results, pending, wpc,
                   ran, submitted, reaped, stops, rpc, setup>>

-----------------------------------------------------------------------------
(* The reaper.  reap() and try_reap() look for the next task's result.       *)

Reap ==
    /\ ReaperFree
    /\ reaped < submitted
    /\ rpc' \in {"poll", "wait"}
    /\ UNCHANGED <<task_queue, result_queue, completed_results, pending, wpc,
                   ran, submitted, reaped, spc, stops, setup>>

\* The result is in completed_results.
TakeCached ==
    /\ rpc # "off"
    /\ reaped + 1 \in completed_results
    /\ completed_results' = completed_results \ {reaped + 1}
    /\ reaped' = reaped + 1
    /\ rpc' = "off"
    /\ UNCHANGED <<task_queue, result_queue, pending, wpc, ran, submitted, spc,
                   stops, setup>>

\* Mutant: a result that is not the one asked for is thrown away.
DrainOther ==
    /\ rpc # "off"
    /\ reaped + 1 \notin completed_results
    /\ result_queue # <<>>
    /\ completed_results' = completed_results
                              \cup ({Head(result_queue)} \cap {reaped + 1})
    /\ result_queue' = Tail(result_queue)
    /\ UNCHANGED <<task_queue, pending, wpc, ran, submitted, reaped, spc, stops,
                   rpc, setup>>

\* cache_until_ready, take_until_ready: pop one result and look again.
DrainResult ==
    /\ rpc # "off"
    /\ reaped + 1 \notin completed_results
    /\ result_queue # <<>>
    /\ completed_results' = completed_results \cup {Head(result_queue)}
    /\ result_queue' = Tail(result_queue)
    /\ UNCHANGED <<task_queue, pending, wpc, ran, submitted, reaped, spc, stops,
                   rpc, setup>>

\* Nothing there: try_reap() gives up, reap() yields and looks again.
NotReady ==
    /\ rpc # "off"
    /\ reaped + 1 \notin completed_results
    /\ result_queue = <<>>
    /\ rpc' = IF rpc = "poll" THEN "off" ELSE "wait"
    /\ UNCHANGED <<task_queue, result_queue, completed_results, pending, wpc,
                   ran, submitted, reaped, spc, stops, setup>>

-----------------------------------------------------------------------------
(* worker_loop of worker w.  FunctionWorkerDriver holds one task.            *)

\* Mutant: a worker exits as soon as stop was requested, in front of the tasks.
TakeEager(w) ==
    /\ wpc[w] = "loop"
    /\ task_queue # <<>>
    /\ task_queue' = Tail(task_queue)
    /\ \/ /\ spc \in {"stop", "join"}
          /\ wpc' = [wpc EXCEPT ![w] = "exit"]
          /\ UNCHANGED pending
       \/ /\ spc \notin {"stop", "join"}
          /\ wpc' = [wpc EXCEPT ![w] = "run"]
          /\ pending' = [pending EXCEPT ![w] = Head(task_queue)]
    /\ UNCHANGED <<result_queue, completed_results, ran, submitted, reaped, spc,
                   stops, rpc, setup>>

TakeTask(w) ==
    /\ wpc[w] = "loop"
    /\ task_queue # <<>>
    /\ task_queue' = Tail(task_queue)
    /\ \/ /\ Head(task_queue) = Stop
          /\ wpc' = [wpc EXCEPT ![w] = "exit"]
          /\ UNCHANGED pending
       \/ /\ Head(task_queue) # Stop
          /\ wpc' = [wpc EXCEPT ![w] = "run"]
          /\ pending' = [pending EXCEPT ![w] = Head(task_queue)]
    /\ UNCHANGED <<result_queue, completed_results, ran, submitted, reaped, spc,
                   stops, rpc, setup>>

\* process_tasks: the task's function returns.
RunTask(w) ==
    /\ wpc[w] = "run"
    /\ ran' = [ran EXCEPT ![pending[w]] = @ + 1]
    /\ wpc' = [wpc EXCEPT ![w] = "push"]
    /\ UNCHANGED <<task_queue, result_queue, completed_results, pending,
                   submitted, reaped, spc, stops, rpc, setup>>

\* The worker blocks while result_queue is full.
PushResult(w) ==
    /\ wpc[w] = "push"
    /\ Len(result_queue) < Capacity
    /\ result_queue' = Append(result_queue, pending[w])
    /\ pending' = [pending EXCEPT ![w] = Idle]
    /\ wpc' = [wpc EXCEPT ![w] = "loop"]
    /\ UNCHANGED <<task_queue, completed_results, ran, submitted, reaped, spc,
                   stops, rpc, setup>>

\* No task: yield and look again.
Yield(w) == wpc[w] = "loop" /\ task_queue = <<>> /\ UNCHANGED vars

-----------------------------------------------------------------------------
\* push() on a full queue, by the submitter or by a worker: yield and try again.
QueueFull ==
    \/ spc \in {"submit", "stop"} /\ Len(task_queue) = Capacity
    \/ Len(result_queue) = Capacity /\ \E w \in Workers : wpc[w] = "push"
PushBlocked == QueueFull /\ UNCHANGED vars

Submitter == Submit \/ PushTask \/ RequestStop \/ PushStop \/ Join
Reaper == Reap \/ TakeCached \/ DrainResult \/ NotReady
Worker(w) == TakeTask(w) \/ RunTask(w) \/ PushResult(w) \/ Yield(w)

\* After join() only results are left to reap.
Joined == spc = "joined" /\ UNCHANGED vars

Next == Submitter \/ Reaper \/ (\E w \in Workers : Worker(w)) \/ PushBlocked
        \/ Joined

Spec == Init /\ [][Next]_vars

\* Threads are scheduled and tasks return; whether and when to submit, to reap
\* or to stop is the caller's choice.
AllWorkers == UNION {1..s.num_threads : s \in Setups}
Fairness ==
    /\ WF_vars(PushTask) /\ WF_vars(PushStop) /\ WF_vars(Join)
    /\ WF_vars(TakeCached \/ DrainResult \/ NotReady)
    /\ \A w \in AllWorkers :
          WF_vars(w \in Workers /\ (TakeTask(w) \/ RunTask(w) \/ PushResult(w)))
FairSpec == Spec /\ Fairness
-----------------------------------------------------------------------------
TypeOK ==
    /\ setup \in Setups
    /\ task_queue \in Seq(Ids \cup {Stop}) /\ Len(task_queue) <= Capacity
    /\ result_queue \in Seq(Ids) /\ Len(result_queue) <= Capacity
    /\ completed_results \subseteq Ids
    /\ pending \in [Workers -> Ids \cup {Idle}]
    /\ wpc \in [Workers -> {"loop", "run", "push", "exit"}]
    /\ ran \in [Ids -> {0, 1}]
    /\ submitted \in 0..Tasks /\ reaped \in 0..submitted
    /\ spc \in {"open", "submit", "stop", "join", "joined"}
    /\ stops \in 0..setup.num_threads
    /\ rpc \in {"off", "poll", "wait"}

\* The places where task t is.
Places(t) ==
    {<<"task", k>> : k \in {k \in DOMAIN task_queue : task_queue[k] = t}}
    \cup {<<"worker", w>> : w \in {w \in Workers : pending[w] = t}}
    \cup {<<"result", k>> : k \in {k \in DOMAIN result_queue : result_queue[k] = t}}
    \cup {<<"cached", c>> : c \in completed_results \cap {t}}

\* No task is lost, duplicated or run twice, whatever order the workers finish
\* in: a submitted task is in one place until its result is reaped, and then it
\* has been run.
TaskConserved ==
    \A t \in Ids :
        /\ Cardinality(Places(t)) = IF reaped < t /\ t <= submitted THEN 1 ELSE 0
        /\ t <= reaped => ran[t] = 1

\* submit(), reap() and join() return: the two bounded queues never fill each
\* other while the caller keeps its bound, even if it stops reaping to join.
CallsReturn ==
    /\ spc = "submit" ~> spc = "open"
    /\ spc = "stop" ~> spc = "joined"
    /\ rpc = "wait" ~> rpc = "off"

Pool == INSTANCE TaskPool WITH
    workers <- setup.num_threads,
    posted  <- submitted,
    done    <- {t \in Ids : ran[t] = 1},
    taken   <- reaped,
    joined  <- spc = "joined"

\* The two queues, completed_results and the sentinels behave like the simple
\* pool, in which no result overtakes another and a task is at most overtaken by
\* what the other workers do.
ImplementsPool == Pool!PoolSpec
=============================================================================
