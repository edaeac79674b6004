-------------------------------- MODULE MCQueues --------------------------------
(***************************************************************************)
(* The two components that keep a bounded number of requests outstanding,  *)
(* in one run: the loader's executor and stloader's reader.  A behaviour   *)
(* belongs to one of them, the variable part says to which; the other is   *)
(* in a state in which it does nothing.                                    *)
(***************************************************************************)
EXTENDS TaskExecutor, UringReader

VARIABLE part

\* One worker is the cuda thread or the wait thread, whose submitter is also its
\* reaper when it waits for a chunk; more are worker_threads.
MCSetups == [num_threads : 1..2, one_thread : BOOLEAN]

\* An executor that was started and is never called, a reader that is not running.
ExecutorIdle == Init /\ setup = [num_threads |-> 1, one_thread |-> TRUE]
ReaderIdle ==
    /\ pc = "idle" /\ result = "none"
    /\ next = 0 /\ free = Reverse([k \in Slots |-> k]) /\ inflight = 0
    /\ job = [s \in Slots |-> NoJob]
    /\ sq = <<>> /\ kernel = {} /\ cq = <<>> /\ batch = 0
    /\ requests = 0 /\ short_reads = 0
    /\ filled = [j \in 1..Jobs |-> 0]

QueuesInit == \/ part = "executor" /\ Init /\ ReaderIdle
              \/ part = "reader" /\ ReaderInit /\ ExecutorIdle

QueuesNext == /\ UNCHANGED part
              /\ \/ part = "executor" /\ Next /\ UNCHANGED readerVars
                 \/ part = "reader" /\ ReaderNext /\ UNCHANGED vars

\* The fairness of each component; nothing of an idle one is enabled.
QueuesSpec == QueuesInit /\ [][QueuesNext]_<<part, vars, readerVars>> /\ Fairness /\ ReaderFairness
=============================================================================
