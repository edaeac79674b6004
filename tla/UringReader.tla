------------------------------ MODULE UringReader ------------------------------
(***************************************************************************)
(* stloader's read_files: a single thread that keeps up to Depth reads of  *)
(* a planned list of jobs in an io_uring, each into a buffer of a fixed    *)
(* pool, and the kernel on the other side of the ring.                     *)
(***************************************************************************)
EXTENDS Integers, Sequences, FiniteSets, SequencesExt

CONSTANTS
    Jobs,           \* number of jobs the plan expands to
    Depth,          \* cfg.depth: buffers in the pool
    Entries,        \* submission queue entries of the ring
    Faults          \* which of FaultKinds the kernel may produce

\* The ring is created with depth.next_power_of_two().max(2) entries.
ASSUME ReaderAssumption ==
    /\ Jobs \in Nat /\ Depth \in Nat \ {0} /\ Entries \in Nat /\ Entries >= Depth

\* A system call interrupted by a signal, one that fails, a failed read.
FaultKinds == {"eintr", "enter", "read"}
ASSUME ReaderFaults == Faults \subseteq FaultKinds

Slots == 1..Depth
NoJob == 0

VARIABLES
    pc,         \* control point of the reader
    result,     \* "none", "ok" or "err": what read_files returned
    next,       \* jobs taken so far
    free,       \* free buffer slots, a stack
    inflight,   \* the reader's count of requests it waits for
    job,        \* the job a slot's buffer was last given to
    sq,         \* slots pushed to the submission queue
    kernel,     \* slots whose read the kernel is doing
    cq,         \* completions <<slot, outcome>> not yet reaped
    batch,      \* how many of them the reaping loop saw when it began
    requests,   \* stats.requests
    short_reads,\* stats.short_reads
    filled      \* how often each job's read was reaped, full or short

readerVars == <<pc, result, next, free, inflight, job, sq, kernel, cq, batch,
          requests, short_reads, filled>>

ReaderInit ==
    /\ pc = "fill" /\ result = "none"
    /\ next = 0 /\ free = Reverse([k \in Slots |-> k]) /\ inflight = 0
    /\ job = [s \in Slots |-> NoJob]
    /\ sq = <<>> /\ kernel = {} /\ cq = <<>> /\ batch = 0
    /\ requests = 0 /\ short_reads = 0
    /\ filled = [j \in 1..Jobs |-> 0]

-----------------------------------------------------------------------------
\* The queue has room for every buffer, so it is the pool that runs out.
CanPush == next < Jobs /\ free # <<>> /\ Len(sq) < Entries

\* One iteration of the filling loop: the next job gets the buffer on top of
\* the stack.
PushRead ==
    /\ pc = "fill" /\ CanPush
    /\ LET slot == Last(free) IN
          /\ free' = Front(free)
          /\ sq' = Append(sq, slot)
          /\ job' = [job EXCEPT ![slot] = next + 1]
    /\ next' = next + 1 /\ inflight' = inflight + 1
    /\ UNCHANGED <<pc, result, kernel, cq, batch, requests, short_reads, filled>>

\* Mutant: return as soon as there is nothing left to submit.
EndFillEarly ==
    /\ pc = "fill" /\ ~CanPush
    /\ IF next = Jobs THEN pc' = "returned" /\ result' = "ok"
                      ELSE pc' = "enter" /\ UNCHANGED result
    /\ UNCHANGED <<next, free, inflight, job, sq, kernel, cq, batch, requests,
                   short_reads, filled>>

\* Nothing more to push: return when nothing is outstanding.
EndFill ==
    /\ pc = "fill" /\ ~CanPush
    /\ IF inflight = 0 THEN pc' = "returned" /\ result' = "ok"
                       ELSE pc' = "enter" /\ UNCHANGED result
    /\ UNCHANGED <<next, free, inflight, job, sq, kernel, cq, batch, requests,
                   short_reads, filled>>

\* submit_and_wait(1): the kernel takes some of the queued requests; if it took
\* all of them the call also waits for a completion.
Enter ==
    /\ pc = "enter"
    /\ \E n \in 0..Len(sq) :
          /\ n = 0 => sq = <<>>
          /\ kernel' = kernel \cup {sq[k] : k \in 1..n}
          /\ sq' = SubSeq(sq, n + 1, Len(sq))
          /\ pc' = IF n < Len(sq) THEN "look"
                   ELSE IF n > 0 THEN "wait_sent" ELSE "wait"
    /\ UNCHANGED <<result, next, free, inflight, job, cq, batch, requests,
                   short_reads, filled>>

WaitOne ==
    /\ pc \in {"wait", "wait_sent"} /\ cq # <<>>
    /\ pc' = "look"
    /\ UNCHANGED <<result, next, free, inflight, job, sq, kernel, cq, batch,
                   requests, short_reads, filled>>

\* A signal: the call reports what it has submitted, or EINTR if that was
\* nothing, and is then made again.
Interrupted ==
    /\ pc \in {"wait", "wait_sent"} /\ "eintr" \in Faults
    /\ pc' = IF pc = "wait" THEN "enter" ELSE "look"
    /\ UNCHANGED <<result, next, free, inflight, job, sq, kernel, cq, batch,
                   requests, short_reads, filled>>

\* Any other error of the call is returned at once.
EnterFails ==
    /\ pc = "enter" /\ "enter" \in Faults
    /\ pc' = "returned" /\ result' = "err"
    /\ UNCHANGED <<next, free, inflight, job, sq, kernel, cq, batch, requests,
                   short_reads, filled>>

\* ring.completion() reads the tail of the queue once, before the loop.
LookAtQueue ==
    /\ pc = "look"
    /\ batch' = Len(cq) /\ pc' = "reap"
    /\ UNCHANGED <<result, next, free, inflight, job, sq, kernel, cq, requests,
                   short_reads, filled>>

\* Mutant: a buffer is given back at the bottom of the stack and at the top.
FreeTwice(slot) == <<slot>> \o Append(free, slot)

GiveBack(slot) == Append(free, slot)

\* Mutant: a short read is counted as short, not as done.
LeaveUnlessShort(outcome) == IF outcome = "short" THEN inflight ELSE inflight - 1

Leave(outcome) == inflight - 1

\* One completion.  A failed read ends read_files.
ReapOne ==
    /\ pc = "reap" /\ batch > 0
    /\ batch' = batch - 1
    /\ LET slot == Head(cq)[1]
           outcome == Head(cq)[2]
       IN
       /\ cq' = Tail(cq)
       /\ \/ /\ outcome = "error"
             /\ pc' = "returned" /\ result' = "err"
             /\ UNCHANGED <<free, inflight, requests, short_reads, filled>>
          \/ /\ outcome # "error"
             /\ short_reads' = short_reads + (IF outcome = "short" THEN 1 ELSE 0)
             /\ requests' = requests + 1
             /\ filled' = [filled EXCEPT ![job[slot]] = @ + 1]
             /\ free' = GiveBack(slot)
             /\ inflight' = Leave(outcome)
             /\ UNCHANGED <<pc, result>>
    /\ UNCHANGED <<next, job, sq, kernel>>

EndReap ==
    /\ pc = "reap" /\ batch = 0
    /\ pc' = "fill"
    /\ UNCHANGED <<result, next, free, inflight, job, sq, kernel, cq, batch,
                   requests, short_reads, filled>>

-----------------------------------------------------------------------------
\* The kernel finishes reads in any order, while the reader runs and after it
\* has returned.  A read that meets the end of the file is short.
Outcomes == {"full", "short"} \cup (IF "read" \in Faults THEN {"error"} ELSE {})
Complete(s) ==
    /\ s \in kernel
    /\ kernel' = kernel \ {s}
    /\ \E outcome \in Outcomes : cq' = Append(cq, <<s, outcome>>)
    /\ UNCHANGED <<pc, result, next, free, inflight, job, sq, batch, requests,
                   short_reads, filled>>

Returned == pc = "returned" /\ UNCHANGED readerVars

Reader == PushRead \/ EndFill \/ Enter \/ WaitOne \/ EnterFails \/ LookAtQueue
          \/ ReapOne \/ EndReap
Kernel == \E s \in Slots : Complete(s)
ReaderNext == Reader \/ Interrupted \/ Kernel \/ Returned

ReaderSpec == ReaderInit /\ [][ReaderNext]_readerVars

\* The thread runs, the kernel finishes what it was given, and not every wait
\* that could return is hit by a signal first.
ReaderFairness == WF_readerVars(Reader) /\ SF_readerVars(WaitOne) /\ WF_readerVars(Kernel)
ReaderFairSpec == ReaderSpec /\ ReaderFairness
-----------------------------------------------------------------------------
Owned == ToSet(sq) \cup kernel \cup {cq[k][1] : k \in DOMAIN cq}

ReaderTypeOK ==
    /\ pc \in {"fill", "enter", "wait", "wait_sent", "look", "reap", "returned"}
    /\ result \in {"none", "ok", "err"}
    /\ next \in 0..Jobs /\ inflight \in 0..Depth /\ batch \in 0..Len(cq)
    /\ free \in Seq(Slots) /\ sq \in Seq(Slots) /\ kernel \subseteq Slots
    /\ cq \in Seq(Slots \X {"full", "short", "error"})
    /\ job \in [Slots -> 0..Jobs]
    /\ requests \in 0..Jobs /\ short_reads \in 0..requests
    /\ filled \in [1..Jobs -> {0, 1}]

\* A buffer is free, or it belongs to exactly one request that the reader still
\* counts: no buffer is lost, and none is given to two reads.
PoolConserved ==
    result # "err" =>
        /\ ToSet(free) \cap Owned = {} /\ ToSet(free) \cup Owned = Slots
        /\ Len(free) + inflight = Depth
        /\ Len(sq) + Cardinality(kernel) + Len(cq) = inflight

\* A successful return means every job was read, once, and none is pending.
AllJobsRead ==
    result = "ok" =>
        /\ \A j \in 1..Jobs : filled[j] = 1
        /\ requests = Jobs /\ Owned = {}

\* read_files returns, whatever order reads complete in.
ReaderReturns == pc = "fill" ~> pc = "returned"

\* "the buffer cannot be reused or dropped while the kernel owns it": the pool
\* is dropped when read_files returns.
BuffersOutliveReads == pc = "returned" => kernel = {}
=============================================================================
