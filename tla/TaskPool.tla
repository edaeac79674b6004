------------------------------- MODULE TaskPool -------------------------------
(***************************************************************************)
(* An executor as the loader counts on it: results are taken in the order  *)
(* the tasks were posted, a task is done out of order only while other     *)
(* workers are at the tasks before it, and the executor joins once all are *)
(* done.  With one worker, tasks are done first in, first out:             *)
(* LoaderRuntime models its executors by such counters.                    *)
(***************************************************************************)
EXTENDS Integers, FiniteSets

VARIABLES
    workers,    \* number of workers, which never changes
    posted,     \* tasks posted
    done,       \* the tasks that are done
    taken,      \* results taken
    joined      \* whether the executor has joined its workers

poolVars == <<workers, posted, done, taken, joined>>

PoolInit ==
    /\ workers \in Nat \ {0}
    /\ posted = 0 /\ done = {} /\ taken = 0 /\ joined = FALSE

Post ==
    /\ ~joined
    /\ posted' = posted + 1
    /\ UNCHANGED <<workers, done, taken, joined>>

Finish ==
    /\ \E t \in (1..posted) \ done :
          /\ Cardinality((1..(t - 1)) \ done) < workers
          /\ done' = done \cup {t}
    /\ UNCHANGED <<workers, posted, taken, joined>>

Take ==
    /\ taken + 1 \in done
    /\ taken' = taken + 1
    /\ UNCHANGED <<workers, posted, done, joined>>

Close ==
    /\ done = 1..posted
    /\ joined' = TRUE
    /\ UNCHANGED <<workers, posted, done, taken>>

PoolNext == Post \/ Finish \/ Take \/ Close
PoolSafety == PoolInit /\ [][PoolNext]_poolVars
PoolSpec == PoolSafety /\ WF_poolVars(Finish)
=============================================================================
