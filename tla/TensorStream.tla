----------------------------- MODULE TensorStream -----------------------------
(***************************************************************************)
(* What safe_open promises its user, without buffers, chunks or threads:   *)
(* tensors come in file order, the tensor in hand shows the bytes of the   *)
(* file for as long as it is in hand, every call is answered unless the    *)
(* process is terminated.                                                  *)
(***************************************************************************)
EXTENDS Integers

CONSTANTS
    Count,      \* number of tensors
    Content     \* Content[t] = the bytes of tensor t in the file

VARIABLES
    phase,      \* the call the user is in, or what the last one returned
    tensor,     \* index of the last tensor asked for
    view,       \* what the user sees through the tensor in hand
    dead        \* the process was terminated

streamVars == <<phase, tensor, view, dead>>

Nothing == {}

StreamInit == phase = "new" /\ tensor = -1 /\ view = Nothing /\ dead = FALSE

\* A call of the user; it ends the use of the tensor in hand.
Call(from, to) ==
    /\ ~dead
    /\ phase \in from
    /\ phase' = to /\ view' = Nothing
    /\ UNCHANGED dead

Open    == Call({"new"}, "opening") /\ UNCHANGED tensor
Request == Call({"idle", "using"}, "waiting")
           /\ tensor' \in (tensor + 1)..(Count - 1)
Close   == Call({"idle", "using"}, "closing") /\ UNCHANGED tensor

\* An answer to the user.
Answer(from, to, seen) ==
    /\ ~dead
    /\ phase = from
    /\ phase' = to /\ view' = seen
    /\ UNCHANGED <<tensor, dead>>

Opened  == Answer("opening", "idle", Nothing)
Deliver == Answer("waiting", "using", Content[tensor])
Closed  == Answer("closing", "closed", Nothing)

\* An I/O error, a failed check or a call after close ends the process.
Die == ~dead /\ dead' = TRUE /\ UNCHANGED <<phase, tensor, view>>

StreamNext == Open \/ Request \/ Close \/ Opened \/ Deliver \/ Closed \/ Die

StreamSafety == StreamInit /\ [][StreamNext]_streamVars
StreamSpec == StreamSafety /\ WF_streamVars(Opened \/ Deliver \/ Closed)
=============================================================================
