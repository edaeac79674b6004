------------------------ MODULE LoaderImplementsStream ------------------------
(***************************************************************************)
(* LoaderRuntime implements TensorStream: the user's view of the tensor in *)
(* hand is what the device cells of its payload hold at that moment.       *)
(***************************************************************************)
EXTENDS LoaderRuntime

ViewOf(t) == {<<p[1], dev[p[1]]>> : p \in Payload[t]}

Stream == INSTANCE TensorStream WITH
    Count   <- NumTensors,
    Content <- Payload,
    phase   <- client,
    tensor  <- held,
    view    <- IF client = "using" THEN ViewOf(held) ELSE {},
    dead    <- abort # "no"

\* Every behaviour of the loader, seen through its client, is one of the
\* promised streams: in order, each tensor intact while it is used, each call
\* answered unless the process dies.
ImplementsStream == Stream!StreamSpec
=============================================================================
