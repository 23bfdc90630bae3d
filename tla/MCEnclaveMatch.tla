--------------------------- MODULE MCEnclaveMatch ---------------------------
(* Small instances of EnclaveMatch for TLC.                                 *)
EXTENDS EnclaveMatch, TLC

\* A queued "narrow" call can expire behind a "wide" one that is still in time,
\* and the slot of unresolved rejections is the slot list of neither.
MCPipeline == {"wide", "narrow"}
MCSlots == ("wide" :> {2, 3}) @@ ("narrow" :> {1, 2})

\* One pipeline with one slot: after (liveness) and at (three calls) QueueTimeout.
MCOnePipeline == {"wide"}
MCLateSlot == "wide" :> {2}
MCOneSlot == "wide" :> {1}

Symmetry == Permutations(Call) \union Permutations(Pair)
=============================================================================
