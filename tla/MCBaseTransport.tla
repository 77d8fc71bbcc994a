--------------------------- MODULE MCBaseTransport ---------------------------
(* BaseTransport on small sets of calls and connections.                    *)
EXTENDS BaseTransport, TLC

\* Calls of one kind and connections are interchangeable; used by the runs
\* that check safety only.
Symmetry ==
  Permutations(Emits) \cup Permutations(Replies) \cup Permutations(Closers)
    \cup Permutations(Reconnects) \cup Permutations(Conns)
==============================================================================
