------------------------- MODULE MC_ExecutionQueue -------------------------
(***************************************************************************)
(* Instances of ExecutionQueue for TLC: the signals contend for one slot.  *)
(***************************************************************************)
EXTENDS ExecutionQueue, TLC

CONSTANTS s1, s2, s3, k1

OneSlot == [s \in Signals |-> k1]

\* Nothing distinguishes one poll request from another, one publication, or one signal of
\* the slot.
RaceSymmetry == Permutations(Pollers) \cup Permutations(Publishers) \cup Permutations(Signals)
=============================================================================
