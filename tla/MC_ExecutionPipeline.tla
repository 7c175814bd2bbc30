------------------------ MODULE MC_ExecutionPipeline ------------------------
(***************************************************************************)
(* Instances of ExecutionPipeline for TLC: one signal, or two of one slot. *)
(***************************************************************************)
EXTENDS ExecutionPipeline, TLC

CONSTANTS s1, s2, k1

OneSlot == [s \in Signals |-> k1]
Risks   == [s \in Signals |-> IF s = s1 THEN 1 ELSE 2]
=============================================================================
