------------------------ MODULE MC_PositionLifecycle ------------------------
(***************************************************************************)
(* Instances of PositionLifecycle for TLC: signals of different amounts,   *)
(* so that no wrong sum is right by accident.                              *)
(***************************************************************************)
EXTENDS PositionLifecycle, TLC

CONSTANTS s1, s2, s3

Risks1 == s1 :> 1
Risks2 == s1 :> 1 @@ s2 :> 2
Risks3 == s1 :> 1 @@ s2 :> 2 @@ s3 :> 4
=============================================================================
