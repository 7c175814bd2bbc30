------------------------ MODULE MC_AccountServices --------------------------
(***************************************************************************)
(* An instance of AccountServices for TLC.                                 *)
(***************************************************************************)
EXTENDS AccountServices, TLC

CONSTANTS eu, c1, c2, p1, p2, r1, r2, r3, t1, t2, t3

\* A symbol traded in single lots or in steps of three.
Specifications ==
    { [loss |-> 30, step |-> 1, min |-> 1, max |-> 50, planMax |-> 5, margin |-> 300],
      [loss |-> 25, step |-> 3, min |-> 3, max |-> 12, planMax |-> 50, margin |-> 100],
      [loss |-> 5, step |-> 3, min |-> 3, max |-> 90, planMax |-> 8, margin |-> 20] }

\* An account that never reported, and one that reported 8000 and then 7500
\* and has a position open.
StoredRows == { FreshRow, [FreshRow EXCEPT !.equity = 7500, !.peak = 8000, !.open = 500] }

\* Reports that overlap; posts that overlap, with a restart; and a post, a report and a
\* fill, two of them at a time.
AllScenes == { {c1, c2}, {p1, p2, "restart"}, {p1, c1}, {p1, "fill"}, {c1, "fill"} }

\* A profit that takes the cap to its ceiling, a small one, and a loss that pauses.
Profits == t1 :> 30000000 @@ t2 :> 100000 @@ t3 :> 0 - 9000000
=============================================================================
