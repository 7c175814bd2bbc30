----------------------------- MODULE RemoteCall -----------------------------
(***************************************************************************)
(* What the trading endpoints promise about the order of a request that is *)
(* carried out by another process: it is carried out at most once, never   *)
(* after a refusal, and an outcome is reported only for an order that was  *)
(* really taken up.  "unknown" is the 504 of a request that gave up        *)
(* waiting; its order may still be carried out afterwards.                 *)
(***************************************************************************)
EXTENDS Naturals

CONSTANT Jobs

VARIABLES taken, \* how often each order was carried out, or tried
          told   \* what the client of each order has been told

Told == {"nothing", "refused", "waiting", "ok", "failed", "unknown"}

Init == taken = [j \in Jobs |-> 0] /\ told = [j \in Jobs |-> "nothing"]

Tell(j, answer) == told' = [told EXCEPT ![j] = answer] /\ UNCHANGED taken

Refuse(j) == told[j] = "nothing" /\ Tell(j, "refused")
Ask(j)    == told[j] = "nothing" /\ Tell(j, "waiting")
Report(j) == told[j] = "waiting" /\ taken[j] = 1 /\ \E answer \in {"ok", "failed"} : Tell(j, answer)

\* The clients of a server that stops give up together.
GiveUp(given) ==
    /\ given \subseteq {j \in Jobs : told[j] = "waiting"}
    /\ told' = [j \in Jobs |-> IF j \in given THEN "unknown" ELSE told[j]]
    /\ UNCHANGED taken

TakeUp(j) ==
    /\ told[j] \in {"waiting", "unknown"}
    /\ taken[j] = 0
    /\ taken' = [taken EXCEPT ![j] = 1]
    /\ UNCHANGED told

Next ==
    \/ \E j \in Jobs : Refuse(j) \/ Ask(j) \/ Report(j) \/ TakeUp(j)
    \/ \E given \in SUBSET Jobs : GiveUp(given)

Spec == Init /\ [][Next]_<<taken, told>>
=============================================================================
