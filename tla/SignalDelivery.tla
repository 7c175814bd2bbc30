--------------------------- MODULE SignalDelivery ---------------------------
(***************************************************************************)
(* What the durable queue promises the executor, and nothing of how: a     *)
(* signal that was offered is handed out at most once, a signal in an      *)
(* executor's hands is withdrawn by nobody but its own acknowledgement,    *)
(* and what is settled stays settled.                                      *)
(***************************************************************************)
EXTENDS Naturals

CONSTANT Signals

VARIABLES phase,  \* where each signal is
          hands   \* how many times it was handed to an executor

deliveryVars == <<phase, hands>>

Phase == {"unseen", "offered", "handed", "settled", "withdrawn"}

Init ==
    /\ phase = [s \in Signals |-> "unseen"]
    /\ hands = [s \in Signals |-> 0]

\* Signals move one at a time or many together (a batch poll, a publication
\* that replaces what it supersedes), each along one edge.
Edge(s) ==
    \/ UNCHANGED <<phase[s], hands[s]>>
    \/ phase[s] = "unseen"  /\ phase'[s] = "offered"   /\ hands'[s] = hands[s]
    \/ phase[s] = "offered" /\ phase'[s] = "withdrawn" /\ hands'[s] = hands[s]
    \/ phase[s] = "offered" /\ phase'[s] = "handed"    /\ hands'[s] = hands[s] + 1
    \/ phase[s] \in {"offered", "handed"} /\ phase'[s] = "settled" /\ hands'[s] = hands[s]

Next ==
    /\ phase' \in [Signals -> Phase]
    /\ hands' \in [Signals -> Nat]
    /\ \A s \in Signals : Edge(s)

Spec == Init /\ [][Next]_deliveryVars
=============================================================================
