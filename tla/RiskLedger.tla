----------------------------- MODULE RiskLedger -----------------------------
(***************************************************************************)
(* What the server promises about an account's open risk: the risk of a    *)
(* signal is added to the account's total at most once, taken off at most  *)
(* once and only after it was added, and never added again afterwards.     *)
(* The total is floored at zero, as the portfolio service floors it.       *)
(***************************************************************************)
EXTENDS Naturals, Functions

CONSTANTS Signals,
          RiskOf   \* the money at risk of each signal

VARIABLES stage,   \* where the risk of each signal is
          total    \* open_risk_usd of the account

ledgerVars == <<stage, total>>

Stage == {"uncounted", "counted", "over"}

RiskSum(S) == SumFunctionOnSet(RiskOf, S)

Less(a, b) == IF a >= b THEN a - b ELSE 0

Init ==
    /\ stage = [s \in Signals |-> "uncounted"]
    /\ total = 0

\* The signals whose stage a step changes from a to b.
Moved(a, b) == {s \in Signals : stage[s] = a /\ stage'[s] = b}

\* A step may move several signals (one reconciliation looks at all of them);
\* the total follows the signals that moved, and nothing else changes it.
Next ==
    /\ stage' \in [Signals -> Stage]
    /\ \A s \in Signals :
        /\ stage[s] = "counted" => stage'[s] # "uncounted"
        /\ stage[s] = "over" => stage'[s] = "over"
    /\ total' = Less(total, RiskSum(Moved("counted", "over")))
                  + RiskSum(Moved("uncounted", "counted"))

Spec == Init /\ [][Next]_ledgerVars
=============================================================================
