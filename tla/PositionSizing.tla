--------------------------- MODULE PositionSizing ---------------------------
(***************************************************************************)
(* How large an order may be: the risk assessed for one trade              *)
(* (risk_assessment.py) and the volume whose loss at the stop fits it      *)
(* (position_sizing_engine.py).                                            *)
(*                                                                         *)
(* Money is counted in cents, percentages of the equity in thousandths of  *)
(* a percent, volumes in the smallest lot any broker trades.  Fractions    *)
(* are rounded down where the code goes on with floats.                    *)
(***************************************************************************)
EXTENDS Integers

Least(a, b) == IF a < b THEN a ELSE b
Most(a, b)  == IF a > b THEN a ELSE b

Pct(amount, milli) == (amount * milli) \div 100000

-----------------------------------------------------------------------------
BaseDivisor == 10
PlatformMax == 2000  \* PLATFORM_MAX_TRADE_RISK_PCT, 2%
PlatformMin == 50    \* PLATFORM_MIN_TRADE_RISK_PCT, 0.05%

\* How wide the stop is, in ATRs: up to 2, in between (as many quarters of the
\* way to 4), or more than 4.
StopWidths == 0..5
TooWide == 5

\* The part of the budget that an account of this equity may lose in all.
Budget(equity, tolerance) == Pct(equity, tolerance)

\* Of base, what is left of it as the budget is used up.
ByUse(base, used, budget) == (base * (budget - Least(used, budget))) \div budget

\* Full up to a quarter of the budget lost, nothing from all of it on.
ByDrawdown(base, lost, budget) ==
    IF 4 * lost <= budget THEN base ELSE (base * 4 * (budget - lost)) \div (3 * budget)

ByStop(base, width) == (base * (4 - width)) \div 4

\* assess_per_trade_risk: thousandths of a percent, 0 for a refusal.  All callers
\* count no open symbols, so there is always a free slot.
Assessed(equity, tolerance, open, peak, width) ==
    LET budget == Budget(equity, tolerance)
        lost   == Most(0, peak - equity)
        base   == Least(tolerance \div BaseDivisor, PlatformMax)
        risk   == Least(ByStop(ByDrawdown(ByUse(base, open, budget), lost, budget), width), tolerance)
    IN IF budget = 0 \/ lost >= budget \/ width = TooWide \/ risk < PlatformMin
       THEN 0 ELSE risk

-----------------------------------------------------------------------------
(* An order to be sized: budget and free margin in cents, loss and margin   *)
(* per unit of volume, the broker's volumes and the plan's largest lot.     *)

\* Mutation: rounded up to the next step.
RoundedUp(o) == ((o.budget + o.loss * o.step - 1) \div (o.loss * o.step)) * o.step

RoundedDown(o) == (o.budget \div (o.loss * o.step)) * o.step

Volume(o) == Least(Least(RoundedDown(o), o.planMax), o.max)

SizedRisk(o) == o.loss * Volume(o)

\* size_by_stop_risk with the margin check that execution asks for.
Allowed(o) ==
    /\ o.budget > 0
    /\ Volume(o) >= o.min
    /\ SizedRisk(o) <= o.budget
    /\ o.margin * Volume(o) <= o.free

\* What the engine promises of a volume.  The largest lot of the plan or of the broker
\* replaces a larger volume after the rounding, and may be off the step.
Fits(o, v) ==
    /\ v \in o.min..o.max /\ v <= o.planMax
    /\ v % o.step = 0 \/ v \in {o.planMax, o.max}
    /\ v * o.loss <= o.budget
=============================================================================
