--------------------------- MODULE ShortPosition ---------------------------
(***************************************************************************)
(* One short position, bar by bar: the manager for live positions          *)
(* (live_short_position_manager.py) beside the simulators its rules were   *)
(* tested with (evaluators/common.py), over the same bars.                 *)
(*                                                                         *)
(* Prices are whole numbers of any sign, so that the long simulator is the *)
(* one for shorts on mirrored prices; an ATR is a multiple of four, so that*)
(* 1.5 and 0.75 of it are whole.                                           *)
(***************************************************************************)
EXTENDS ServerRequests, Integers

CONSTANTS Prices,     \* closes and highs of bars, relative to the entry
          Atrs,       \* average true ranges
          MaxHold,    \* max_hold_bars
          MaxEntries  \* bound: positions opened one after another

NoAtr == 0 \* not a number: too few bars before this one

ASSUME PositionAssumption == /\ Prices \subseteq Int
                             /\ \A a \in Atrs : a \in Nat \ {NoAtr} /\ a % 4 = 0
                             /\ MaxHold \in Nat \ {0}
                             /\ MaxEntries \in Nat

Risk(atr)   == (atr \div 4) * 6 \* 1.5 ATR
Trail(atr)  == (atr \div 4) * 3 \* 0.75 ATR

\* The frozen simulator, its broker-correct version, and the manager.
Runners == {"simulated", "corrected", "live"}

VARIABLES entered, \* what a position starts from: the risk at its entry; the entry is price 0
          run,     \* the position as each of them sees it
          entries  \* positions opened so far

shortVars == <<entered, run, entries>>

Flat == [open |-> FALSE, stop |-> 0, even |-> FALSE, held |-> 0, reason |-> "none", exit |-> 0]

ShortTypeOK ==
    /\ entered \in Atrs \cup {NoAtr}
    /\ \A x \in Runners : /\ {run[x].open, run[x].even} \subseteq BOOLEAN
                          /\ run[x].stop \in Int /\ run[x].exit \in Int
                          /\ run[x].held \in 0..MaxHold
                          /\ run[x].reason \in {"none", "STOP", "TIME", "DATA"}
    /\ entries \in 0..MaxEntries

ShortInit ==
    /\ entered = NoAtr
    /\ run = [x \in Runners |-> Flat]
    /\ entries = 0

-----------------------------------------------------------------------------
\* next_allowed: an event is skipped while a position is open; without an ATR, too.
EnterShort ==
    /\ Arrives("bar")
    /\ \A x \in Runners : ~run[x].open
    /\ entries < MaxEntries
    /\ entered' \in Atrs
    /\ run' = [x \in Runners |-> [Flat EXCEPT !.open = TRUE, !.stop = Risk(entered')]]
    /\ entries' = entries + 1

\* What a trailing stop is computed from when the bar has no ATR: nothing at all, but for
\* the broker-correct simulators the ATR of the entry.
TrailAtr(x, atr) == IF x = "corrected" /\ atr = NoAtr THEN entered ELSE atr

\* Mutation: the trailing stop replaces the old one wherever it is.
TightenedAlways(stop, candidate) == candidate

Tightened(stop, candidate) == IF candidate < stop THEN candidate ELSE stop

\* At a close of a whole risk below the entry the stop moves there, then it trails the close.
EvenAfter(p, close) == p.even \/ -close >= Risk(entered)

StopAfter(x, p, bar) ==
    LET even == EvenAfter(p, bar.close)
        stop == IF even /\ ~p.even THEN 0 ELSE p.stop
        atr  == TrailAtr(x, bar.atr)
    IN  IF even /\ atr # NoAtr THEN Tightened(stop, bar.close + Trail(atr)) ELSE stop

\* One bar of a simulator: the stop is hit before anything moves, the last bar of the holding
\* time or of the data closes what is left after everything did.
SimulatedBar(x, p, bar) ==
    CASE bar.high >= p.stop -> [p EXCEPT !.open = FALSE, !.reason = "STOP", !.exit = p.stop]
      [] bar.high < p.stop ->
            LET moved == [p EXCEPT !.stop = StopAfter(x, p, bar),
                                   !.even = EvenAfter(p, bar.close),
                                   !.held = p.held + 1]
            IN  IF moved.held = MaxHold \/ bar.last
                THEN [moved EXCEPT !.open = FALSE, !.exit = bar.close,
                                   !.reason = IF moved.held = MaxHold THEN "TIME" ELSE "DATA"]
                ELSE moved

\* step_short_bar, by the index of the bar: the entry bar has index 0.
Broken(p, bar) == bar.high >= p.stop

\* Mutation: the entry bar is not counted.
HeldAfterEntry(index) == index

HoldingBars(index) == index + 1

MovedEven(p, bar) ==
    IF -bar.close >= Risk(entered) /\ ~p.even THEN [p EXCEPT !.stop = 0, !.even = TRUE] ELSE p

Trailed(p, bar) ==
    LET candidate == bar.close + Trail(bar.atr)
    IN  IF p.even /\ bar.atr > 0 /\ candidate < p.stop THEN [p EXCEPT !.stop = candidate] ELSE p

LiveBar(p, bar) ==
    IF Broken(p, bar) THEN [p EXCEPT !.open = FALSE, !.reason = "STOP", !.exit = p.stop]
    ELSE LET moved == [Trailed(MovedEven(p, bar), bar) EXCEPT !.held = p.held + 1]
         IN  IF HoldingBars(p.held) >= MaxHold
             THEN [moved EXCEPT !.open = FALSE, !.reason = "TIME", !.exit = bar.close]
             ELSE moved

NextBar ==
    /\ \E x \in Runners : run[x].open
    /\ \E high, close \in Prices, atr \in Atrs \cup {NoAtr}, last \in BOOLEAN :
          /\ close <= high
          /\ LET bar == [high |-> high, close |-> close, atr |-> atr, last |-> last]
             IN  run' = [x \in Runners |-> CASE ~run[x].open -> run[x]
                                            [] run[x].open /\ x = "live" -> LiveBar(run[x], bar)
                                            [] OTHER -> SimulatedBar(x, run[x], bar)]
    /\ UNCHANGED <<entered, entries>>

ShortNext == EnterShort \/ NextBar

-----------------------------------------------------------------------------
\* A position loses its initial risk at most, and nothing once it was a whole risk ahead at a
\* close, whichever way it ends (live_short_position_manager.py:5-9).
LossesAreBounded ==
    \A x \in Runners : run[x].reason # "none" =>
        run[x].exit <= (IF run[x].even THEN 0 ELSE Risk(entered))

\* The live manager does what the frozen simulator did, bar by bar, until its data end
\* (live_short_position_manager.py:74-77).
LiveFollowsSimulation ==
    run["simulated"].reason = "DATA" \/ run["live"] = run["simulated"]
=============================================================================
