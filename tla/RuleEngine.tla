----------------------------- MODULE RuleEngine -----------------------------
(***************************************************************************)
(* The rules of indicator charts (signal_rule_engine_v3.py) on the frames  *)
(* of one account, oldest first.                                           *)
(*                                                                         *)
(* Positions are rows of pixels: a smaller number is higher on the chart.  *)
(* The bands of a chart stay where they are while frames come in; the two  *)
(* oscillators and the inner price band move.  What a capture did not find *)
(* is NoRow.                                                               *)
(***************************************************************************)
EXTENDS ServerRequests, Integers, Sequences

CONSTANTS Height,  \* rows of a chart
          Levels,  \* the rows of U, M and L, of the oscillator panel and of the outer price band
          Touch,   \* TOUCH_PX
          Lookback,
          Charts   \* bound: frames that come in, and how many of them

NoRow == -1

ASSUME RuleAssumption == /\ Height \in Nat /\ Touch \in Nat /\ Lookback \in Nat \ {0}
                         /\ Levels \in [{"U", "M", "L"} -> 0..Height]
                         /\ Levels["U"] + Levels["L"] = Height /\ 2 * Levels["M"] = Height

FoundRows == {NoRow} \cup 0..Height

\* rsi6, ma4, the upper and lower rows of price_band8, and whether band1 and the two price
\* bands were found.
ChartFrames == [rsi : FoundRows, ma : FoundRows, up : 0..Height, low : 0..Height,
                band : BOOLEAN, price : BOOLEAN]

ASSUME ChartAssumption ==
    Charts # {} /\ \A c \in Charts : c.frames \subseteq ChartFrames /\ c.most \in Nat

VARIABLES chart, shown

ruleVars == <<chart, shown>>

RuleTypeOK ==
    /\ chart \in Charts
    /\ Len(shown) <= chart.most /\ \A i \in DOMAIN shown : shown[i] \in chart.frames

RuleInit ==
    /\ IF Arrives("chart") THEN chart \in Charts ELSE chart = CHOOSE c \in Charts : TRUE
    /\ shown = << >>

ShowFrame ==
    /\ Arrives("chart")
    /\ Len(shown) < chart.most
    /\ \E frame \in chart.frames : shown' = Append(shown, frame)
    /\ UNCHANGED chart

-----------------------------------------------------------------------------
Side(row, level) == IF row < level THEN "above" ELSE "below"

\* The side the value has gone to, if it has changed sides.
Crossed(before, level, now) ==
    IF Side(before, level) = Side(now, level) THEN "no" ELSE Side(now, level)

Touched(row, level) == row - level <= Touch /\ level - row <= Touch

Recent(h) == IF Len(h) > Lookback THEN SubSeq(h, Len(h) - Lookback + 1, Len(h)) ELSE h

Current(h) == h[Len(h)]
Previous(h) == h[Len(h) - 1]

\* _pivots, of either kind: smallest or largest of three rows in a row.
Pivots(rows, kind) ==
    {i \in 2..(Len(rows) - 1) :
        IF kind = "low" THEN rows[i] <= rows[i - 1] /\ rows[i] <= rows[i + 1]
        ELSE rows[i] >= rows[i - 1] /\ rows[i] >= rows[i + 1]}

\* The last two of them, the later one further in the same direction.
Further(rows, kind) ==
    \E b \in Pivots(rows, kind) :
       /\ \A i \in Pivots(rows, kind) : i <= b
       /\ \E a \in Pivots(rows, kind) :
             /\ a < b /\ \A i \in Pivots(rows, kind) : i <= a \/ i = b
             /\ IF kind = "low" THEN rows[b] < rows[a] ELSE rows[b] > rows[a]

HasLevels(f, key) == f.band /\ f[key] # NoRow

\* The frame after pos in which the value first crosses the level in that direction; 0 if none does.
FirstCross(h, pos, key, level, direction) ==
    LET found == {i \in (pos + 1)..Len(h) :
                    /\ HasLevels(h[i - 1], key) /\ HasLevels(h[i], key)
                    /\ Crossed(h[i - 1][key], Levels[level], h[i][key]) = direction}
    IN  IF pos = 0 \/ found = {} THEN 0 ELSE CHOOSE i \in found : \A j \in found : i <= j

SequentialCross(h, key, levels, direction) ==
    LET recent == Recent(h)
        first  == FirstCross(recent, 1, key, levels[1], direction)
        second == FirstCross(recent, first, key, levels[2], direction)
    IN  FirstCross(recent, second, key, levels[3], direction) # 0

TouchCount(h, key, level) ==
    LET recent == Recent(h)
    IN  Cardinality({i \in DOMAIN recent :
                        HasLevels(recent[i], key) /\ Touched(recent[i][key], Levels[level])})

RecentlyReached(h, key, level, from) ==
    /\ Len(h) >= 2
    /\ HasLevels(Previous(h), key) /\ HasLevels(Current(h), key)
    /\ Side(Previous(h)[key], Levels[level]) = from
    /\ \/ Touched(Current(h)[key], Levels[level])
       \/ Crossed(Previous(h)[key], Levels[level], Current(h)[key]) # "no"

\* Came close to the level, stayed on its side of it, and went on there.
FailedCross(h, key, level, from) ==
    LET recent == Recent(h)
    IN  \E i \in 2..(Len(recent) - 1) :
           /\ \A j \in (i - 1)..(i + 1) : HasLevels(recent[j], key)
           /\ Side(recent[i - 1][key], Levels[level]) = from
           /\ Touched(recent[i][key], Levels[level])
           /\ Crossed(recent[i - 1][key], Levels[level], recent[i][key]) = "no"
           /\ Side(recent[i + 1][key], Levels[level]) = from

-----------------------------------------------------------------------------
RowsOf(h, key) == LET recent == Recent(h) IN [i \in DOMAIN recent |-> recent[i][key]]

AllFound(h) == \A i \in DOMAIN Recent(h) : Recent(h)[i].rsi # NoRow /\ Recent(h)[i].ma # NoRow

RuleABuy(h) ==
    /\ AllFound(h)
    /\ Current(h).rsi < Levels["L"] /\ Current(h).ma > Levels["M"]
    /\ Further(RowsOf(h, "rsi"), "low") /\ Further(RowsOf(h, "ma"), "low")
    /\ SequentialCross(h, "rsi", <<"L", "M", "U">>, "above")
    /\ RecentlyReached(h, "rsi", "M", "above")

\* Mutation: the lower band is asked for where the upper one is meant.
RuleASellAtLower(h) ==
    /\ AllFound(h)
    /\ Current(h).rsi > Levels["L"] /\ Current(h).ma < Levels["M"]
    /\ Further(RowsOf(h, "rsi"), "high") /\ Further(RowsOf(h, "ma"), "high")
    /\ SequentialCross(h, "rsi", <<"U", "M", "L">>, "below")
    /\ RecentlyReached(h, "rsi", "M", "below")

RuleASell(h) ==
    /\ AllFound(h)
    /\ Current(h).rsi > Levels["U"] /\ Current(h).ma < Levels["M"]
    /\ Further(RowsOf(h, "rsi"), "high") /\ Further(RowsOf(h, "ma"), "high")
    /\ SequentialCross(h, "rsi", <<"U", "M", "L">>, "below")
    /\ RecentlyReached(h, "rsi", "M", "below")

RuleB(h, side) ==
    /\ \/ TouchCount(h, "rsi", "M") >= 2
       \/ TouchCount(h, "rsi", IF side = "BUY" THEN "L" ELSE "U") >= 2
    /\ RecentlyReached(h, "ma", "M", IF side = "BUY" THEN "above" ELSE "below")

RuleC(h, side) ==
    LET level == IF side = "BUY" THEN "L" ELSE "U"
        from  == IF side = "BUY" THEN "below" ELSE "above"
    IN  /\ Current(h).rsi # NoRow
        /\ IF side = "BUY" THEN Current(h).rsi < Levels["L"] ELSE Current(h).rsi > Levels["U"]
        /\ FailedCross(h, "rsi", "M", from) /\ FailedCross(h, "ma", "M", from)
        /\ TouchCount(h, "rsi", level) >= 2

\* The inner band leaves the outer one through the middle.
RuleFBuy(h) ==
    /\ Previous(h).price
    /\ Current(h).up < Levels["U"] /\ Current(h).up < Levels["M"]
    /\ Crossed(Previous(h).up, Levels["M"], Current(h).up) = "above"
    /\ \/ Crossed(Previous(h).rsi, Levels["M"], Current(h).rsi) = "below"
       \/ Current(h).rsi < Levels["L"]

RuleFSell(h) ==
    /\ Previous(h).price
    /\ Current(h).low > Levels["L"] /\ Current(h).low > Levels["M"]
    /\ Crossed(Previous(h).low, Levels["M"], Current(h).low) = "below"
    /\ \/ Crossed(Previous(h).rsi, Levels["M"], Current(h).rsi) = "above"
       \/ Current(h).rsi > Levels["U"]

Expands(h, side) ==
    \E key \in {"rsi", "ma"} :
       /\ Current(h)[key] # NoRow
       /\ IF side = "BUY" THEN Current(h)[key] < Levels["L"] ELSE Current(h)[key] > Levels["U"]

\* Operators on rows, as the rulebook writes them.
Contraction(f) == f.up < Levels["U"] /\ f.low > Levels["L"]
Expansion(f)   == f.up > Levels["U"] /\ f.low < Levels["L"]

\* The rules that hold for a side, in the order in which one of them is named.
Fires(h, rule, side) ==
    CASE rule = "RULE_A" -> Contraction(Current(h)) /\ (IF side = "BUY" THEN RuleABuy(h) ELSE RuleASell(h))
      [] rule = "RULE_B" -> Contraction(Current(h)) /\ RuleB(h, side)
      [] rule = "RULE_C" -> Contraction(Current(h)) /\ RuleC(h, side)
      [] rule = "RULE_F" -> IF side = "BUY" THEN RuleFBuy(h) ELSE RuleFSell(h)
      [] rule = "EXPANSION" -> Expansion(Current(h)) /\ Expands(h, side)

RuleNames == <<"RULE_A", "RULE_B", "RULE_C", "RULE_F", "EXPANSION">>

FirstOf(h, side) ==
    CHOOSE i \in DOMAIN RuleNames :
       Fires(h, RuleNames[i], side) /\ \A j \in 1..(i - 1) : ~Fires(h, RuleNames[j], side)

\* Once the earlier frame has price bands, rule F takes the oscillator of both frames for
\* granted, and the band of the earlier one.
Raises(h) ==
    /\ Previous(h).price
    /\ Current(h).rsi = NoRow \/ Previous(h).rsi = NoRow \/ ~Previous(h).band

Detected(f) == f.band /\ f.price

AnyFires(h, side) == \E i \in DOMAIN RuleNames : Fires(h, RuleNames[i], side)

Decision(h) ==
    CASE Len(h) = 0 -> <<"HOLD", "warming_up">>
      [] Len(h) > 0 /\ ~Detected(Current(h)) -> <<"HOLD", "indicators_not_detected">>
      [] Len(h) = 1 /\ Detected(Current(h)) -> <<"HOLD", "warming_up">>
      [] Len(h) > 1 /\ Detected(Current(h)) /\ Raises(h) -> <<"raised", "none">>
      [] OTHER ->
            CASE AnyFires(h, "BUY") /\ AnyFires(h, "SELL") -> <<"HOLD", "conflicting_v3_rules">>
              [] AnyFires(h, "BUY") /\ ~AnyFires(h, "SELL") -> <<"BUY", RuleNames[FirstOf(h, "BUY")]>>
              [] ~AnyFires(h, "BUY") /\ AnyFires(h, "SELL") -> <<"SELL", RuleNames[FirstOf(h, "SELL")]>>
              [] OTHER -> <<"HOLD", "no_rule_matched">>

-----------------------------------------------------------------------------
UpsideDown(row) == IF row = NoRow THEN NoRow ELSE Height - row

Mirrored(h) ==
    [i \in DOMAIN h |-> [h[i] EXCEPT !.rsi = UpsideDown(h[i].rsi), !.ma = UpsideDown(h[i].ma),
                                     !.up = UpsideDown(h[i].low), !.low = UpsideDown(h[i].up)]]

Opposite(signal) == CASE signal = "BUY" -> "SELL" [] signal = "SELL" -> "BUY" [] OTHER -> signal

\* The rules that sell are the rules that buy on the chart turned upside down, the one that is
\* named and the conflicts included, unless a value lies exactly on a level
\* (signal_rule_engine_v3.py:199-346).
SellingMirrorsBuying ==
    LET decision == Decision(shown)
    IN  Decision(Mirrored(shown)) = <<Opposite(decision[1]), decision[2]>>
=============================================================================
