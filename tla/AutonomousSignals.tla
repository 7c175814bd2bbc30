-------------------------- MODULE AutonomousSignals --------------------------
(***************************************************************************)
(* Closed bars that the terminal posts become sized signals in process     *)
(* memory (ohlc_router.py, autonomous_ohlc_signal_service.py) within the   *)
(* risk budget of the account.                                             *)
(*                                                                         *)
(* A post runs without an await from its arrival to the request for the    *)
(* plan: ingest, the dedupe by bar time, the analysis and the gate are one *)
(* step.  Sizing awaits the database several times; publish is synchronous *)
(* again.  The terminal posts its last closed bar again and again, and a   *)
(* post may be served after a later one.                                   *)
(***************************************************************************)
EXTENDS RiskBudget

CONSTANTS Posts,      \* posts that may be served at once
          Symbols,
          Bars,       \* bound: closed bars 1, 2, ... of each symbol
          MaxStarts,  \* bound: restarts of the server
          MaxOvertaken, \* bound: posts of one symbol served after a later one
          Widths,     \* how wide stops may be
          Instruments, \* what the broker and the plan may allow
          MinNotional, \* budget needed per concurrent pair, in cents
          Margins     \* free margin last reported, in cents

ASSUME AutonomousAssumption ==
    /\ Symbols # {} /\ Bars \subseteq Nat \ {0} /\ MaxStarts \in Nat /\ MaxOvertaken \in Nat
    /\ Instruments \subseteq [loss : Nat \ {0}, step : Nat \ {0}, min : Nat \ {0}, max : Nat,
                              planMax : Nat, margin : Nat]
    /\ Widths \subseteq StopWidths
    /\ MinNotional \in Nat \ {0} /\ Margins \subseteq Nat

VARIABLES lastBar,   \* _last_bar_time: the bar each symbol was last evaluated at, 0 for none
          held,      \* symbols with a side: the broker reported a position
          post,      \* posts being served
          published, \* how often each bar of a symbol was published
          overtaken, \* how often a bar came after a later bar of its symbol
          starts     \* how often the server was started again

vars == <<riskVars, lastBar, held, post, published, overtaken, starts>>

Idle == [at |-> "free", symbol |-> CHOOSE s \in Symbols : TRUE, bar |-> 0, seen |-> FreshRow]

TypeOK ==
    /\ RiskTypeOK
    /\ lastBar \in [Symbols -> Bars \cup {0}]
    /\ held \subseteq Symbols
    /\ post \in [Posts -> [at : {"free", "state", "pairs", "size"}, symbol : Symbols,
                           bar : Bars \cup {0}, seen : Rows]]
    /\ published \in [Symbols -> [Bars -> Nat]]
    /\ overtaken \in [Symbols -> 0..MaxOvertaken]
    /\ starts \in 0..MaxStarts

Init ==
    /\ RiskInit
    /\ lastBar = [s \in Symbols |-> 0]
    /\ held = {}
    /\ post = [p \in Posts |-> Idle]
    /\ published = [s \in Symbols |-> [b \in Bars |-> 0]]
    /\ overtaken = [s \in Symbols |-> 0]
    /\ starts = 0

-----------------------------------------------------------------------------
\* Mutation: the bar is not remembered.
MarkedNever(s, b) == UNCHANGED lastBar

Marked(s, b) == lastBar' = [lastBar EXCEPT ![s] = b]

\* A bar is posted outside a weekend break, and not the one posted before.  It does
\* not fire for a symbol that the registry disables, without a rule, or for a strategy
\* without authorization; whatever the strategy, none fires while a side is held.
Post(p, s, b, fires) ==
    /\ p \in scene
    /\ post[p].at = "free"
    /\ lastBar[s] # b
    /\ Marked(s, b)
    /\ lastBar[s] > b => overtaken[s] < MaxOvertaken
    /\ overtaken' = [overtaken EXCEPT ![s] = IF lastBar[s] > b THEN @ + 1 ELSE @]
    /\ post' = [post EXCEPT ![p] =
                   IF fires /\ s \notin held
                   THEN [@ EXCEPT !.at = "state", !.symbol = s, !.bar = b]
                   ELSE @]
    /\ UNCHANGED <<riskVars, held, published, starts>>

Refuse(p) == post' = [post EXCEPT ![p] = Idle]

\* size_order reads the account and refuses one that is halted or has no equity.
SizeReads(p) ==
    /\ post[p].at = "state"
    /\ IF row.halted \/ row.equity = 0
       THEN Refuse(p)
       ELSE post' = [post EXCEPT ![p].at = "pairs", ![p].seen = row]
    /\ UNCHANGED <<riskVars, lastBar, held, published, overtaken, starts>>

\* max_pairs_for_account reads the account again.  An account that trades many
\* symbols is refused when its budget is none for a single pair, an account that
\* trades a chart when its open risk uses the budget up.
CountsPairs(p, manySymbols) ==
    /\ post[p].at = "pairs"
    /\ IF IF manySymbols
          THEN row.equity = 0 \/ Budget(row.equity, row.tolerance) >= MinNotional
          ELSE Remaining(post[p].seen) > 0
       THEN post' = [post EXCEPT ![p].at = "size"]
       ELSE Refuse(p)
    /\ UNCHANGED <<riskVars, lastBar, held, published, overtaken, starts>>

\* A query of sizing fails, or the free margin reported last is missing or too old.
SizeFails(p) ==
    /\ post[p].at # "free"
    /\ Refuse(p)
    /\ UNCHANGED <<riskVars, lastBar, held, published, overtaken, starts>>

RiskShare(seen, width) == Assessed(seen.equity, seen.tolerance, seen.open, seen.peak, width)

TradeBudget(seen, width) ==
    LET share == Pct(seen.equity, RiskShare(seen, width))
    IN IF share < Remaining(seen) THEN share ELSE Remaining(seen)

OrderOf(p, width, i, free) ==
    [budget |-> TradeBudget(post[p].seen, width), free |-> free, loss |-> i.loss,
     step |-> i.step, min |-> i.min, max |-> i.max, planMax |-> i.planMax, margin |-> i.margin]

Sized(p, width, i, free) ==
    RiskShare(post[p].seen, width) > 0 /\ Allowed(OrderOf(p, width, i, free))

Outcomes(p) == { Sized(p, w, i, free) : w \in Widths, i \in Instruments, free \in Margins }

\* The last answer of the database is there: sized and published in one step.
SizeAndPublish(p) ==
    /\ post[p].at = "size"
    /\ \E sized \in Outcomes(p) :
          published' = IF sized
                       THEN [published EXCEPT ![post[p].symbol][post[p].bar] = @ + 1]
                       ELSE published
    /\ Refuse(p)
    /\ UNCHANGED <<riskVars, lastBar, held, overtaken, starts>>

\* The broker reports its positions: replace_sides_from_broker.
ReplaceSides(symbols) ==
    /\ scene \cap Posts # {}
    /\ held' = symbols
    /\ UNCHANGED <<riskVars, lastBar, post, published, overtaken, starts>>

\* A restart forgets the bars, the sides and the posts in progress.
Restart ==
    /\ "restart" \in scene
    /\ starts < MaxStarts
    /\ starts' = starts + 1
    /\ lastBar' = [s \in Symbols |-> 0]
    /\ held' = {}
    /\ post' = [p \in Posts |-> Idle]
    /\ call' = [c \in Calls |-> IdleCall]
    /\ unchecked' = (unchecked \/ \E c \in Calls : Unevaluated(c))
    /\ UNCHANGED <<row, peakLost, scene, published, overtaken>>

AutonomousNext ==
    \/ \E p \in Posts :
          \/ \E s \in Symbols, b \in Bars, fires \in BOOLEAN : Post(p, s, b, fires)
          \/ SizeReads(p) \/ SizeFails(p) \/ SizeAndPublish(p)
          \/ \E manySymbols \in BOOLEAN : CountsPairs(p, manySymbols)
    \/ \E symbols \in SUBSET Symbols : ReplaceSides(symbols)
    \/ Restart

Next ==
    \/ RiskNext /\ UNCHANGED <<lastBar, held, post, published, overtaken, starts>>
    \/ AutonomousNext

Spec == Init /\ [][Next]_vars

-----------------------------------------------------------------------------
\* A closed bar of a symbol is published once, however often it is posted; again
\* only after a restart, or when a later bar of the symbol was overtaken.
BarFiresOnce ==
    \A s \in Symbols, b \in Bars : published[s][b] <= 1 + starts + overtaken[s]

\* What is published is the largest order that fits: its loss at the stop is within
\* the budget left in the row it was sized from and within the platform's cap, and one
\* step more would break a limit.  Once a share of the risk is granted, an order is
\* refused only when no volume on the step fits or the margin is too small.
SizedToFit ==
    \A p \in Posts : post[p].at = "size" =>
        \A w \in Widths, i \in Instruments, free \in Margins :
            LET o == OrderOf(p, w, i, free)  seen == post[p].seen  v == Volume(o)
            IN RiskShare(seen, w) > 0 =>
                  IF Sized(p, w, i, free)
                  THEN /\ Fits(o, v) /\ ~Fits(o, v + o.step)
                       /\ SizedRisk(o) + seen.open <= Budget(seen.equity, seen.tolerance)
                       /\ SizedRisk(o) <= Pct(seen.equity, PlatformMax)
                       /\ v * o.margin <= free
                  ELSE \/ \A u \in o.min..o.max : u % o.step = 0 => ~Fits(o, u)
                       \/ v * o.margin > free
=============================================================================
