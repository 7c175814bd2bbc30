----------------------- MODULE MC_PlatformServices --------------------------
(***************************************************************************)
(* An instance of PlatformServices for TLC.                                *)
(***************************************************************************)
EXTENDS PlatformServices, TLC

CONSTANTS r1, r2, k1, k2, s1

\* The requests that race with each other.
Mixes ==
    { {"register", "login", "find", "logout"}, {"register", "login", "setup", "enable", "disable"},
      {"register", "redeem", "login"},
      {"issue", "revoke", "restart"}, {"portal", "rotate"}, {"issue", "portal", "show"},
      {"issue", "force", "revoke", "show"}, {"issue", "expire", "show"},
      {"trial", "attach", "pay"}, {"attach", "preset", "pay"},
      {"offer", "poll", "deploy"}, {"probe", "deploy"},
      {"name", "thread"}, {"post", "read", "wait"}, {"post", "join"}, {"post", "report"},
      {"day", "plan"}, {"emit", "prefs"}, {"emit", "inbox"},
      {"screen"}, {"screen", "bars"},
      {"chart"},
      {"engines", "evaluate", "tier"},
      {"bar"},
      {"job"},
      {"vault"}, {"vault", "session"},
      {"position"}, {"position", "reboot"},
      {"addon", "slave"}, {"addon", "slave", "mirror"} }

Jobs == { {"job"} }

\* Four pairs of the tables in registry/v40, and the one of the founding rulebooks.
OurPairs == {"AUDUSD", "EURUSD", "USDJPY", "US500", "GBPUSD"}

Optimised == {"V2OPT-EURUSD", "V2OPT-USDJPY"}

RowsWith(eur, eurWeak, eurIds, jpy) ==
    << [pair |-> "AUDUSD", status |-> "RESEARCH_ELIGIBLE", weak |-> FALSE, ids |-> {"V39-AUDUSD"}],
       [pair |-> "EURUSD", status |-> eur, weak |-> eurWeak, ids |-> eurIds],
       [pair |-> "USDJPY", status |-> jpy, weak |-> TRUE, ids |-> {"V2OPT-USDJPY", "NATIVE-USDJPY"}],
       [pair |-> "US500", status |-> "TRADING_DISABLED", weak |-> FALSE, ids |-> {}] >>

BookOf(id, p, archived, authorized) ==
    [id |-> id, pair |-> p, authorized |-> authorized,
     status |-> IF archived THEN "RESEARCH_ARCHIVED_INSUFFICIENT_GATES" ELSE "QUALIFIED_RESEARCH_CANDIDATE"]

BooksWith(authorized) ==
    { BookOf("V39-AUDUSD", "AUDUSD", FALSE, authorized), BookOf("V2OPT-EURUSD", "EURUSD", TRUE, FALSE),
      BookOf("RSI9-EURUSD", "EURUSD", FALSE, FALSE) }

\* Today's tables; the same with a rulebook authorized for production; the baseline that the
\* acceptance matrix was written for; with a good pair that has no rulebook; without an
\* instrument table; with no tables at all.
Images ==
    { [rows |-> RowsWith("RESEARCH_ELIGIBLE", FALSE, {"V2OPT-EURUSD", "RSI9-EURUSD"}, "RESEARCH_ELIGIBLE"),
       books |-> BooksWith(authorized)] : authorized \in BOOLEAN }
    \cup { [rows |-> RowsWith("TRADING_DISABLED", TRUE, {"V2OPT-EURUSD"}, "TRADING_DISABLED"),
            books |-> BooksWith(FALSE)],
           [rows |-> RowsWith("LIVE", FALSE, {"V2OPT-EURUSD"}, "TRADING_DISABLED"), books |-> {}],
           [rows |-> << >>, books |-> BooksWith(FALSE)],
           [rows |-> << >>, books |-> {}] }

Founding == { [id |-> "V31-GBPUSD", pair |-> "GBPUSD", authorized |-> FALSE,
               status |-> "QUALIFIED_RESEARCH_CANDIDATE_FROZEN"] }

Matrix == "AUDUSD" :> "ROUTABLE_RESEARCH" @@ "EURUSD" :> "TRADING_DISABLED"
       @@ "USDJPY" :> "TRADING_DISABLED"

Risks == 1 :> 1 @@ 2 :> 2

Bands == "U" :> 2 @@ "M" :> 6 @@ "L" :> 10

FramesOf(rows, upper, lower, found, withPrice) ==
    { [rsi |-> r[1], ma |-> r[2], up |-> upper, low |-> lower, band |-> found,
      price |-> withPrice] : r \in rows }

\* Six frames that rule A needs, in any order; and some for the other rules, three in a row.
BandCharts ==
    { [most |-> 6,
       frames |-> FramesOf({<<11, 11>>, <<7, 9>>, <<8, 11>>, <<4, 11>>, <<1, 7>>, <<5, 8>>}, 1, 11, TRUE, TRUE)],
      [most |-> 3,
       frames |-> FramesOf({<<9, 7>>, <<7, 5>>, <<5, 9>>, <<8, 11>>, <<NoRow, 5>>}, 1, 11, TRUE, TRUE)
            \cup FramesOf({<<7, 5>>, <<1, 1>>, <<4, 4>>}, 3, 9, TRUE, TRUE)
            \cup FramesOf({<<11, 9>>, <<5, 3>>}, 7, 9, TRUE, TRUE)
            \cup FramesOf({<<5, 3>>, <<8, 3>>}, 1, 5, TRUE, TRUE)
            \cup FramesOf({<<5, 3>>}, 1, 5, FALSE, TRUE)
            \cup FramesOf({<<5, 3>>}, 1, 5, TRUE, FALSE)] }

\* Around a whole risk ahead of the entry, a trailing stop away from it, and behind it.
BarPrices == {-12, -9, -7, -6, -3, 0, 2, 6}
=============================================================================
