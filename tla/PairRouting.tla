---------------------------- MODULE PairRouting ----------------------------
(***************************************************************************)
(* Which pairs may be analysed, and which may be traded.  The universal    *)
(* router (router.py) and the registry service (registry_service.py) load  *)
(* the same two tables when the server starts and judge them on their own: *)
(* the first answers analyses and probes (router_acceptance_router.py),    *)
(* the second the executor's polls (executor_router.py) and the clients    *)
(* (registry_router.py, template_router.py).                               *)
(*                                                                         *)
(* Signals on offer are rows of a database, and outlive a deployment that  *)
(* brings other tables; module ExecutionQueue has their states.            *)
(***************************************************************************)
EXTENDS ServerRequests, SequencesExt

CONSTANTS Pairs,
          Tables,        \* the tables a deployment may bring
          FoundingBooks, \* rulebooks defined in the code (rulebooks/registry.py)
          OptimisedIds,  \* ids with "V2OPT" in them
          MaxSymbols,    \* max_symbols of a batch poll
          Canonical      \* ACCEPTANCE_MATRIX: the state each pair should be in

VARIABLES tables,  \* what the server has loaded
          offered, \* pairs with a signal on offer
          handed,  \* pairs whose signal an executor got since the last deployment
          routed,  \* the router's last answer
          published  \* active_profile.json

routingVars == <<tables, offered, handed, routed, published>>

Disabled    == {"TRADING_DISABLED", "DISABLED", "REJECTED"}
Tradeable   == {"RESEARCH_ELIGIBLE", "TRADING_ENABLED", "LIVE"}
Qualified   == {"QUALIFIED_RESEARCH_CANDIDATE", "SOURCE_RULEBOOK_FROZEN", "FOUNDING"}
BookStatus  == Qualified \cup {"QUALIFIED_RESEARCH_CANDIDATE_FROZEN",
                               "RESEARCH_ARCHIVED_INSUFFICIENT_GATES"}
RouteStates == {"ROUTABLE_RESEARCH", "UNKNOWN_INSTRUMENT", "UNKNOWN_TIMEFRAME", "TRADING_DISABLED",
                "INSUFFICIENT_SPREAD_DATA", "NO_QUALIFIED_RULEBOOK",
                "PRODUCTION_AUTHORIZATION_REQUIRED"}
Probes      == [pair : Pairs, m5 : BOOLEAN, spread : BOOLEAN, production : BOOLEAN]

\* A row of the instrument table; weak: its registry status says V2OPT_INSUFFICIENT.
InstrumentRow == [pair : Pairs, status : Disabled \cup Tradeable, weak : BOOLEAN, ids : SUBSET STRING]
Book == [id : STRING, pair : Pairs, status : BookStatus, authorized : BOOLEAN]

\* Both tables list the timeframe M5 only.
ASSUME RoutingAssumption ==
    /\ \A t \in Tables : t.rows \in Seq(InstrumentRow) /\ t.books \subseteq Book
    /\ FoundingBooks \subseteq Book /\ OptimisedIds \subseteq STRING
    /\ MaxSymbols \in Nat
    /\ DOMAIN Canonical \subseteq Pairs

Unanswered == [state |-> "none", ids |-> {}, authorized |-> FALSE]

RoutingTypeOK ==
    /\ tables \in Tables
    /\ offered \subseteq Pairs /\ handed \subseteq Pairs
    /\ routed.state \in RouteStates \cup {"none", "passed", "failed"} /\ routed.authorized \in BOOLEAN
    /\ published \in {"registry", "other"}

RoutingInit ==
    /\ tables \in Tables
    /\ offered = {} /\ handed = {}
    /\ routed = Unanswered
    /\ published = "registry"

-----------------------------------------------------------------------------
(* The universal router.                                                   *)

\* Where the pair stands in the instrument table; the first row counts.
ListedAt(t, p)  == { i \in 1..Len(t.rows) : t.rows[i].pair = p }
FirstRow(t, p)  == t.rows[Min(ListedAt(t, p))]
BooksOf(t, p) == { b \in t.books : b.pair = p }

\* A pair that only the rulebooks know counts as eligible.
RowOf(t, p) ==
    IF ListedAt(t, p) # {} THEN FirstRow(t, p)
    ELSE [pair |-> p, status |-> "RESEARCH_ELIGIBLE", weak |-> FALSE, ids |-> {}]

IdsListed(row) == row.ids \ OptimisedIds

\* Those of the pair's row, and the qualified ones of the rulebook table.
EligibleIds(t, probe) ==
    IdsListed(RowOf(t, probe.pair)) \cup
    { b.id : b \in { x \in BooksOf(t, probe.pair) :
                        probe.m5 /\ x.status \in Qualified /\ x.id \notin OptimisedIds } }

AuthorizedIds(t, probe) == { b.id : b \in { x \in t.books : x.authorized } } \cap EligibleIds(t, probe)

\* The refusals of resolve(), in its order.  No caller says that a rulebook's integrity or
\* a model's lineage has failed.
Refusals(t, probe) ==
    LET p == probe.pair IN
    << [state |-> "UNKNOWN_INSTRUMENT", holds |-> ListedAt(t, p) = {} /\ BooksOf(t, p) = {}],
       [state |-> "UNKNOWN_TIMEFRAME",  holds |-> ListedAt(t, p) # {} /\ ~probe.m5],
       [state |-> "TRADING_DISABLED",   holds |-> RowOf(t, p).status \in Disabled],
       [state |-> "INSUFFICIENT_SPREAD_DATA", holds |-> ~probe.spread],
       [state |-> "NO_QUALIFIED_RULEBOOK", holds |-> EligibleIds(t, probe) = {}],
       [state |-> "PRODUCTION_AUTHORIZATION_REQUIRED",
        holds |-> probe.production /\ AuthorizedIds(t, probe) = {}] >>

RouteOf(t, probe) ==
    LET refusals == Refusals(t, probe)
        refused  == { i \in DOMAIN refusals : refusals[i].holds }
        state    == refusals[Min(refused)].state
    IN  IF refused = {}
        THEN [state |-> "ROUTABLE_RESEARCH", authorized |-> probe.production,
              ids |-> IF probe.production THEN AuthorizedIds(t, probe) ELSE EligibleIds(t, probe)]
        ELSE [state |-> state, authorized |-> FALSE,
              ids |-> IF state = "PRODUCTION_AUTHORIZATION_REQUIRED"
                      THEN EligibleIds(t, probe) ELSE {}]

\* What an analysis asks.
Research(p) == [pair |-> p, m5 |-> TRUE, spread |-> TRUE, production |-> FALSE]

-----------------------------------------------------------------------------
(* The registry service.                                                   *)

\* The rulebook table comes first: a founding book whose id it has is dropped.
AllBooks(t) == t.books \cup { b \in FoundingBooks : \A x \in t.books : x.id # b.id }

IsTradeable(row) == row.status \in Tradeable
IsGood(row)      == IsTradeable(row) /\ ~row.weak

\* Mutation: a pair only has to be listed.
IsListed(t, p) == IF t.rows # << >> THEN ListedAt(t, p) # {} ELSE BooksOf(t, p) # {}

\* _is_symbol_authorized: the first row of the pair is good.  Without an instrument table
\* the pairs of all rulebooks are tradeable, and nothing is said of good.
IsAuthorized(t, p) ==
    IF t.rows # << >> THEN ListedAt(t, p) # {} /\ IsGood(FirstRow(t, p))
    ELSE \E b \in AllBooks(t) : b.pair = p

\* executor_universe, which wants both said; a batch takes its first pairs.
Universe(t) ==
    LET good == SelectSeq(t.rows, LAMBDA row : IsGood(row))
        size == IF Len(good) < MaxSymbols THEN Len(good) ELSE MaxSymbols
    IN  { good[i].pair : i \in 1..size }

-----------------------------------------------------------------------------
\* A controlled demo signal is put on offer, of any pair (demo_monitor_router.py).
OfferSignal(p) ==
    /\ Arrives("offer")
    /\ p \notin offered
    /\ offered' = offered \cup {p}
    /\ UNCHANGED <<tables, handed, routed, published>>

\* A poll for some pairs, or for the universe: the authorized ones get their signal.  The
\* emergency stop is that of ExecutionPipeline; the only publisher marks each signal as a demo
\* one, so the batch's filter drops none.
PollPairs(ps) ==
    LET got == { p \in ps \cap offered : IsAuthorized(tables, p) } IN
    /\ Arrives("poll")
    /\ offered' = offered \ got
    /\ handed' = handed \cup got
    /\ UNCHANGED <<tables, routed, published>>

PollUniverse == PollPairs(Universe(tables))

AskRoute(probe) ==
    /\ Arrives("probe")
    /\ routed' = RouteOf(tables, probe)
    /\ UNCHANGED <<tables, offered, handed, published>>

\* run_acceptance: every pair is in the state that the matrix says, and none of those that
\* are routable is authorized for production.
Accepted(t) ==
    \A p \in DOMAIN Canonical :
        /\ RouteOf(t, Research(p)).state = Canonical[p]
        /\ Canonical[p] = "ROUTABLE_RESEARCH" =>
              RouteOf(t, [Research(p) EXCEPT !.production = TRUE]).state
                  = "PRODUCTION_AUTHORIZATION_REQUIRED"

RunAcceptance ==
    /\ Arrives("probe")
    /\ routed' = [Unanswered EXCEPT !.state = IF Accepted(tables) THEN "passed" ELSE "failed"]
    /\ UNCHANGED <<tables, offered, handed, published>>

\* The administrator's profile only says which version the clients are told.
ActivateProfile(version) ==
    /\ Arrives("probe")
    /\ published' = version
    /\ UNCHANGED <<tables, offered, handed, routed>>

\* The server starts again with the tables of its image; the profile is a file that the
\* image may bring as well.
Deploy(t) ==
    /\ Arrives("deploy")
    /\ tables' = t
    /\ handed' = {}
    /\ routed' = Unanswered
    /\ published' \in {published, "registry"}
    /\ UNCHANGED offered

RoutingNext ==
    \/ \E p \in Pairs : OfferSignal(p)
    \/ \E ps \in SUBSET Pairs : PollPairs(ps)
    \/ PollUniverse
    \/ \E probe \in Probes : AskRoute(probe)
    \/ RunAcceptance
    \/ \E version \in {"registry", "other"} : ActivateProfile(version)
    \/ \E t \in Tables : Deploy(t)

-----------------------------------------------------------------------------
\* "Research-disabled pairs never reach Executor" (executor_router.py:22): a pair that an
\* executor gets a signal for is one that the router would send an analysis on for, with the
\* tables of today, also if its signal was offered before they were deployed.  The registry
\* service does not look for a rulebook: where the instrument table calls a pair good and no
\* rulebook may be used (router.py:240-248), executors get it and the router refuses it for
\* that, and for no other reason.  Without the instrument table the two disagree more widely
\* (the registry service then lists every rulebook's pair).
HandedPairsAreRouted ==
    tables.rows # << >> =>
        \A p \in handed :
            RouteOf(tables, Research(p)).state =
                IF EligibleIds(tables, Research(p)) = {} THEN "NO_QUALIFIED_RULEBOOK"
                ELSE "ROUTABLE_RESEARCH"
=============================================================================
