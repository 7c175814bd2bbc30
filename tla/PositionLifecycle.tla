------------------------- MODULE PositionLifecycle -------------------------
(***************************************************************************)
(* The durable lifecycle of positions and the open risk of one account:    *)
(* table aegis_position_lifecycle, DurableLifecycleService, open_risk_usd  *)
(* of the account's subscription, and the three endpoints of the executor  *)
(* router that change them: the second transaction of /ack,                *)
(* /position-closed and /reconcile-positions.  Each is one transaction     *)
(* that locks the rows it reads (FOR UPDATE) or inserts the only row it    *)
(* touches, and locks the subscription after them, so each is one step.    *)
(*                                                                         *)
(* The executor and the broker appear as far as these endpoints see them:  *)
(* a signal opens a position under a ticket of its own, or several if its  *)
(* order was executed more than once; closes are reported when a position  *)
(* is gone, and may be reported again; reconciliations carry a snapshot    *)
(* taken earlier.                                                          *)
(***************************************************************************)
EXTENDS Naturals, FiniteSets, Functions

CONSTANTS Signals,
          RiskOf,     \* risk_usd_at_open the server attached to each signal
          Labelled,   \* signals whose position carries the whole signal id in its comment
          Several,    \* signals whose order may be executed more than once
          Portfolio   \* whether a request may find app.state.portfolio_risk: a subset of BOOLEAN

ASSUME LifecycleAssumption ==
    /\ IsFiniteSet(Signals)
    /\ RiskOf \in [Signals -> Nat \ {0}]
    /\ Labelled \subseteq Signals
    /\ Several \subseteq Signals
    /\ Portfolio \subseteq BOOLEAN

VARIABLES rows,      \* the lifecycle row of each signal
          openRisk,  \* open_risk_usd
          answered,  \* signals whose /ack reached the durable queue first: its second transaction ran, or was lost
          broker,    \* the positions each signal opened; "part": one is gone, and another open
          reports    \* the reconciliations on their way: each a snapshot of positions

lifecycleVars == <<rows, openRisk, answered, broker, reports>>

\* Mutation: list_open forgets the state on_ack writes.
OpenStatesForgetful == {"BROKER_CONFIRMED_OPEN", "ORDER_SENT", "RECONCILIATION_REQUIRED"}

OpenStates == {"BROKER_CONFIRMED_OPEN", "POSITION_OPEN", "ORDER_SENT", "RECONCILIATION_REQUIRED"}
State == {"ABSENT", "ORDER_REJECTED", "RISK_RELEASED"} \cup OpenStates

\* ticket and priced: position_ticket and risk_usd_at_open are set; applied is
\* the nullable open_risk_applied.
Row == [state : State, ticket : BOOLEAN, priced : BOOLEAN, applied : {"null", "false", "true"}]

NoRow == [state |-> "ABSENT", ticket |-> FALSE, priced |-> FALSE, applied |-> "null"]

BrokerState == {"none", "open", "part", "closed"}

TypeOK ==
    /\ rows \in [Signals -> Row]
    /\ openRisk \in Nat
    /\ answered \subseteq Signals
    /\ broker \in [Signals -> BrokerState]
    /\ reports \in SUBSET SUBSET Signals

Init ==
    /\ rows = [s \in Signals |-> NoRow]
    /\ openRisk = 0
    /\ answered = {}
    /\ broker = [s \in Signals |-> "none"]
    /\ reports = {}

RiskSum(S) == SumFunctionOnSet(RiskOf, S)

\* max(0.0, cur - d)
Less(a, b) == IF a >= b THEN a - b ELSE 0

-----------------------------------------------------------------------------
(* The broker and the executor. *)

Fill(s) ==
    /\ broker[s] = "none" /\ s \notin answered
    /\ broker' = [broker EXCEPT ![s] = "open"]
    /\ UNCHANGED <<rows, openRisk, answered, reports>>

BrokerClose(s) ==
    /\ broker[s] \in {"open", "part"}
    /\ broker' = [broker EXCEPT ![s] = "closed"]
    /\ UNCHANGED <<rows, openRisk, answered, reports>>

\* One of several positions of a signal is closed, on an account that keeps them apart.
BrokerClosesOne(s) ==
    /\ s \in Several /\ broker[s] = "open"
    /\ broker' = [broker EXCEPT ![s] = "part"]
    /\ UNCHANGED <<rows, openRisk, answered, reports>>

In(state) == {s \in Signals : broker[s] = state}

\* The executor starts, reads its live positions and posts them.  The one that a row
\* knows may be among those gone, although another of its signal is live.
TakeSnapshot ==
    /\ reports = {}
    /\ \E part \in SUBSET In("part") : reports' = {In("open") \cup part}
    /\ UNCHANGED <<rows, openRisk, answered, broker>>

LoseSnapshot(P) ==
    /\ P \in reports
    /\ reports' = reports \ {P}
    /\ UNCHANGED <<rows, openRisk, answered, broker>>

-----------------------------------------------------------------------------
(* /ack: on_ack, record_open_risk and mark_risk_recorded. *)

\* on_ack on a row that is already settled changes nothing.
Settled(row) ==
    \/ row.state = "RISK_RELEASED"
    \/ row.state \in {"POSITION_OPEN", "BROKER_CONFIRMED_OPEN"} /\ row.ticket

\* Mutation: the rejection is written with the queue's word for it.
OnAckQueueWord(row, ok, ticket, priced) ==
    IF ok THEN row ELSE [row EXCEPT !.state = "REJECTED"]

OnAck(row, ok, ticket, priced) ==
    LET known == [row EXCEPT !.priced = @ \/ priced] IN
    CASE Settled(row) -> row
      [] ~Settled(row) /\ ~ok -> [known EXCEPT !.state = "ORDER_REJECTED"]
      [] ~Settled(row) /\ ok /\ ticket /\ known.priced ->
            [known EXCEPT !.state = "POSITION_OPEN", !.ticket = TRUE,
                          !.applied = IF @ = "true" THEN @ ELSE "false"]
      [] ~Settled(row) /\ ok /\ ticket /\ ~known.priced ->
            [known EXCEPT !.state = "BROKER_CONFIRMED_OPEN", !.ticket = TRUE]
      [] OTHER -> [known EXCEPT !.state = "ORDER_SENT"]

\* A first acknowledgement of s, whose durable part has just committed.  priced:
\* the process still had the payload, and with it the risk; portfolio: the
\* portfolio service is there.
BookAck(s, ok, ticket, priced, portfolio) ==
    LET row    == OnAck(rows[s], ok, ticket, priced)
        record == ~Settled(rows[s]) /\ ok /\ ticket /\ priced /\ portfolio
    IN /\ rows' = [rows EXCEPT ![s] = IF record THEN [row EXCEPT !.applied = "true"] ELSE row]
       /\ openRisk' = IF record THEN openRisk + RiskOf[s] ELSE openRisk
       /\ answered' = answered \cup {s}
       /\ UNCHANGED <<broker, reports>>

\* The executor acknowledges a signal once it takes its order for done or refused; a
\* refused one may have been executed all the same.
AckLifecycle(s, ok, ticket, priced, portfolio) ==
    /\ s \notin answered
    /\ ok => broker[s] # "none"
    /\ ticket => ok
    /\ BookAck(s, ok, ticket, priced, portfolio)

\* The second transaction fails, or the process dies before it, for several
\* requests at once; any further /ack of these signals is idempotent for the
\* durable queue and comes no further.
AckLifecycleLost(S) ==
    /\ S # {} /\ S \cap answered = {}
    /\ answered' = answered \cup S
    /\ UNCHANGED <<rows, openRisk, broker, reports>>

-----------------------------------------------------------------------------
(* /position-closed: on_close and release_open_risk. *)

\* The row is looked up by the signal id of the comment, then by the ticket.
FoundOnClose(s) == rows[s].state # "ABSENT" /\ (s \in Labelled \/ rows[s].ticket)

\* Mutation: the early return ALREADY_RELEASED is missing.
ReleasesOnEveryClose(s) == FoundOnClose(s) /\ rows[s].priced

ReleasesOnClose(s) ==
    FoundOnClose(s) /\ rows[s].state # "RISK_RELEASED" /\ rows[s].priced

OnClose(s) ==
    CASE ReleasesOnClose(s) -> [rows[s] EXCEPT !.state = "RISK_RELEASED", !.ticket = TRUE]
      [] FoundOnClose(s) /\ rows[s].state # "RISK_RELEASED" /\ ~rows[s].priced ->
            [rows[s] EXCEPT !.state = "RECONCILIATION_REQUIRED"]
      [] OTHER -> rows[s]

\* Mutation: the amount is released whether or not it was applied.
AmountAlways(s) == RiskOf[s]

\* Only risk that was applied is given back.
Amount(s) == IF rows[s].applied = "true" THEN RiskOf[s] ELSE 0

PositionClosed(s, portfolio) ==
    /\ broker[s] \in {"part", "closed"}
    /\ rows' = [rows EXCEPT ![s] = OnClose(s)]
    /\ openRisk' = IF ReleasesOnClose(s) /\ portfolio THEN Less(openRisk, Amount(s)) ELSE openRisk
    /\ UNCHANGED <<answered, broker, reports>>

-----------------------------------------------------------------------------
(* /reconcile-positions: reconcile, with the live positions P reported. *)

OpenRow(s)   == rows[s].state \in OpenStates /\ rows[s].ticket
Absent(s, P) == OpenRow(s) /\ s \notin P

\* Mutation: absent rows release their amount whether or not it was applied.
StaleUnapplied(P) == {s \in Signals : Absent(s, P) /\ rows[s].priced}

Recovered(P) == {s \in P : OpenRow(s) /\ rows[s].applied = "false" /\ rows[s].priced}
Stale(P)     == {s \in Signals : Absent(s, P) /\ rows[s].priced /\ rows[s].applied = "true"}

Promoted(s, P) ==
    /\ s \in P /\ OpenRow(s) /\ rows[s].priced
    /\ rows[s].state \in {"ORDER_SENT", "BROKER_CONFIRMED_OPEN"}

\* Mutation: the state of the matched row is not checked.
LinkedToAny(s, P) == s \in P \cap Labelled /\ ~OpenRow(s) /\ rows[s].priced

\* A position whose ticket no open row has, matched by the id in its comment.
Linked(s, P) ==
    /\ s \in P \cap Labelled
    /\ ~OpenRow(s)
    /\ rows[s].priced /\ rows[s].state # "RISK_RELEASED"

\* Mutation: every absent position is left to an operator.
ReconcileRowByHand(s, P) ==
    IF Absent(s, P) THEN [rows[s] EXCEPT !.state = "RECONCILIATION_REQUIRED"] ELSE rows[s]

ReconcileRow(s, P) ==
    CASE Absent(s, P) ->
            [rows[s] EXCEPT !.state = IF rows[s].priced THEN "RISK_RELEASED"
                                      ELSE "RECONCILIATION_REQUIRED"]
      [] s \in Recovered(P) -> [rows[s] EXCEPT !.state = "POSITION_OPEN", !.applied = "true"]
      [] s \notin Recovered(P) /\ Promoted(s, P) -> [rows[s] EXCEPT !.state = "POSITION_OPEN"]
      [] Linked(s, P) -> [rows[s] EXCEPT !.state = "POSITION_OPEN", !.ticket = TRUE]
      [] OTHER -> rows[s]

\* Without the portfolio service a reconciliation that recovers risk is rolled
\* back; one that only releases commits the rows and leaves open_risk_usd alone.
ReconcilePositions(P, portfolio) ==
    /\ P \in reports
    /\ portfolio \/ Recovered(P) = {}
    /\ rows' = [s \in Signals |-> ReconcileRow(s, P)]
    /\ openRisk' = IF portfolio
                   THEN Less(openRisk, RiskSum(Stale(P))) + RiskSum(Recovered(P))
                   ELSE openRisk
    /\ reports' = reports \ {P}
    /\ UNCHANGED <<answered, broker>>

-----------------------------------------------------------------------------
Next ==
    \/ \E s \in Signals : Fill(s) \/ BrokerClose(s) \/ BrokerClosesOne(s)
    \/ TakeSnapshot \/ \E P \in reports : LoseSnapshot(P)
    \/ \E s \in Signals, ok, ticket, priced \in BOOLEAN, portfolio \in Portfolio :
          AckLifecycle(s, ok, ticket, priced, portfolio)
    \/ \E S \in SUBSET Signals : AckLifecycleLost(S)
    \/ \E s \in Signals, portfolio \in Portfolio : PositionClosed(s, portfolio)
    \/ \E P \in reports, portfolio \in Portfolio : ReconcilePositions(P, portfolio)

Spec == Init /\ [][Next]_lifecycleVars

\* A reconciliation that is sent again and again is processed some time: not
\* every one of them is lost.
Reconciliation == \E P \in reports, portfolio \in Portfolio : ReconcilePositions(P, portfolio)

FairSpec == Spec /\ SF_lifecycleVars(Reconciliation)

-----------------------------------------------------------------------------
(* Properties. *)

Counted(s) == rows[s].applied = "true" /\ rows[s].state # "RISK_RELEASED"

\* open_risk_usd is exactly the risk of the rows that say it was applied and are
\* not released, whatever acknowledgements, closes (also repeated ones) and
\* reconciliations (also with old snapshots) interleave.
LedgerMatchesRows == openRisk = RiskSum({s \in Signals : Counted(s)})

\* Even where the portfolio service may be missing, open_risk_usd never understates
\* the applied risk: the account is never let to risk more than it may.
OpenRiskIsNotUnderstated == openRisk >= RiskSum({s \in Signals : Counted(s)})

\* A row whose risk was applied has the amount and the ticket needed to release
\* it, and is in no state from which the two releasing transactions skip it.
AppliedRowsCanBeReleased ==
    \A s \in Signals : rows[s].applied = "true" =>
        /\ rows[s].priced /\ rows[s].ticket
        /\ rows[s].state \in {"POSITION_OPEN", "RISK_RELEASED"}

\* RISK_RELEASED is terminal: no late acknowledgement, close or old snapshot
\* reopens a released row.
ReleasedIsFinal ==
    [][\A s \in Signals :
         rows[s].state = "RISK_RELEASED" => rows'[s].state = "RISK_RELEASED"]_lifecycleVars

\* The lifecycle implements RiskLedger: the risk of a signal is added at most
\* once and released at most once.
StageOf(row) ==
    CASE row.state = "RISK_RELEASED" -> "over"
      [] row.state # "RISK_RELEASED" /\ row.applied = "true" -> "counted"
      [] OTHER -> "uncounted"

Ledger == INSTANCE RiskLedger
    WITH stage <- [s \in Signals |-> StageOf(rows[s])], total <- openRisk

LedgerRefined == Ledger!Spec

\* The amounts of closed positions leave open_risk_usd for good, also if no close
\* notice arrives, given that every request finds the portfolio service and the
\* executor is restarted again and again.
ClosedRiskIsReleased ==
    []<><<TakeSnapshot>>_lifecycleVars =>
        ((\A s \in Signals : broker[s] = "closed") ~> [](openRisk = 0))
=============================================================================
