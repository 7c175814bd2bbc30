--------------------------- MODULE PositionMirror ---------------------------
(***************************************************************************)
(* The copy of one account's positions in process memory                   *)
(* (position_lifecycle_service.py), which the last steps of /ack,          *)
(* /position-closed and /reconcile-positions keep (executor_router.py).    *)
(*                                                                         *)
(* Each endpoint gets here after its transaction, in any order: a close    *)
(* may come before the acknowledgement, a reconciliation with positions    *)
(* that were read before either.  Each method runs under one lock.         *)
(***************************************************************************)
EXTENDS ServerRequests, Functions

CONSTANTS MirrorSignals, \* bound: signals, each with at most one position on its ticket
          MirrorRisk     \* risk_usd that the server attached to each of them

ASSUME MirrorAssumption ==
    /\ IsFiniteSet(MirrorSignals)
    /\ MirrorRisk \in [MirrorSignals -> Nat \ {0}]

VARIABLES mirrored, \* _signals: the state of each signal
          priced,   \* the signals whose row has risk_usd
          recorded, \* _open_risk_recorded
          released, \* _risk_released
          indexed,  \* _ticket_index: the signals whose ticket is known
          tracked,  \* _account_open_risk
          sided,    \* _broker_sides: the signals whose positions gave the last sides
          acked,    \* the signals whose first acknowledgement got here
          atBroker  \* what became of the position of each signal

mirrorVars == <<mirrored, priced, recorded, released, indexed, tracked, sided, acked, atBroker>>

MirrorState == {"UNKNOWN", "ORDER_REJECTED", "ORDER_SENT", "BROKER_CONFIRMED_OPEN",
                "POSITION_OPEN", "RISK_RELEASED"}

MirrorTypeOK ==
    /\ mirrored \in [MirrorSignals -> MirrorState]
    /\ tracked \in Nat
    /\ {priced, recorded, released, indexed, sided, acked} \subseteq SUBSET MirrorSignals
    /\ atBroker \in [MirrorSignals -> {"none", "open", "closed"}]

MirrorInit ==
    /\ mirrored = [s \in MirrorSignals |-> "UNKNOWN"]
    /\ priced = {} /\ recorded = {} /\ released = {}
    /\ indexed = {} /\ sided = {}
    /\ tracked = 0
    /\ acked = {}
    /\ atBroker = [s \in MirrorSignals |-> "none"]

-----------------------------------------------------------------------------
RiskIn(S) == SumFunctionOnSet(MirrorRisk, S)

LessOrZero(a, b) == IF a >= b THEN a - b ELSE 0

\* The broker, as far as it is seen from here: a signal is acknowledged once its order is done.
PositionMoves(s) ==
    /\ Arrives("position")
    /\ \/ atBroker[s] = "none" /\ s \notin acked /\ atBroker' = [atBroker EXCEPT ![s] = "open"]
       \/ atBroker[s] = "open" /\ atBroker' = [atBroker EXCEPT ![s] = "closed"]
    /\ UNCHANGED <<mirrored, priced, recorded, released, indexed, tracked, sided, acked>>

\* on_ack and mark_open_risk_recorded, which nothing separates.  A repeated acknowledgement is
\* idempotent for the queue and changes nothing; an acknowledgement whose transaction fails
\* does not get here.  ticket: the executor found the position of the order, which it may
\* miss; known: the amount of the signal was still there.
MirrorAcked(s, ticket, known) ==
    /\ s \notin acked
    /\ ticket => atBroker[s] # "none"
    /\ acked' = acked \cup {s}
    /\ priced' = IF known THEN priced \cup {s} ELSE priced
    /\ indexed' = IF ticket THEN indexed \cup {s} ELSE indexed
    /\ IF ticket /\ known
         THEN /\ mirrored' = [mirrored EXCEPT ![s] = "POSITION_OPEN"]
              /\ recorded' = recorded \cup {s}
              /\ tracked' = tracked + MirrorRisk[s]
         ELSE /\ \/ ticket /\ mirrored' = [mirrored EXCEPT ![s] = "BROKER_CONFIRMED_OPEN"]
                 \/ ~ticket /\ mirrored' = [mirrored EXCEPT ![s] = "ORDER_SENT"]
                 \/ /\ ~ticket /\ atBroker[s] = "none"
                    /\ mirrored' = [mirrored EXCEPT ![s] = "ORDER_REJECTED"]
              /\ UNCHANGED <<recorded, tracked>>
    /\ UNCHANGED <<released, sided, atBroker>>

\* on_broker_close: the signal is named, or found by its ticket.  Without an amount of the
\* server's own, the close is only noted for a reconciliation.
MirrorClosed(s, named) ==
    /\ Arrives("position")
    /\ atBroker[s] = "closed"
    /\ named \/ s \in indexed
    /\ s \notin released
    /\ s \in priced
    /\ released' = released \cup {s}
    /\ indexed' = indexed \ {s}
    /\ mirrored' = [mirrored EXCEPT ![s] = "RISK_RELEASED"]
    /\ tracked' = LessOrZero(tracked, MirrorRisk[s])
    /\ UNCHANGED <<priced, recorded, sided, acked, atBroker>>

\* reconcile_from_broker with positions that were open when the executor read them; it sends
\* no amount of its own.
Stale(positions) == indexed \ positions

\* Mutation: a stale ticket is dropped, but the release of its signal is not noted.
ReleasedByNone(positions) == {}

ReleasedBy(positions) == { s \in Stale(positions) : s \notin released /\ s \in priced }

MirrorReconciled(positions) ==
    /\ Arrives("position")
    /\ \A s \in positions : atBroker[s] # "none"
    /\ released' = released \cup ReleasedBy(positions)
    /\ mirrored' = [s \in MirrorSignals |->
                      IF s \in ReleasedBy(positions) THEN "RISK_RELEASED" ELSE mirrored[s]]
    /\ indexed' = indexed \ Stale(positions)
    /\ tracked' = RiskIn(indexed \cap positions \cap priced)
    /\ sided' = positions
    /\ UNCHANGED <<priced, recorded, acked, atBroker>>

\* A restart of the server: memory starts empty.
MirrorIsLost ==
    /\ Arrives("reboot")
    /\ mirrored' = [s \in MirrorSignals |-> "UNKNOWN"]
    /\ priced' = {} /\ recorded' = {} /\ released' = {}
    /\ indexed' = {} /\ sided' = {}
    /\ tracked' = 0
    /\ UNCHANGED <<acked, atBroker>>

MirrorNext ==
    \/ \E s \in MirrorSignals, yes, known \in BOOLEAN :
          /\ Arrives("position")
          /\ MirrorAcked(s, yes, known)
    \/ \E s \in MirrorSignals, named \in BOOLEAN : MirrorClosed(s, named)
    \/ \E s \in MirrorSignals : PositionMoves(s)
    \/ \E positions \in SUBSET MirrorSignals : MirrorReconciled(positions)
    \/ MirrorIsLost

-----------------------------------------------------------------------------
\* The risk that is tracked for the account is the risk of the signals that were recorded and
\* not released since the server started, in whichever order acknowledgements, closes and
\* reconciliations with old positions arrive (position_lifecycle_service.py:101-103, 223-226):
\* nothing is released twice or counted again, and it is short of that sum by no more than
\* the risk of positions whose acknowledgement did not find the ticket and recorded nothing.
MirrorAddsUp ==
    /\ tracked <= RiskIn(recorded \ released)
    /\ RiskIn(recorded \ released) - tracked <= RiskIn(released \ recorded)
=============================================================================
