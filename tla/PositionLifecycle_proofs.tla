---------------------- MODULE PositionLifecycle_proofs ----------------------
(***************************************************************************)
(* Proofs about PositionLifecycle, for any finite set of signals and any   *)
(* amounts.  A step is described row by row first (which rows stay well    *)
(* formed, how each moves in the ledger), then through the two sets of     *)
(* signals whose risk it adds and takes off.                               *)
(***************************************************************************)
EXTENDS PositionLifecycle, SumFacts

-----------------------------------------------------------------------------
(* Rows. *)

RowOK(row) ==
    /\ row \in Row
    /\ row.applied = "true" =>
        row.priced /\ row.ticket /\ row.state \in {"POSITION_OPEN", "RISK_RELEASED"}

RowsOK == \A s \in Signals : RowOK(rows[s])

\* The inductive invariant of everything below.
LifecycleInv == TypeOK /\ RowsOK

\* Every row is at one of the ledger's stages.
LEMMA StageType == \A row : StageOf(row) \in {"uncounted", "counted", "over"}
  BY DEF StageOf

\* A row whose risk was applied is settled, so an acknowledgement that is not
\* refused by Settled meets a row that is not counted yet.
LEMMA OnAckRow ==
    ASSUME NEW row, RowOK(row), NEW ok \in BOOLEAN, NEW ticket \in BOOLEAN, NEW priced \in BOOLEAN
    PROVE  /\ RowOK(OnAck(row, ok, ticket, priced))
           /\ StageOf(OnAck(row, ok, ticket, priced)) = StageOf(row)
           /\ row.state = "RISK_RELEASED" => OnAck(row, ok, ticket, priced) = row
           /\ ~Settled(row) => StageOf(row) = "uncounted" /\ row.state # "RISK_RELEASED"
           /\ ~Settled(row) /\ ok /\ ticket /\ priced =>
                LET new == [OnAck(row, ok, ticket, priced) EXCEPT !.applied = "true"] IN
                  RowOK(new) /\ StageOf(new) = "counted"
  <1> DEFINE known == [row EXCEPT !.priced = row.priced \/ priced]
             new   == OnAck(row, ok, ticket, priced)
  <1>1. row \in Row /\ known \in Row
    BY DEF RowOK, Row
  <1>2. CASE Settled(row)
    <2>1. new = row
      BY <1>2 DEF OnAck
    <2> QED BY <1>2, <2>1
  <1>3. CASE ~Settled(row)
    <2>1. row.state # "RISK_RELEASED" /\ row.applied # "true"
      BY <1>3 DEF RowOK, Settled
    <2>2. StageOf(row) = "uncounted"
      BY <2>1 DEF StageOf
    <2>3. CASE ~ok
      <3>1. new = [known EXCEPT !.state = "ORDER_REJECTED"]
        BY <1>3, <2>3 DEF OnAck
      <3>2. new \in Row /\ new.state = "ORDER_REJECTED" /\ new.applied = row.applied
        BY <1>1, <3>1 DEF Row, State
      <3> HIDE DEF new
      <3>4. RowOK(new) /\ StageOf(new) = "uncounted"
        BY <2>1, <3>2 DEF RowOK, StageOf
      <3> QED BY <1>3, <2>1, <2>2, <2>3, <3>4 DEF new
    <2>4. CASE ok /\ ticket /\ known.priced
      <3>1. new = [known EXCEPT !.state = "POSITION_OPEN", !.ticket = TRUE, !.applied = "false"]
        BY <1>1, <1>3, <2>1, <2>4 DEF OnAck, Row
      <3>2. new \in Row /\ new.state = "POSITION_OPEN" /\ new.applied = "false"
            /\ new.ticket = TRUE /\ new.priced = TRUE
        BY <1>1, <2>4, <3>1 DEF Row, State, OpenStates
      <3> HIDE DEF new
      <3>3. RowOK(new) /\ StageOf(new) = "uncounted"
        BY <3>2 DEF RowOK, StageOf
      <3> DEFINE rec == [new EXCEPT !.applied = "true"]
      <3>4. rec \in Row /\ rec.state = "POSITION_OPEN" /\ rec.applied = "true"
            /\ rec.ticket = TRUE /\ rec.priced = TRUE
        BY <3>2 DEF Row
      <3> HIDE DEF rec
      <3>5. RowOK(rec) /\ StageOf(rec) = "counted"
        BY <3>4 DEF RowOK, StageOf
      <3> QED BY <1>3, <2>1, <2>2, <3>3, <3>5 DEF rec, new
    <2>5. CASE ok /\ ticket /\ ~known.priced
      <3>1. new = [known EXCEPT !.state = "BROKER_CONFIRMED_OPEN", !.ticket = TRUE]
        BY <1>3, <2>5 DEF OnAck
      <3>2. new \in Row /\ new.state = "BROKER_CONFIRMED_OPEN" /\ new.applied = row.applied
        BY <1>1, <3>1 DEF Row, State, OpenStates
      <3>3. priced = FALSE
        BY <1>1, <2>5 DEF Row
      <3> HIDE DEF new
      <3>4. RowOK(new) /\ StageOf(new) = "uncounted"
        BY <2>1, <3>2 DEF RowOK, StageOf
      <3> QED BY <1>3, <2>1, <2>2, <3>3, <3>4 DEF new
    <2>6. CASE ok /\ ~ticket
      <3>1. new = [known EXCEPT !.state = "ORDER_SENT"]
        BY <1>3, <2>6 DEF OnAck
      <3>2. new \in Row /\ new.state = "ORDER_SENT" /\ new.applied = row.applied
        BY <1>1, <3>1 DEF Row, State, OpenStates
      <3> HIDE DEF new
      <3>4. RowOK(new) /\ StageOf(new) = "uncounted"
        BY <2>1, <3>2 DEF RowOK, StageOf
      <3> QED BY <1>3, <2>1, <2>2, <2>6, <3>4 DEF new
    <2> QED BY <2>3, <2>4, <2>5, <2>6
  <1> QED BY <1>2, <1>3

\* A close changes the stage only when it releases the row, and takes off an
\* amount only when the row was counted.
LEMMA OnCloseRow ==
    ASSUME NEW s \in Signals, RowOK(rows[s])
    PROVE  /\ RowOK(OnClose(s))
           /\ rows[s].state = "RISK_RELEASED" => OnClose(s) = rows[s]
           /\ ~ReleasesOnClose(s) => StageOf(OnClose(s)) = StageOf(rows[s])
           /\ ReleasesOnClose(s) =>
                /\ StageOf(OnClose(s)) = "over"
                /\ Amount(s) = IF StageOf(rows[s]) = "counted" THEN RiskOf[s] ELSE 0
                /\ StageOf(rows[s]) \in {"uncounted", "counted"}
  <1>1. CASE ReleasesOnClose(s)
    <2>1. OnClose(s) = [rows[s] EXCEPT !.state = "RISK_RELEASED", !.ticket = TRUE]
      BY <1>1 DEF OnClose, ReleasesOnClose
    <2>2. OnClose(s) \in Row /\ OnClose(s).state = "RISK_RELEASED" /\ OnClose(s).ticket = TRUE
          /\ OnClose(s).priced = rows[s].priced /\ OnClose(s).applied = rows[s].applied
      BY <2>1 DEF RowOK, Row, State
    <2>3. RowOK(OnClose(s)) /\ StageOf(OnClose(s)) = "over"
      BY <2>2 DEF RowOK, StageOf
    <2>4. rows[s].state # "RISK_RELEASED"
      BY <1>1 DEF ReleasesOnClose
    <2> QED BY <1>1, <2>3, <2>4 DEF StageOf, Amount
  <1>2. CASE ~ReleasesOnClose(s) /\ FoundOnClose(s) /\ rows[s].state # "RISK_RELEASED"
    <2>1. ~rows[s].priced
      BY <1>2 DEF ReleasesOnClose
    <2>2. OnClose(s) = [rows[s] EXCEPT !.state = "RECONCILIATION_REQUIRED"]
      BY <1>2, <2>1 DEF OnClose
    <2>3. OnClose(s) \in Row /\ OnClose(s).state = "RECONCILIATION_REQUIRED"
          /\ OnClose(s).applied = rows[s].applied
      BY <2>2 DEF RowOK, Row, State, OpenStates
    <2>4. rows[s].applied # "true"
      BY <2>1 DEF RowOK
    <2> QED BY <1>2, <2>3, <2>4 DEF RowOK, StageOf
  <1>3. CASE ~ReleasesOnClose(s) /\ ~(FoundOnClose(s) /\ rows[s].state # "RISK_RELEASED")
    <2>1. OnClose(s) = rows[s]
      BY <1>3 DEF OnClose
    <2> QED BY <1>3, <2>1
  <1> QED BY <1>1, <1>2, <1>3

\* Reconciliation moves exactly the rows of Stale and Recovered in the ledger,
\* except that uncounted rows may become released.
LEMMA ReconciledRow ==
    ASSUME NEW s \in Signals, RowOK(rows[s]), NEW P
    PROVE  /\ RowOK(ReconcileRow(s, P))
           /\ rows[s].state = "RISK_RELEASED" => ReconcileRow(s, P) = rows[s]
           /\ s \in Stale(P) =>
                StageOf(rows[s]) = "counted" /\ StageOf(ReconcileRow(s, P)) = "over"
           /\ s \in Recovered(P) =>
                StageOf(rows[s]) = "uncounted" /\ StageOf(ReconcileRow(s, P)) = "counted"
           /\ s \notin Stale(P) /\ s \notin Recovered(P) =>
                \/ StageOf(ReconcileRow(s, P)) = StageOf(rows[s])
                \/ StageOf(rows[s]) = "uncounted" /\ StageOf(ReconcileRow(s, P)) = "over"
  <1> DEFINE new == ReconcileRow(s, P)
  <1>1. rows[s] \in Row
    BY DEF RowOK
  <1>2. OpenRow(s) => rows[s].state # "RISK_RELEASED" /\ rows[s].ticket
    BY DEF OpenRow, OpenStates
  <1>3. CASE Absent(s, P) /\ rows[s].priced
    <2>1. new = [rows[s] EXCEPT !.state = "RISK_RELEASED"]
      BY <1>3 DEF ReconcileRow, Absent, Recovered, Promoted, Linked
    <2>2. new \in Row /\ new.state = "RISK_RELEASED" /\ new.applied = rows[s].applied
          /\ new.priced = rows[s].priced /\ new.ticket = rows[s].ticket
      BY <1>1, <2>1 DEF Row, State
    <2>3. rows[s].state # "RISK_RELEASED" /\ s \notin Recovered(P)
          /\ (s \in Stale(P) <=> rows[s].applied = "true")
      BY <1>2, <1>3 DEF Absent, Recovered, Stale
    <2>4. RowOK(new)
      BY <2>2 DEF RowOK
    <2>5. StageOf(new) = "over"
      BY <2>2 DEF StageOf
    <2> HIDE DEF new
    <2>6. StageOf(rows[s]) = IF s \in Stale(P) THEN "counted" ELSE "uncounted"
      BY <2>3 DEF StageOf
    <2> QED BY <2>3, <2>4, <2>5, <2>6 DEF new
  <1>4. CASE Absent(s, P) /\ ~rows[s].priced
    <2>1. new = [rows[s] EXCEPT !.state = "RECONCILIATION_REQUIRED"]
      BY <1>4 DEF ReconcileRow, Absent, Recovered, Promoted, Linked
    <2>2. new \in Row /\ new.state = "RECONCILIATION_REQUIRED" /\ new.applied = rows[s].applied
      BY <1>1, <2>1 DEF Row, State, OpenStates
    <2>3. rows[s].applied # "true" /\ rows[s].state # "RISK_RELEASED"
      BY <1>2, <1>4 DEF RowOK, Absent
    <2>4. s \notin Stale(P) /\ s \notin Recovered(P)
      BY <1>4 DEF Stale, Recovered, Absent
    <2>5. RowOK(new)
      BY <2>2, <2>3 DEF RowOK
    <2> HIDE DEF new
    <2>6. StageOf(new) = "uncounted" /\ StageOf(rows[s]) = "uncounted"
      BY <2>2, <2>3 DEF StageOf
    <2> QED BY <2>3, <2>4, <2>5, <2>6 DEF new
  <1>5. CASE s \in Recovered(P)
    <2>1. s \in P /\ OpenRow(s) /\ rows[s].applied = "false" /\ rows[s].priced
      BY <1>5 DEF Recovered
    <2>2. ~Absent(s, P) /\ s \notin Stale(P)
      BY <2>1 DEF Absent, Stale
    <2>3. new = [rows[s] EXCEPT !.state = "POSITION_OPEN", !.applied = "true"]
      BY <1>5, <2>2 DEF ReconcileRow, Absent, Recovered, Promoted, Linked
    <2>4. new \in Row /\ new.state = "POSITION_OPEN" /\ new.applied = "true"
          /\ new.priced = rows[s].priced /\ new.ticket = rows[s].ticket
      BY <1>1, <2>3 DEF Row, State, OpenStates
    <2>5. RowOK(new)
      BY <1>2, <2>1, <2>4 DEF RowOK
    <2> HIDE DEF new
    <2>6. StageOf(new) = "counted" /\ StageOf(rows[s]) = "uncounted"
      BY <1>2, <2>1, <2>4 DEF StageOf
    <2> QED BY <1>2, <1>5, <2>1, <2>2, <2>5, <2>6 DEF new
  <1>6. CASE ~Absent(s, P) /\ s \notin Recovered(P)
    <2>1. s \notin Stale(P)
      BY <1>6 DEF Stale
    <2>2. CASE Promoted(s, P)
      <3>1. new = [rows[s] EXCEPT !.state = "POSITION_OPEN"]
        BY <1>6, <2>2 DEF ReconcileRow, Absent, Recovered, Promoted, Linked
      <3>2. new \in Row /\ new.state = "POSITION_OPEN" /\ new.applied = rows[s].applied
            /\ new.priced = rows[s].priced /\ new.ticket = rows[s].ticket
        BY <1>1, <3>1 DEF Row, State, OpenStates
      <3>3. rows[s].state # "RISK_RELEASED"
        BY <1>2, <2>2 DEF Promoted
      <3>4. RowOK(new)
        BY <3>2 DEF RowOK
      <3> HIDE DEF new
      <3>5. StageOf(new) = StageOf(rows[s])
        BY <3>2, <3>3 DEF StageOf
      <3> QED BY <1>6, <2>1, <3>3, <3>4, <3>5 DEF new
    <2>3. CASE ~Promoted(s, P) /\ Linked(s, P)
      <3>1. new = [rows[s] EXCEPT !.state = "POSITION_OPEN", !.ticket = TRUE]
        BY <1>6, <2>3 DEF ReconcileRow, Absent, Recovered, Promoted, Linked
      <3>2. new \in Row /\ new.state = "POSITION_OPEN" /\ new.applied = rows[s].applied
            /\ new.priced = rows[s].priced /\ new.ticket = TRUE
        BY <1>1, <3>1 DEF Row, State, OpenStates
      <3>3. rows[s].state # "RISK_RELEASED" /\ rows[s].priced
        BY <2>3 DEF Linked
      <3>4. RowOK(new)
        BY <3>2, <3>3 DEF RowOK
      <3> HIDE DEF new
      <3>5. StageOf(new) = StageOf(rows[s])
        BY <3>2, <3>3 DEF StageOf
      <3> QED BY <1>6, <2>1, <3>3, <3>4, <3>5 DEF new
    <2>4. CASE ~Promoted(s, P) /\ ~Linked(s, P)
      <3>1. new = rows[s]
        BY <1>6, <2>4 DEF ReconcileRow, Absent, Recovered, Promoted, Linked
      <3> QED BY <1>6, <2>1, <3>1
    <2> QED BY <2>2, <2>3, <2>4
  <1>7. s \in Recovered(P) => ~Absent(s, P)
    BY DEF Recovered, Absent
  <1> QED BY <1>3, <1>4, <1>5, <1>6, <1>7

-----------------------------------------------------------------------------
(* Types and rows. *)

\* The floored difference is a natural number.
LEMMA LessType == ASSUME NEW a \in Nat, NEW b \in Nat PROVE Less(a, b) \in Nat
  BY DEF Less

\* Sums of risks are natural numbers.
LEMMA RiskSumType == ASSUME NEW S \in SUBSET Signals PROVE RiskSum(S) \in Nat
  <1>1. IsFiniteSet(S) /\ \A x \in S : RiskOf[x] \in Nat
    BY LifecycleAssumption, FS_Subset
  <1> QED BY <1>1, SumType DEF RiskSum

\* The invariant holds of an account without rows.
LEMMA InitLifecycleInv == Init => LifecycleInv
  <1> SUFFICES ASSUME Init PROVE LifecycleInv
    OBVIOUS
  <1>1. NoRow \in Row /\ NoRow.applied = "null"
    BY DEF NoRow, Row, State
  <1>2. RowsOK
    BY <1>1 DEF Init, RowsOK, RowOK
  <1>3. TypeOK
    BY <1>1 DEF Init, BrokerState, TypeOK
  <1> QED BY <1>2, <1>3 DEF LifecycleInv

\* Every endpoint and every move of the broker keeps the invariant.
LEMMA LifecycleInvStep == LifecycleInv /\ [Next]_lifecycleVars => LifecycleInv'
  <1> SUFFICES ASSUME LifecycleInv, [Next]_lifecycleVars PROVE LifecycleInv'
    OBVIOUS
  <1> USE DEF LifecycleInv
  <1>1. ASSUME \A s \in Signals : RowOK(rows'[s]), rows' \in [Signals -> Row], openRisk' \in Nat,
               answered' \subseteq Signals,
               \/ UNCHANGED <<broker, reports>>
               \/ /\ broker' \in [Signals -> BrokerState]
                  /\ reports' \in SUBSET SUBSET Signals
        PROVE  LifecycleInv'
    BY <1>1 DEF TypeOK, RowsOK
  <1>2. ASSUME NEW s \in Signals, Fill(s) \/ BrokerClose(s) \/ BrokerClosesOne(s) PROVE LifecycleInv'
    BY <1>2 DEF Fill, BrokerClose, BrokerClosesOne, BrokerState, TypeOK, RowsOK
  <1>3. ASSUME TakeSnapshot PROVE LifecycleInv'
    BY <1>3 DEF TakeSnapshot, In, TypeOK, RowsOK
  <1>4. ASSUME NEW P \in reports, LoseSnapshot(P) PROVE LifecycleInv'
    BY <1>4 DEF LoseSnapshot, TypeOK, RowsOK
  <1>5. ASSUME NEW s \in Signals, NEW ok \in BOOLEAN, NEW ticket \in BOOLEAN,
               NEW priced \in BOOLEAN, NEW portfolio \in Portfolio,
               AckLifecycle(s, ok, ticket, priced, portfolio)
        PROVE  LifecycleInv'
    <2> DEFINE new    == OnAck(rows[s], ok, ticket, priced)
               record == ~Settled(rows[s]) /\ ok /\ ticket /\ priced /\ portfolio
               put    == IF record THEN [new EXCEPT !.applied = "true"] ELSE new
    <2>1. RowOK(rows[s])
      BY DEF RowsOK
    <2>2. RowOK(put)
      BY <2>1, OnAckRow
    <2>3. rows' = [rows EXCEPT ![s] = put] /\ openRisk' = IF record THEN openRisk + RiskOf[s] ELSE openRisk
      BY <1>5 DEF AckLifecycle, BookAck
    <2> HIDE DEF put, record
    <2>4. put \in Row
      BY <2>2 DEF RowOK
    <2>5. rows' \in [Signals -> Row] /\ \A t \in Signals : RowOK(rows'[t])
      BY <2>2, <2>3, <2>4 DEF TypeOK, RowsOK
    <2>6. openRisk' \in Nat
      <3>1. openRisk \in Nat /\ RiskOf[s] \in Nat
        BY LifecycleAssumption DEF TypeOK
      <3> QED BY <2>3, <3>1
    <2> QED BY <1>1, <1>5, <2>5, <2>6 DEF AckLifecycle, BookAck, TypeOK
  <1>6. ASSUME NEW S \in SUBSET Signals, AckLifecycleLost(S) PROVE LifecycleInv'
    BY <1>6 DEF AckLifecycleLost, TypeOK, RowsOK
  <1>7. ASSUME NEW s \in Signals, NEW portfolio \in Portfolio, PositionClosed(s, portfolio)
        PROVE  LifecycleInv'
    <2>1. RowOK(OnClose(s)) /\ OnClose(s) \in Row
      BY OnCloseRow DEF RowsOK, RowOK
    <2>2. rows' \in [Signals -> Row] /\ \A t \in Signals : RowOK(rows'[t])
      BY <1>7, <2>1 DEF PositionClosed, TypeOK, RowsOK
    <2>3. Amount(s) \in Nat
      BY LifecycleAssumption DEF Amount
    <2>4. openRisk' \in Nat
      BY <1>7, <2>3, LessType DEF PositionClosed, TypeOK
    <2> QED BY <1>1, <1>7, <2>2, <2>4 DEF PositionClosed, TypeOK
  <1>8. ASSUME NEW P \in reports, NEW portfolio \in Portfolio, ReconcilePositions(P, portfolio)
        PROVE  LifecycleInv'
    <2>1. \A s \in Signals : RowOK(ReconcileRow(s, P)) /\ ReconcileRow(s, P) \in Row
      BY ReconciledRow DEF RowsOK, RowOK
    <2>2. rows' \in [Signals -> Row] /\ \A t \in Signals : RowOK(rows'[t])
      BY <1>8, <2>1 DEF ReconcilePositions
    <2>3. Stale(P) \subseteq Signals /\ Recovered(P) \subseteq Signals
      BY DEF Stale, Recovered, TypeOK
    <2>4. openRisk' \in Nat
      <3>1. RiskSum(Stale(P)) \in Nat /\ RiskSum(Recovered(P)) \in Nat /\ openRisk \in Nat
        BY <2>3, RiskSumType DEF TypeOK
      <3>2. Less(openRisk, RiskSum(Stale(P))) \in Nat
        BY <3>1, LessType
      <3> QED BY <1>8, <3>1, <3>2 DEF ReconcilePositions
    <2> QED BY <1>1, <1>8, <2>2, <2>4 DEF ReconcilePositions, TypeOK
  <1>9. CASE UNCHANGED lifecycleVars
    BY <1>9 DEF lifecycleVars, TypeOK, RowsOK
  <1> QED BY <1>2, <1>3, <1>4, <1>5, <1>6, <1>7, <1>8, <1>9 DEF Next

\* The invariant holds in every state.
LEMMA LifecycleInvariant == Spec => []LifecycleInv
  BY InitLifecycleInv, LifecycleInvStep, PTL DEF Spec

\* Every state of the rows, the account's total and the requests has its type.
THEOREM LifecycleTyping == Spec => []TypeOK
  BY LifecycleInvariant, PTL DEF LifecycleInv

\* on_ack and reconcile leave no row that was applied without the ticket, the
\* amount or the state on_close and reconcile need to give the risk back.
THEOREM AppliedRisksAreReleasable == Spec => []AppliedRowsCanBeReleased
  <1>1. LifecycleInv => AppliedRowsCanBeReleased
    BY DEF LifecycleInv, RowsOK, RowOK, AppliedRowsCanBeReleased
  <1> QED BY LifecycleInvariant, <1>1, PTL

\* No acknowledgement, close or reconciliation reopens a released row.
THEOREM ReleasedRowsAreFinal == Spec => ReleasedIsFinal
  <1>1. ASSUME LifecycleInv, [Next]_lifecycleVars, NEW s \in Signals,
               rows[s].state = "RISK_RELEASED"
        PROVE  rows'[s].state = "RISK_RELEASED"
    <2>1. RowOK(rows[s])
      BY <1>1 DEF LifecycleInv, RowsOK
    <2>2. ASSUME NEW t \in Signals, NEW ok \in BOOLEAN, NEW ticket \in BOOLEAN,
                 NEW priced \in BOOLEAN, NEW portfolio \in Portfolio,
                 AckLifecycle(t, ok, ticket, priced, portfolio)
          PROVE  rows'[s] = rows[s]
      <3>1. CASE s = t
        <4>1. Settled(rows[s])
          BY <1>1 DEF Settled
        <4>2. OnAck(rows[s], ok, ticket, priced) = rows[s]
          BY <1>1, <2>1, OnAckRow
        <4> QED BY <1>1, <2>2, <3>1, <4>1, <4>2 DEF AckLifecycle, BookAck, LifecycleInv, TypeOK
      <3>2. CASE s # t
        BY <1>1, <2>2, <3>2 DEF AckLifecycle, BookAck, LifecycleInv, TypeOK
      <3> QED BY <3>1, <3>2
    <2>3. ASSUME NEW t \in Signals, NEW portfolio \in Portfolio, PositionClosed(t, portfolio)
          PROVE  rows'[s] = rows[s]
      <3>1. OnClose(s) = rows[s]
        BY <1>1, <2>1, OnCloseRow
      <3> QED BY <1>1, <2>3, <3>1 DEF PositionClosed, LifecycleInv, TypeOK
    <2>4. ASSUME NEW P \in reports, NEW portfolio \in Portfolio, ReconcilePositions(P, portfolio)
          PROVE  rows'[s] = rows[s]
      <3>1. ReconcileRow(s, P) = rows[s]
        BY <1>1, <2>1, ReconciledRow
      <3> QED BY <2>4, <3>1 DEF ReconcilePositions
    <2>5. rows' = rows \/ \E t \in Signals :
            \/ \E ok, ticket, priced \in BOOLEAN, portfolio \in Portfolio :
                  AckLifecycle(t, ok, ticket, priced, portfolio)
            \/ \E portfolio \in Portfolio : PositionClosed(t, portfolio)
          \/ \E P \in reports, portfolio \in Portfolio : ReconcilePositions(P, portfolio)
      BY <1>1 DEF Next, lifecycleVars, Fill, BrokerClose, BrokerClosesOne, TakeSnapshot, LoseSnapshot, AckLifecycleLost
    <2> QED BY <1>1, <2>2, <2>3, <2>4, <2>5
  <1>2. LifecycleInv /\ [Next]_lifecycleVars =>
          [\A s \in Signals :
             rows[s].state = "RISK_RELEASED" => rows'[s].state = "RISK_RELEASED"]_lifecycleVars
    BY <1>1
  <1> QED BY LifecycleInvariant, <1>2, PTL DEF Spec, ReleasedIsFinal

-----------------------------------------------------------------------------
(* The ledger: what a step adds and what it takes off. *)

Entering == {s \in Signals : StageOf(rows[s]) = "uncounted" /\ StageOf(rows[s])' = "counted"}
Leaving  == {s \in Signals : StageOf(rows[s]) = "counted" /\ StageOf(rows[s])' = "over"}

\* A stage never goes back.
Forward ==
    \A s \in Signals :
        /\ StageOf(rows[s]) = "counted" => StageOf(rows[s])' # "uncounted"
        /\ StageOf(rows[s]) = "over" => StageOf(rows[s])' = "over"

\* The total follows; what leaves may stay in it only without the portfolio service.
Booked ==
    \E out \in {0, RiskSum(Leaving)} :
        /\ openRisk' = Less(openRisk, out) + RiskSum(Entering)
        /\ Portfolio = {TRUE} => out = RiskSum(Leaving)

\* Nothing is at risk where there is no signal.
LEMMA RiskSumEmpty == RiskSum({}) = 0
  BY SumEmpty DEF RiskSum

\* The risk of one signal.
LEMMA RiskSumSingle == ASSUME NEW s \in Signals PROVE RiskSum({s}) = RiskOf[s]
  <1>1. IsFiniteSet({s}) /\ \A x \in {s} : RiskOf[x] \in Nat
    BY LifecycleAssumption, FS_Singleton
  <1>2. SumFunctionOnSet(RiskOf, {s}) = RiskOf[s] + SumFunctionOnSet(RiskOf, {s} \ {s})
    BY <1>1, SumRemove
  <1>3. {s} \ {s} = {}
    OBVIOUS
  <1> QED BY <1>1, <1>2, <1>3, SumEmpty DEF RiskSum

\* A step that moves no row leaves the total alone.
LEMMA NothingBooked ==
    ASSUME openRisk \in Nat, openRisk' = openRisk,
           \A s \in Signals : \/ StageOf(rows[s])' = StageOf(rows[s])
                              \/ StageOf(rows[s]) = "uncounted" /\ StageOf(rows[s])' = "over"
    PROVE  Forward /\ Booked
  <1>1. Entering = {} /\ Leaving = {}
    BY DEF Entering, Leaving
  <1>2. openRisk' = Less(openRisk, 0) + 0
    BY DEF Less
  <1>3. Booked
    BY <1>1, <1>2, RiskSumEmpty DEF Booked
  <1> QED BY <1>3 DEF Forward

\* Every step books what it moves, whether the portfolio service is there or not.
LEMMA LedgerStep == LifecycleInv /\ [Next]_lifecycleVars => Forward /\ Booked
  <1> SUFFICES ASSUME LifecycleInv, [Next]_lifecycleVars PROVE Forward /\ Booked
    OBVIOUS
  <1>1. openRisk \in Nat /\ rows \in [Signals -> Row] /\ \A s \in Signals : RowOK(rows[s])
    BY DEF LifecycleInv, TypeOK, RowsOK
  <1>2. CASE UNCHANGED <<rows, openRisk>>
    BY <1>1, <1>2, NothingBooked DEF StageOf
  <1>3. ASSUME NEW s \in Signals, NEW ok \in BOOLEAN, NEW ticket \in BOOLEAN,
               NEW priced \in BOOLEAN, NEW portfolio \in Portfolio,
               AckLifecycle(s, ok, ticket, priced, portfolio)
        PROVE  Forward /\ Booked
    <2> DEFINE new    == OnAck(rows[s], ok, ticket, priced)
               record == ~Settled(rows[s]) /\ ok /\ ticket /\ priced /\ portfolio
    <2>1. /\ rows' = [rows EXCEPT ![s] = IF record THEN [new EXCEPT !.applied = "true"] ELSE new]
          /\ openRisk' = IF record THEN openRisk + RiskOf[s] ELSE openRisk
      BY <1>3 DEF AckLifecycle, BookAck
    <2>2. \A t \in Signals : t # s => StageOf(rows[t])' = StageOf(rows[t])
      BY <1>1, <2>1 DEF StageOf
    <2>3. CASE ~record
      <3>1. rows'[s] = new
        BY <1>1, <2>1, <2>3
      <3>2. StageOf(new) = StageOf(rows[s])
        BY <1>1, OnAckRow
      <3>3. StageOf(rows[s])' = StageOf(rows[s])
        BY <3>1, <3>2 DEF StageOf
      <3>4. openRisk' = openRisk
        BY <2>1, <2>3
      <3> QED BY <1>1, <2>2, <3>3, <3>4, NothingBooked
    <2>4. CASE record
      <3> DEFINE put == [new EXCEPT !.applied = "true"]
      <3>1. rows'[s] = put
        BY <1>1, <2>1, <2>4
      <3>2. StageOf(rows[s]) = "uncounted" /\ StageOf(put) = "counted"
        BY <1>1, <2>4, OnAckRow
      <3>3. StageOf(rows[s])' = "counted"
        BY <3>1, <3>2 DEF StageOf
      <3>4. Entering = {s} /\ Leaving = {}
        BY <2>2, <3>2, <3>3 DEF Entering, Leaving
      <3>5. RiskSum(Entering) = RiskOf[s] /\ RiskSum(Leaving) = 0
        BY <3>4, RiskSumEmpty, RiskSumSingle
      <3>6. openRisk' = Less(openRisk, 0) + RiskOf[s]
        BY <1>1, <2>1, <2>4 DEF Less
      <3>7. Booked
        BY <3>5, <3>6 DEF Booked
      <3>8. Forward
        BY <2>2, <3>2, <3>3 DEF Forward
      <3> QED BY <3>7, <3>8
    <2> QED BY <2>3, <2>4
  <1>4. ASSUME NEW s \in Signals, NEW portfolio \in Portfolio, PositionClosed(s, portfolio)
        PROVE  Forward /\ Booked
    <2>1. /\ rows' = [rows EXCEPT ![s] = OnClose(s)]
          /\ openRisk' = IF ReleasesOnClose(s) /\ portfolio
                         THEN Less(openRisk, Amount(s)) ELSE openRisk
      BY <1>4 DEF PositionClosed
    <2>2. \A t \in Signals : t # s => StageOf(rows[t])' = StageOf(rows[t])
      BY <1>1, <2>1 DEF StageOf
    <2>3. rows'[s] = OnClose(s)
      BY <1>1, <2>1
    <2>4. StageOf(rows[s])' = StageOf(OnClose(s))
      BY <2>3 DEF StageOf
    <2>5. CASE ~ReleasesOnClose(s)
      <3>1. StageOf(rows[s])' = StageOf(rows[s])
        BY <1>1, <2>4, <2>5, OnCloseRow
      <3> QED BY <1>1, <2>1, <2>2, <2>5, <3>1, NothingBooked
    <2>6. CASE ReleasesOnClose(s) /\ StageOf(rows[s]) = "uncounted"
      <3>1. StageOf(rows[s])' = "over" /\ Amount(s) = 0
        BY <1>1, <2>4, <2>6, OnCloseRow
      <3>2. openRisk' = openRisk
        BY <1>1, <2>1, <3>1 DEF Less
      <3> QED BY <1>1, <2>2, <2>6, <3>1, <3>2, NothingBooked
    <2>7. CASE ReleasesOnClose(s) /\ StageOf(rows[s]) = "counted"
      <3>1. StageOf(rows[s])' = "over" /\ Amount(s) = RiskOf[s]
        BY <1>1, <2>4, <2>7, OnCloseRow
      <3>2. Entering = {} /\ Leaving = {s}
        BY <2>2, <2>7, <3>1 DEF Entering, Leaving
      <3>3. RiskSum(Entering) = 0 /\ RiskSum(Leaving) = RiskOf[s]
        BY <3>2, RiskSumEmpty, RiskSumSingle
      <3>4. RiskOf[s] \in Nat
        BY LifecycleAssumption
      <3>5. openRisk' = Less(openRisk, IF portfolio THEN RiskOf[s] ELSE 0) + 0
        BY <1>1, <2>1, <2>7, <3>1, <3>4 DEF Less
      <3>6. Portfolio = {TRUE} => portfolio
        OBVIOUS
      <3>7. Booked
        BY <3>3, <3>5, <3>6 DEF Booked
      <3>8. Forward
        BY <2>2, <2>7, <3>1 DEF Forward
      <3> QED BY <3>7, <3>8
    <2> QED BY <1>1, <2>5, <2>6, <2>7, OnCloseRow
  <1>5. ASSUME NEW P \in reports, NEW portfolio \in Portfolio, ReconcilePositions(P, portfolio)
        PROVE  Forward /\ Booked
    <2>1. \A s \in Signals : rows'[s] = ReconcileRow(s, P)
      BY <1>5 DEF ReconcilePositions
    <2>2. \A s \in Signals : StageOf(rows[s])' = StageOf(ReconcileRow(s, P))
      BY <2>1 DEF StageOf
    <2>3. /\ \A s \in Stale(P) : StageOf(rows[s]) = "counted" /\ StageOf(rows[s])' = "over"
          /\ \A s \in Recovered(P) : StageOf(rows[s]) = "uncounted" /\ StageOf(rows[s])' = "counted"
          /\ \A s \in Signals : s \notin Stale(P) /\ s \notin Recovered(P) =>
                \/ StageOf(rows[s])' = StageOf(rows[s])
                \/ StageOf(rows[s]) = "uncounted" /\ StageOf(rows[s])' = "over"
      <3>1. Stale(P) \subseteq Signals /\ Recovered(P) \subseteq Signals
        BY DEF Stale, Recovered, LifecycleInv, TypeOK
      <3> QED BY <1>1, <2>2, <3>1, ReconciledRow
    <2>4. Leaving = Stale(P) /\ Entering = Recovered(P)
      <3>1. Stale(P) \subseteq Signals /\ Recovered(P) \subseteq Signals
        BY DEF Stale, Recovered, LifecycleInv, TypeOK
      <3> QED BY <2>3, <3>1 DEF Leaving, Entering
    <2>5. Forward
      <3>1. Stale(P) \subseteq Signals /\ Recovered(P) \subseteq Signals
        BY DEF Stale, Recovered, LifecycleInv, TypeOK
      <3> QED BY <2>3, <3>1 DEF Forward
    <2>6. Portfolio = {TRUE} => portfolio
      OBVIOUS
    <2>7. CASE portfolio
      <3>1. openRisk' = Less(openRisk, RiskSum(Leaving)) + RiskSum(Entering)
        BY <1>5, <2>4, <2>7 DEF ReconcilePositions
      <3>2. Booked
        BY <3>1 DEF Booked
      <3> QED BY <2>5, <3>2
    <2>8. CASE ~portfolio
      <3>1. openRisk' = openRisk /\ Entering = {}
        BY <1>5, <2>4, <2>8 DEF ReconcilePositions
      <3>2. openRisk' = Less(openRisk, 0) + RiskSum(Entering)
        BY <1>1, <3>1, RiskSumEmpty DEF Less
      <3>3. Booked
        BY <2>6, <2>8, <3>2 DEF Booked
      <3> QED BY <2>5, <3>3
    <2> QED BY <2>7, <2>8, LifecycleAssumption
  <1> QED BY <1>2, <1>3, <1>4, <1>5
          DEF Next, lifecycleVars, Fill, BrokerClose, BrokerClosesOne, TakeSnapshot, LoseSnapshot, AckLifecycleLost

\* Where every request finds the portfolio service, the lifecycle implements the
\* abstract ledger: risk is added at most once and released at most once.
THEOREM LifecycleImplementsLedger ==
    ASSUME Portfolio = {TRUE} PROVE Spec => LedgerRefined
  <1>1. Init => Ledger!Init
    BY DEF Init, Ledger!Init, NoRow, StageOf
  <1>2. LifecycleInv /\ [Next]_lifecycleVars => Ledger!Next
    <2> SUFFICES ASSUME LifecycleInv, [Next]_lifecycleVars PROVE Ledger!Next
      OBVIOUS
    <2>1. Forward /\ Booked
      BY LedgerStep
    <2>2. Ledger!Moved("counted", "over") = Leaving /\ Ledger!Moved("uncounted", "counted") = Entering
      BY DEF Ledger!Moved, Leaving, Entering
    <2>3. openRisk' = Ledger!Less(openRisk, Ledger!RiskSum(Ledger!Moved("counted", "over")))
                        + Ledger!RiskSum(Ledger!Moved("uncounted", "counted"))
      <3>1. openRisk' = Less(openRisk, RiskSum(Leaving)) + RiskSum(Entering)
        BY <2>1 DEF Booked
      <3>2. \A S : Ledger!RiskSum(S) = RiskSum(S)
        BY DEF Ledger!RiskSum, RiskSum, Ledger!SumFunctionOnSet, SumFunctionOnSet,
               Ledger!FoldFunctionOnSet, FoldFunctionOnSet,
               Ledger!MapThenFoldSet, MapThenFoldSet
      <3>3. \A a, b : Ledger!Less(a, b) = Less(a, b)
        BY DEF Ledger!Less, Less
      <3> QED BY <2>2, <3>1, <3>2, <3>3
    <2>4. \A s \in Signals : StageOf(rows[s])' \in Ledger!Stage
      BY DEF StageOf, Ledger!Stage
    <2> QED BY <2>1, <2>3, <2>4 DEF Forward, Ledger!Next
  <1> QED BY LifecycleInvariant, <1>1, <1>2, PTL DEF Spec, LedgerRefined, Ledger!Spec

-----------------------------------------------------------------------------
(* The books. *)

CountedNow == {s \in Signals : Counted(s)}

\* Counted rows are those at the ledger's stage of that name.
LEMMA CountedIsStage == \A s \in Signals : Counted(s) <=> StageOf(rows[s]) = "counted"
  BY DEF Counted, StageOf

\* How a step changes the sum over the counted rows.
LEMMA CountedStep ==
    ASSUME LifecycleInv, [Next]_lifecycleVars
    PROVE  /\ RiskSum(CountedNow) \in Nat /\ RiskSum(Leaving) \in Nat /\ RiskSum(Entering) \in Nat
           /\ RiskSum(Leaving) <= RiskSum(CountedNow)
           /\ RiskSum(CountedNow)' = (RiskSum(CountedNow) - RiskSum(Leaving)) + RiskSum(Entering)
  <1> DEFINE kept == CountedNow \ Leaving
  <1>1. Forward
    BY LedgerStep
  <1>2. \A s \in Signals : (Counted(s) <=> StageOf(rows[s]) = "counted")
                        /\ (Counted(s)' <=> StageOf(rows[s])' = "counted")
    BY DEF Counted, StageOf
  <1>3. CountedNow \in SUBSET Signals /\ Leaving \in SUBSET Signals /\ Entering \in SUBSET Signals
    BY DEF CountedNow, Leaving, Entering
  <1>4. Leaving \subseteq CountedNow
    BY <1>2 DEF CountedNow, Leaving
  <1>5. CountedNow = Leaving \cup kept /\ Leaving \cap kept = {} /\ kept \in SUBSET Signals
    BY <1>3, <1>4
  <1>6. CountedNow' = kept \cup Entering /\ kept \cap Entering = {}
    <2>1. \A s \in Signals : StageOf(rows[s])' \in {"uncounted", "counted", "over"}
                          /\ StageOf(rows[s]) \in {"uncounted", "counted", "over"}
      BY StageType DEF StageOf
    <2> QED BY <1>1, <1>2, <2>1 DEF CountedNow, Leaving, Entering, Forward
  <1>7. \A x \in Signals : RiskOf[x] \in Nat
    BY LifecycleAssumption
  <1> HIDE DEF kept
  <1>8. RiskSum(CountedNow) = RiskSum(Leaving) + RiskSum(kept)
    BY <1>3, <1>5, <1>7, LifecycleAssumption, SumDisjointUnion DEF RiskSum
  <1>9. RiskSum(kept \cup Entering) = RiskSum(kept) + RiskSum(Entering)
    BY <1>3, <1>5, <1>6, <1>7, LifecycleAssumption, SumDisjointUnion DEF RiskSum
  <1>10. RiskSum(CountedNow)' = RiskSum(kept \cup Entering)
    BY <1>6 DEF RiskSum
  <1>11. RiskSum(Leaving) \in Nat /\ RiskSum(kept) \in Nat /\ RiskSum(Entering) \in Nat
         /\ RiskSum(CountedNow) \in Nat
    BY <1>3, <1>5, RiskSumType
  <1> QED BY <1>8, <1>9, <1>10, <1>11

\* open_risk_usd never understates the applied risk, with or without the
\* portfolio service.
THEOREM OpenRiskCoversRows == Spec => []OpenRiskIsNotUnderstated
  <1>1. Init => OpenRiskIsNotUnderstated
    <2> SUFFICES ASSUME Init PROVE OpenRiskIsNotUnderstated
      OBVIOUS
    <2>1. {s \in Signals : Counted(s)} = {}
      BY DEF Init, NoRow, Counted
    <2> QED BY <2>1, RiskSumEmpty DEF Init, OpenRiskIsNotUnderstated
  <1>2. LifecycleInv /\ OpenRiskIsNotUnderstated /\ [Next]_lifecycleVars => OpenRiskIsNotUnderstated'
    <2> SUFFICES ASSUME LifecycleInv, OpenRiskIsNotUnderstated, [Next]_lifecycleVars
                 PROVE  OpenRiskIsNotUnderstated'
      OBVIOUS
    <2>1. PICK out \in {0, RiskSum(Leaving)} : openRisk' = Less(openRisk, out) + RiskSum(Entering)
      BY LedgerStep DEF Booked
    <2>2. openRisk >= RiskSum(CountedNow) /\ openRisk \in Nat
      BY DEF OpenRiskIsNotUnderstated, CountedNow, LifecycleInv, TypeOK
    <2>3. openRisk' >= RiskSum(CountedNow)'
      BY <2>1, <2>2, CountedStep DEF Less
    <2> QED BY <2>3 DEF OpenRiskIsNotUnderstated, CountedNow
  <1> QED BY LifecycleInvariant, <1>1, <1>2, PTL DEF Spec

\* Where every request finds the portfolio service, open_risk_usd is exactly the
\* risk of the rows that were applied and not released.
THEOREM LedgerBalances == ASSUME Portfolio = {TRUE} PROVE Spec => []LedgerMatchesRows
  <1>1. Init => LedgerMatchesRows
    <2> SUFFICES ASSUME Init PROVE LedgerMatchesRows
      OBVIOUS
    <2>1. {s \in Signals : Counted(s)} = {}
      BY DEF Init, NoRow, Counted
    <2> QED BY <2>1, RiskSumEmpty DEF Init, LedgerMatchesRows
  <1>2. LifecycleInv /\ LedgerMatchesRows /\ [Next]_lifecycleVars => LedgerMatchesRows'
    <2> SUFFICES ASSUME LifecycleInv, LedgerMatchesRows, [Next]_lifecycleVars
                 PROVE  LedgerMatchesRows'
      OBVIOUS
    <2>1. openRisk' = Less(openRisk, RiskSum(Leaving)) + RiskSum(Entering)
      BY LedgerStep DEF Booked
    <2>2. openRisk = RiskSum(CountedNow)
      BY DEF LedgerMatchesRows, CountedNow
    <2>3. openRisk' = RiskSum(CountedNow)'
      BY <2>1, <2>2, CountedStep DEF Less
    <2> QED BY <2>3 DEF LedgerMatchesRows, CountedNow
  <1> QED BY LifecycleInvariant, <1>1, <1>2, PTL DEF Spec
=============================================================================
