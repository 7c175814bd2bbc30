---------------------- MODULE ExecutionPipeline_proofs ----------------------
(***************************************************************************)
(* Proofs about ExecutionPipeline, for any signals, requests and failures. *)
(* The theorems of ExecutionQueue_proofs are about that module's own       *)
(* operators; the prover does not carry theorems over an INSTANCE, so what *)
(* is needed of the queue here is established again for Queue's.           *)
(***************************************************************************)
EXTENDS ExecutionPipeline, TLAPS

\* The queue starts empty in the pipeline.
LEMMA InitQueue == Init => Queue!Init
  BY DEF Init

\* Every step of the pipeline is a step of the queue, or leaves it alone.
LEMMA QueueSimulated == [Next]_pipelineVars => [Queue!Next]_queueVars
  <1> SUFFICES ASSUME [Next]_pipelineVars PROVE [Queue!Next]_queueVars
    OBVIOUS
  <1> USE DEF Queue!Next, Queue!Enqueue, Queue!Poll
  <1>1. ASSUME NEW p \in Publishers, NEW s \in Signals, Publish(p, s) PROVE [Queue!Next]_queueVars
    BY <1>1 DEF Publish
  <1>2. ASSUME NEW p \in Publishers, PublishStep(p) PROVE [Queue!Next]_queueVars
    BY <1>2 DEF PublishStep
  <1>3. ASSUME NEW w \in Pollers, NEW K \in (SUBSET Slots) \ {{}}, StartPoll(w, K)
        PROVE [Queue!Next]_queueVars
    BY <1>3 DEF StartPoll
  <1>4. ASSUME NEW w \in Pollers, SelectForPoll(w) \/ ClaimForPoll(w) \/ FailPoll(w)
        PROVE [Queue!Next]_queueVars
    BY <1>4 DEF SelectForPoll, ClaimForPoll, FailPoll
  <1>5. ASSUME NEW s \in Signals, NEW h \in AckRequests, PostAck(s, h)
        PROVE [Queue!Next]_queueVars
    <2>1. Ok(terminal.outbox[s]) \in BOOLEAN /\ "none" \in Queue!Tokens
      BY DEF Ok, Queue!Tokens
    <2> QED BY <1>5, <2>1 DEF PostAck, DurableAck
  <1>6. ASSUME NEW s \in Signals,
               \/ DropSignal(s) \/ AnswerOnly(s) \/ GiveUp(s) \/ PruneCompleted(s)
               \/ \E n \in Executions : \/ \E v \in Verdict : FillSignal(s, v, n)
                                       \/ FillUnnoticed(s, n) \/ FillDenied(s, n)
        PROVE UNCHANGED queueVars
    BY <1>6 DEF DropSignal, AnswerOnly, FillUnnoticed, FillDenied, GiveUp, PruneCompleted, FillSignal
  <1>7. ASSUME NEW h \in AckRequests, MirrorAck(h) \/ BookAck(h) \/ BookAckFails(h)
        PROVE UNCHANGED queueVars
    BY <1>7 DEF MirrorAck, BookAck, BookAckFails
  <1>8. ASSUME (\E k \in Slots : DropStalePayload(k)) \/ TimeOut \/ AttemptFails
               \/ TerminalRestart \/ LifecycleAlone
        PROVE UNCHANGED queueVars
    BY <1>8 DEF DropStalePayload, TimeOut, AttemptFails, TerminalRestart, LifecycleAlone
  <1>9. ASSUME ServerRestart \/ QueueAlone PROVE [Queue!Next]_queueVars
    BY <1>9 DEF ServerRestart, QueueAlone
  <1>10. CASE UNCHANGED pipelineVars
    BY <1>10 DEF pipelineVars
  <1> QED BY <1>1, <1>2, <1>3, <1>4, <1>5, <1>6, <1>7, <1>8, <1>9, <1>10 DEF Next

\* Whatever the server, the terminal and the network do to each other, the queue
\* inside the pipeline behaves as ExecutionQueue says.
THEOREM PipelineImplementsQueue == Spec => Queue!Spec
  BY InitQueue, QueueSimulated, PTL DEF Spec, Queue!Spec, queueVars, Queue!queueVars

-----------------------------------------------------------------------------
(* What trading once needs of the queue. *)

\* A signal that is fresh, or carried by a publication in progress, has no row,
\* and no two publications carry the same one.
MintedOnce ==
    /\ \A s \in fresh : queue[s].status = "ABSENT"
    /\ \A p \in Publishers : pub[p].pc # "idle" =>
          /\ pub[p].sig \in Signals \ fresh
          /\ queue[pub[p].sig].status = "ABSENT"
          /\ \A q \in Publishers : pub[q].pc # "idle" /\ pub[q].sig = pub[p].sig => p = q

\* The signals that were never handed to the terminal.
Unhanded == {s \in Signals : queue[s].status \in {"ABSENT", "PENDING"}}

QueueInv == Queue!TypeOK /\ MintedOnce

\* A publisher and a poll that rest.
LEMMA IdleTyping == Queue!IdlePub \in Queue!PubState /\ Queue!IdlePoll \in Queue!PollState
  BY DEF Queue!IdlePub, Queue!IdlePoll, Queue!PubState, Queue!PollState

\* The invariant holds at the start.
LEMMA InitQueueInv == Queue!Init => QueueInv
  <1> SUFFICES ASSUME Queue!Init PROVE QueueInv
    OBVIOUS
  <1>1. Queue!NoRow \in Queue!Row
    BY DEF Queue!NoRow, Queue!Row, Queue!Status
  <1>2. Queue!TypeOK
    BY <1>1, IdleTyping DEF Queue!Init, Queue!TypeOK
  <1>3. MintedOnce
    BY DEF Queue!Init, MintedOnce, Queue!NoRow, Queue!IdlePub
  <1> QED BY <1>2, <1>3 DEF QueueInv

\* get_pending writes a row of the table's type, and hands the signal over or
\* leaves it unhandable.
LEMMA ClaimedRow ==
    ASSUME NEW s \in Signals, queue[s] \in Queue!Row, queue[s].status \in Queue!Active
    PROVE  /\ Queue!GetPendingRow(s) \in Queue!Row
           /\ Queue!GetPendingRow(s).status \notin {"ABSENT", "PENDING"}
  <1> USE DEF Queue!Row, Queue!Status, Queue!Active, Queue!InFlight, Queue!Terminal
  <1>1. CASE queue[s].status = "PENDING"
    <2>1. Queue!GetPendingRow(s) = [queue[s] EXCEPT !.status = "CLAIMED",
                                                    !.attempts = queue[s].attempts + 1]
      BY <1>1 DEF Queue!GetPendingRow
    <2>2. queue[s].attempts + 1 \in Nat
      OBVIOUS
    <2>3. \A n \in Nat : [queue[s] EXCEPT !.status = "CLAIMED", !.attempts = n] \in Queue!Row
      OBVIOUS
    <2>4. Queue!GetPendingRow(s).status = "CLAIMED"
      BY <2>1
    <2> QED BY <2>1, <2>2, <2>3, <2>4
  <1>2. CASE queue[s].status = "CLAIMED" /\ queue[s].overdue
    <2>1. Queue!GetPendingRow(s) = [queue[s] EXCEPT !.status = "SUBMISSION_UNCERTAIN"]
      BY <1>2 DEF Queue!GetPendingRow
    <2> QED BY <2>1
  <1>3. CASE queue[s].status # "PENDING" /\ ~(queue[s].status = "CLAIMED" /\ queue[s].overdue)
    <2>1. Queue!GetPendingRow(s) = queue[s]
      BY <1>3 DEF Queue!GetPendingRow
    <2> QED BY <2>1, <1>3
  <1> QED BY <1>1, <1>2, <1>3

\* One step of the queue keeps the types and the minting, and a signal that was
\* handed over is never on offer again.
LEMMA QueueStep ==
    QueueInv /\ [Queue!Next]_queueVars => QueueInv' /\ Unhanded' \subseteq Unhanded
  <1> SUFFICES ASSUME QueueInv, [Queue!Next]_queueVars
               PROVE  QueueInv' /\ Unhanded' \subseteq Unhanded
    OBVIOUS
  <1> USE PipelineAssumption, IdleTyping DEF QueueInv, Queue!TypeOK
  <1>1. ASSUME UNCHANGED <<queue, fresh, pub>>, clock' \in Nat, stop' \in BOOLEAN,
               poll' \in [Pollers -> Queue!PollState]
        PROVE  QueueInv' /\ Unhanded' \subseteq Unhanded
    BY <1>1 DEF MintedOnce, Unhanded
  <1>2. ASSUME UNCHANGED <<fresh, clock, stop, pub>>,
               poll' \in [Pollers -> Queue!PollState], queue' \in [Signals -> Queue!Row],
               \A s \in Signals :
                  \/ queue'[s] = queue[s]
                  \/ /\ queue[s].status # "ABSENT"
                     /\ queue'[s].status \notin {"ABSENT", "PENDING"}
        PROVE  QueueInv' /\ Unhanded' \subseteq Unhanded
    <2>1. MintedOnce'
      BY <1>2 DEF MintedOnce
    <2>2. Unhanded' \subseteq Unhanded
      BY <1>2 DEF Unhanded
    <2> QED BY <1>2, <2>1, <2>2
  <1>3. ASSUME NEW p \in Publishers, NEW s \in Signals,
               Queue!EnqueueRefused(p, s) \/ Queue!EnqueueCheck(p, s)
        PROVE  QueueInv' /\ Unhanded' \subseteq Unhanded
    <2>1. queue' = queue /\ fresh' = fresh \ {s} /\ s \in fresh /\ UNCHANGED <<clock, stop, poll>>
      BY <1>3 DEF Queue!EnqueueRefused, Queue!EnqueueCheck
    <2>2. CASE pub' = pub
      BY <2>1, <2>2 DEF MintedOnce, Unhanded
    <2>3. CASE Queue!EnqueueCheck(p, s)
      <3>1. pub' \in [Publishers -> Queue!PubState]
        BY <2>3 DEF Queue!EnqueueCheck, Queue!IdlePub, Queue!PubState
      <3>2. pub'[p].sig = s /\ \A q \in Publishers \ {p} : pub'[q] = pub[q]
        BY <2>3 DEF Queue!EnqueueCheck, Queue!IdlePub
      <3>3. \A q \in Publishers : pub[q].pc # "idle" => pub[q].sig # s
        BY <2>1 DEF MintedOnce
      <3>4. queue[s].status = "ABSENT"
        BY <2>1 DEF MintedOnce
      <3>5. MintedOnce'
        BY <2>1, <3>2, <3>3, <3>4 DEF MintedOnce
      <3> QED BY <2>1, <3>1, <3>5 DEF Unhanded
    <2> QED BY <1>3, <2>2, <2>3 DEF Queue!EnqueueRefused
  <1>4. ASSUME NEW p \in Publishers, Queue!EnqueueSelect(p)
        PROVE  QueueInv' /\ Unhanded' \subseteq Unhanded
    <2>1. Queue!ActiveIn(SlotOf[pub[p].sig]) \subseteq Signals
      BY DEF Queue!ActiveIn
    <2>2. pub' \in [Publishers -> Queue!PubState] /\ clock' \in Nat
      BY <1>4, <2>1 DEF Queue!EnqueueSelect, Queue!PubState
    <2>3. \A q \in Publishers : /\ pub'[q].sig = pub[q].sig
                                /\ pub'[q].pc # "idle" => pub[q].pc # "idle"
      BY <1>4 DEF Queue!EnqueueSelect
    <2>4. MintedOnce'
      <3> HIDE DEF Queue!TypeOK
      <3> QED BY <1>4, <2>3 DEF Queue!EnqueueSelect, MintedOnce
    <2> QED BY <1>4, <2>2, <2>4 DEF Queue!EnqueueSelect, Unhanded
  <1>5. ASSUME NEW p \in Publishers, Queue!EnqueueAbort(p)
        PROVE  QueueInv' /\ Unhanded' \subseteq Unhanded
    BY <1>5 DEF Queue!EnqueueAbort, Queue!IdlePub, MintedOnce, Unhanded
  <1>6. ASSUME NEW p \in Publishers, Queue!EnqueueCommit(p)
        PROVE  QueueInv' /\ Unhanded' \subseteq Unhanded
    <2> DEFINE sig == pub[p].sig
    <2>1. /\ sig \in Signals \ fresh /\ queue[sig].status = "ABSENT"
          /\ \A q \in Publishers \ {p} : pub[q].pc # "idle" => pub[q].sig # sig
      BY <1>6 DEF Queue!EnqueueCommit, MintedOnce
    <2>2. Queue!NewRow(p) \in Queue!Row
      BY DEF Queue!NewRow, Queue!NoRow, Queue!Row, Queue!Status, Queue!Active, Queue!PubState
    <2>3. ASSUME NEW s \in Signals
          PROVE  /\ queue'[s] \in Queue!Row
                 /\ queue'[s].status = "ABSENT" <=> queue[s].status = "ABSENT" /\ queue'[s] = queue[s]
                 /\ queue'[s] = queue[s] \/ s = sig \/ queue'[s].status = "EXPIRED"
      <3>1. CASE s \in Queue!Superseded(p)
        <4>1. queue'[s] = [queue[s] EXCEPT !.status = "EXPIRED"]
          BY <1>6, <3>1 DEF Queue!EnqueueCommit
        <4>2. queue[s].status = "PENDING"
          BY <3>1 DEF Queue!Superseded
        <4> QED BY <4>1, <4>2 DEF Queue!Row, Queue!Status, Queue!Terminal
      <3>2. CASE s \notin Queue!Superseded(p) /\ s = sig /\ Queue!Blockers(p) = {}
        <4>1. queue'[s] = Queue!NewRow(p)
          BY <1>6, <3>2 DEF Queue!EnqueueCommit
        <4>2. Queue!NewRow(p).status = "PENDING"
          BY DEF Queue!NewRow, Queue!NoRow
        <4> QED BY <2>2, <3>2, <4>1, <4>2
      <3>3. CASE s \notin Queue!Superseded(p) /\ ~(s = sig /\ Queue!Blockers(p) = {})
        <4>1. queue'[s] = queue[s]
          BY <1>6, <3>3 DEF Queue!EnqueueCommit
        <4> QED BY <4>1
      <3> QED BY <3>1, <3>2, <3>3
    <2>4. queue' \in [Signals -> Queue!Row]
      BY <1>6, <2>3 DEF Queue!EnqueueCommit
    <2>5. pub' \in [Publishers -> Queue!PubState] /\ pub'[p].pc = "idle"
          /\ \A q \in Publishers \ {p} : pub'[q].pc = pub[q].pc /\ pub'[q].sig = pub[q].sig
      <3>1. ASSUME NEW q \in Publishers \ {p}
            PROVE  /\ pub'[q] \in Queue!PubState
                   /\ pub'[q].pc = pub[q].pc /\ pub'[q].sig = pub[q].sig
        <4>1. \E late \in BOOLEAN : pub'[q] = [pub[q] EXCEPT !.raced = late]
          BY <1>6 DEF Queue!EnqueueCommit
        <4> QED BY <4>1 DEF Queue!PubState
      <3>2. pub'[p] = Queue!IdlePub /\ pub' = [q \in Publishers |-> pub'[q]]
        BY <1>6 DEF Queue!EnqueueCommit
      <3>3. \A q \in Publishers : pub'[q] \in Queue!PubState
        BY <3>1, <3>2
      <3>4. pub' \in [Publishers -> Queue!PubState]
        BY <3>2, <3>3
      <3> QED BY <3>1, <3>2, <3>4 DEF Queue!IdlePub
    <2>6. \A s \in Signals : queue[s].status = "ABSENT" /\ s # sig => queue'[s].status = "ABSENT"
      <3> SUFFICES ASSUME NEW s \in Signals, queue[s].status = "ABSENT", s # sig
                   PROVE  queue'[s].status = "ABSENT"
        OBVIOUS
      <3>1. s \notin Queue!Superseded(p)
        BY DEF Queue!Superseded
      <3> QED BY <1>6, <3>1 DEF Queue!EnqueueCommit
    <2>7. MintedOnce'
      <3> HIDE DEF Queue!TypeOK
      <3>1. fresh' = fresh /\ fresh \subseteq Signals
        BY <1>6 DEF Queue!EnqueueCommit, Queue!TypeOK
      <3> QED BY <2>1, <2>5, <2>6, <3>1 DEF MintedOnce
    <2>8. Unhanded' \subseteq Unhanded
      BY <2>1, <2>3 DEF Unhanded
    <2> QED BY <1>6, <2>4, <2>5, <2>7, <2>8 DEF Queue!EnqueueCommit
  <1>7. ASSUME NEW w \in Pollers,
               \/ \E K \in (SUBSET Slots) \ {{}} : Queue!PollCheck(w, K)
               \/ Queue!PollSelect(w) \/ Queue!PollAbort(w)
        PROVE  QueueInv' /\ Unhanded' \subseteq Unhanded
    <2>1. {s \in Signals : SlotOf[s] \in poll[w].slots /\ Queue!IsNewest(s)} \subseteq Signals
      OBVIOUS
    <2>2. poll' \in [Pollers -> Queue!PollState]
      <3>1. ASSUME NEW K \in (SUBSET Slots) \ {{}}, Queue!PollCheck(w, K)
            PROVE  poll' \in [Pollers -> Queue!PollState]
        BY <3>1 DEF Queue!PollCheck, Queue!IdlePoll, Queue!PollState
      <3>2. CASE Queue!PollSelect(w)
        BY <2>1, <3>2 DEF Queue!PollSelect, Queue!PollState
      <3>3. CASE Queue!PollAbort(w)
        BY <3>3 DEF Queue!PollAbort
      <3> QED BY <1>7, <3>1, <3>2, <3>3
    <2> QED BY <1>1, <1>7, <2>2 DEF Queue!PollCheck, Queue!PollSelect, Queue!PollAbort
  <1>8. ASSUME NEW w \in Pollers, Queue!PollClaim(w)
        PROVE  QueueInv' /\ Unhanded' \subseteq Unhanded
    <2>1. ASSUME NEW s \in Signals
          PROVE  /\ queue'[s] \in Queue!Row
                 /\ \/ queue'[s] = queue[s]
                    \/ /\ queue[s].status # "ABSENT"
                       /\ queue'[s].status \notin {"ABSENT", "PENDING"}
      <3>1. CASE s \in Queue!Seized(w)
        <4>1. queue[s].status \in Queue!Active /\ queue[s].status # "ABSENT"
          BY <3>1 DEF Queue!Seized, Queue!Active, Queue!InFlight
        <4> QED BY <1>8, <3>1, <4>1, ClaimedRow DEF Queue!PollClaim
      <3>2. CASE s \notin Queue!Seized(w)
        BY <1>8, <3>2 DEF Queue!PollClaim
      <3> QED BY <3>1, <3>2
    <2>2. queue' \in [Signals -> Queue!Row] /\ poll' \in [Pollers -> Queue!PollState]
      BY <1>8, <2>1 DEF Queue!PollClaim
    <2> QED BY <1>2, <1>8, <2>1, <2>2 DEF Queue!PollClaim
  <1>9. ASSUME NEW t \in Signals, NEW ok \in BOOLEAN, NEW token \in Queue!Tokens,
               Queue!Ack(t, ok, token)
        PROVE  QueueInv' /\ Unhanded' \subseteq Unhanded
    <2>1. queue[t].status # "ABSENT"
      BY <1>9 DEF Queue!Ack, Queue!AckTakesEffect, Queue!Active, Queue!InFlight
    <2>2. queue' \in [Signals -> Queue!Row] /\ queue'[t].status \in {"ACKED", "REJECTED"}
      BY <1>9 DEF Queue!Ack, Queue!Row, Queue!Status, Queue!Terminal
    <2>3. \A s \in Signals \ {t} : queue'[s] = queue[s]
      BY <1>9 DEF Queue!Ack
    <2> QED BY <1>2, <1>9, <2>1, <2>2, <2>3 DEF Queue!Ack
  <1>10. ASSUME NEW t \in Signals, Queue!LeaseRunsOut(t)
         PROVE  QueueInv' /\ Unhanded' \subseteq Unhanded
    <2>1. queue' \in [Signals -> Queue!Row] /\ queue'[t].status = "CLAIMED"
      BY <1>10 DEF Queue!LeaseRunsOut, Queue!Row
    <2>2. \A s \in Signals \ {t} : queue'[s] = queue[s]
      BY <1>10 DEF Queue!LeaseRunsOut
    <2> QED BY <1>2, <1>10, <2>1, <2>2 DEF Queue!LeaseRunsOut
  <1>11. ASSUME NEW enabled \in BOOLEAN, Queue!SetEmergencyStop(enabled)
         PROVE  QueueInv' /\ Unhanded' \subseteq Unhanded
    BY <1>1, <1>11 DEF Queue!SetEmergencyStop
  <1>12. CASE Queue!ServerRestart
    BY <1>12 DEF Queue!ServerRestart, Queue!IdlePub, MintedOnce, Unhanded
  <1>13. CASE UNCHANGED queueVars
    BY <1>1, <1>13 DEF queueVars
  <1>14. \A t \in Signals : ~Queue!ClaimById(t)
    BY DEF Queue!ClaimById
  <1> QED BY <1>3, <1>4, <1>5, <1>6, <1>7, <1>8, <1>9, <1>10, <1>11, <1>12, <1>13, <1>14
          DEF Queue!Next, Queue!Enqueue, Queue!Poll

-----------------------------------------------------------------------------
(* One trade per signal. *)

\* A signal whose order may still be placed, because it is on its way to the
\* terminal or waits there, has none yet; what waits there is not on offer.
TradeInv ==
    /\ orders \in [Signals -> Trade]
    /\ TradedAtMostOnce
    /\ \A s \in Signals : orders[s].misjudged => orders[s].placed > 0
    /\ terminal \in Terminal
    /\ \A s \in Unhanded \cup terminal.received : orders[s] = NoTrade
    /\ Unhanded \cap terminal.received = {}

\* The invariant holds at the start.
LEMMA InitTradeInv == Init => TradeInv
  <1> SUFFICES ASSUME Init PROVE TradeInv
    OBVIOUS
  <1>1. StartedTerminal \in Terminal /\ StartedTerminal.received = {}
    BY DEF StartedTerminal, Terminal
  <1>2. NoTrade \in Trade /\ NoTrade.placed <= 1 + NoTrade.resent /\ NoTrade.placed <= FillModes
        /\ ~NoTrade.misjudged
    BY PipelineAssumption DEF NoTrade, Trade
  <1> QED BY <1>1, <1>2 DEF Init, TradeInv, TradedAtMostOnce, Unhanded

\* A step that gives the terminal nothing to trade, and places no order.
LEMMA IdleTrade ==
    ASSUME TradeInv, Unhanded' \subseteq Unhanded, orders' = orders,
           terminal' \in Terminal, terminal'.received \subseteq terminal.received
    PROVE  TradeInv'
  BY DEF TradeInv, TradedAtMostOnce

\* One call gets from one order to one per filling mode executed.
LEMMA FewExecutions ==
    ASSUME NEW n \in Executions
    PROVE  n \in Nat /\ 1 <= n /\ n <= FillModes
  BY PipelineAssumption DEF Executions

\* What a signal that was not traded looks like after the call that trades it.
LEMMA OpenedTrade ==
    ASSUME orders \in [Signals -> Trade], NEW s \in Signals, orders[s] = NoTrade,
           NEW n \in Executions, NEW m \in BOOLEAN, OpenPosition(s, n, m)
    PROVE  /\ orders' \in [Signals -> Trade]
           /\ orders'[s].placed = n /\ orders'[s].resent = n - 1 /\ orders'[s].misjudged = m
           /\ \A t \in Signals \ {s} : orders'[t] = orders[t]
  <1> DEFINE new == [placed |-> orders[s].placed + n, resent |-> orders[s].resent + (n - 1), misjudged |-> m]
  <1>1. new \in Trade /\ new.placed = n /\ new.resent = n - 1 /\ new.misjudged = m
    BY FewExecutions DEF NoTrade, Trade
  <1>2. orders' = [orders EXCEPT ![s] = new]
    BY DEF OpenPosition
  <1> HIDE DEF new
  <1>3. orders' \in [Signals -> Trade] /\ orders'[s] = new
        /\ \A t \in Signals \ {s} : orders'[t] = orders[t]
    BY <1>1, <1>2
  <1> QED BY <1>1, <1>3

\* A step that places the orders of a received signal.
LEMMA OrderTrade ==
    ASSUME TradeInv, Unhanded' \subseteq Unhanded, NEW s \in terminal.received,
           NEW n \in Executions, NEW m \in BOOLEAN, OpenPosition(s, n, m),
           terminal' \in Terminal, terminal'.received = terminal.received \ {s}
    PROVE  TradeInv'
  <1>1. s \in Signals /\ orders[s] = NoTrade /\ s \notin Unhanded
    BY DEF TradeInv, Terminal
  <1>2. /\ orders' \in [Signals -> Trade]
        /\ orders'[s].placed = n /\ orders'[s].resent = n - 1 /\ orders'[s].misjudged = m
        /\ \A t \in Signals \ {s} : orders'[t] = orders[t]
    BY <1>1, OpenedTrade DEF TradeInv
  <1>3. TradedAtMostOnce'
    <2> SUFFICES ASSUME NEW t \in Signals
                 PROVE  orders'[t].placed <= 1 + orders'[t].resent /\ orders'[t].placed <= FillModes
      BY DEF TradedAtMostOnce
    <2>1. CASE t = s
      BY <1>2, <2>1, FewExecutions
    <2>2. CASE t # s
      BY <1>2, <2>2 DEF TradeInv, TradedAtMostOnce
    <2> QED BY <2>1, <2>2
  <1>4. \A t \in Signals : orders'[t].misjudged => orders'[t].placed > 0
    <2> SUFFICES ASSUME NEW t \in Signals, orders'[t].misjudged PROVE orders'[t].placed > 0
      OBVIOUS
    <2>1. CASE t = s
      BY <1>2, <2>1, FewExecutions
    <2>2. CASE t # s
      BY <1>2, <2>2 DEF TradeInv
    <2> QED BY <2>1, <2>2
  <1>5. \A t \in Unhanded' \cup terminal'.received : t \in Signals /\ t # s /\ orders[t] = NoTrade
    BY <1>1 DEF TradeInv, Unhanded, Terminal
  <1> QED BY <1>1, <1>2, <1>3, <1>4, <1>5 DEF TradeInv

\* Every step keeps what trades and queue say of each other.
LEMMA TradeStep ==
    QueueInv /\ TradeInv /\ [Next]_pipelineVars => TradeInv'
  <1> SUFFICES ASSUME QueueInv, TradeInv, [Next]_pipelineVars PROVE TradeInv'
    OBVIOUS
  <1>0. Unhanded' \subseteq Unhanded
    BY QueueSimulated, QueueStep
  <1>t. terminal \in Terminal
    BY DEF TradeInv
  <1>1. ASSUME orders' = orders, terminal' = terminal PROVE TradeInv'
    BY <1>0, <1>1, <1>t, IdleTrade
  <1>2. ASSUME NEW w \in Pollers, NEW K \in (SUBSET Slots) \ {{}}, StartPoll(w, K) PROVE TradeInv'
    <2>1. terminal' \in Terminal /\ terminal'.received = terminal.received
      BY <1>2, <1>t DEF StartPoll, Terminal
    <2> QED BY <1>0, <1>2, <2>1, IdleTrade DEF StartPoll
  <1>3. ASSUME NEW w \in Pollers, FailPoll(w) PROVE TradeInv'
    <2>1. terminal' \in Terminal /\ terminal'.received \subseteq terminal.received
      BY <1>3, <1>t DEF FailPoll, AnswerPoll, Terminal
    <2> QED BY <1>0, <1>3, <2>1, IdleTrade DEF FailPoll
  <1>4. ASSUME NEW w \in Pollers, ClaimForPoll(w) PROVE TradeInv'
    <2> DEFINE S == Queue!Deliverable(w)
    <2>1. CASE terminal.call = w
      <3>1. terminal' \in Terminal /\ terminal'.received = S
        BY <1>4, <1>t, <2>1 DEF ClaimForPoll, AnswerPoll, Terminal, Queue!Deliverable, Queue!Seized
      <3>2. ASSUME NEW s \in S PROVE s \in Unhanded /\ s \notin Unhanded'
        <4>1. s \in Signals /\ s \in Queue!Seized(w) /\ queue[s].status = "PENDING"
          BY DEF Queue!Deliverable
        <4>2. queue'[s] = Queue!GetPendingRow(s)
          BY <1>4, <4>1 DEF ClaimForPoll, Queue!PollClaim
        <4>3. queue[s] \in Queue!Row /\ queue[s].status \in Queue!Active
          BY <4>1 DEF QueueInv, Queue!TypeOK, Queue!Active
        <4> QED BY <4>1, <4>2, <4>3, ClaimedRow DEF Unhanded
      <3>3. orders' = orders
        BY <1>4 DEF ClaimForPoll
      <3> QED BY <1>0, <3>1, <3>2, <3>3 DEF TradeInv, TradedAtMostOnce
    <2>2. CASE terminal.call # w
      BY <1>1, <1>4, <2>2 DEF ClaimForPoll, AnswerPoll
    <2> QED BY <2>1, <2>2
  <1>5. ASSUME NEW s \in Signals, DropSignal(s) PROVE TradeInv'
    <2>1. terminal' \in Terminal /\ terminal'.received \subseteq terminal.received
      <3>1. PICK H \in {terminal.handled, terminal.handled \cup {s}} :
               terminal' = [terminal EXCEPT !.received = @ \ {s}, !.handled = H]
        BY <1>5 DEF DropSignal
      <3>2. H \in SUBSET Signals
        BY <1>t DEF Terminal
      <3> QED BY <1>t, <3>1, <3>2 DEF Terminal
    <2> QED BY <1>0, <1>5, <2>1, IdleTrade DEF DropSignal
  <1>6. ASSUME NEW s \in Signals, NEW v \in Verdict, Answer(s, v)
        PROVE  terminal' \in Terminal /\ terminal'.received = terminal.received \ {s}
    BY <1>6, <1>t DEF Answer, Terminal
  <1>7. ASSUME NEW s \in Signals, AnswerOnly(s) PROVE TradeInv'
    <2>1. terminal' \in Terminal /\ terminal'.received = terminal.received \ {s}
      BY <1>6, <1>7 DEF AnswerOnly, Verdict
    <2> QED BY <1>0, <1>7, <2>1, IdleTrade DEF AnswerOnly
  <1>8. ASSUME NEW s \in Signals, NEW n \in Executions, NEW v \in Verdict,
               FillSignal(s, v, n) \/ FillDenied(s, n)
        PROVE  TradeInv'
    <2>1. terminal' \in Terminal /\ terminal'.received = terminal.received \ {s}
      BY <1>6, <1>8 DEF FillSignal, FillDenied, Verdict
    <2>2. \E m \in BOOLEAN : OpenPosition(s, n, m)
      BY <1>8 DEF FillSignal, FillDenied
    <2>3. s \in terminal.received
      BY <1>8 DEF FillSignal, FillDenied, Handles
    <2> QED BY <1>0, <2>1, <2>2, <2>3, OrderTrade
  <1>9. ASSUME NEW s \in Signals, NEW n \in Executions, FillUnnoticed(s, n) PROVE TradeInv'
    <2>1. terminal' \in Terminal /\ terminal'.received = terminal.received \ {s}
      BY <1>9, <1>t DEF FillUnnoticed, Terminal
    <2>2. s \in terminal.received /\ OpenPosition(s, n, FALSE)
      BY <1>9 DEF FillUnnoticed, Handles
    <2> QED BY <1>0, <2>1, <2>2, OrderTrade
  <1>10. ASSUME NEW s \in Signals, GiveUp(s) PROVE TradeInv'
    <2>1. terminal' \in Terminal /\ terminal'.received = terminal.received
      BY <1>10, <1>t DEF GiveUp, Terminal
    <2> QED BY <1>0, <1>10, <2>1, IdleTrade DEF GiveUp
  <1>11. ASSUME NEW s \in Signals, NEW h \in AckRequests, PostAck(s, h) PROVE TradeInv'
    <2>1. terminal' \in Terminal /\ terminal'.received = terminal.received
      BY <1>11, <1>t DEF PostAck, Terminal
    <2> QED BY <1>0, <1>11, <2>1, IdleTrade DEF PostAck
  <1>12. ASSUME NEW h \in AckRequests, MirrorAck(h) \/ BookAck(h) \/ BookAckFails(h) PROVE TradeInv'
    <2>1. CASE terminal' = terminal
      BY <1>1, <1>12, <2>1 DEF MirrorAck, BookAck, BookAckFails
    <2>2. CASE Finish(h)
      <3>1. terminal' \in Terminal /\ terminal'.received = terminal.received
        BY <1>t, <2>2 DEF Finish, Terminal
      <3> QED BY <1>0, <1>12, <3>1, IdleTrade DEF MirrorAck, BookAck, BookAckFails
    <2> QED BY <1>12, <2>1, <2>2 DEF MirrorAck, BookAck, BookAckFails
  <1>13. CASE TimeOut \/ AttemptFails \/ ServerRestart
    <2>1. terminal' \in Terminal /\ terminal'.received = terminal.received
      BY <1>13, <1>t DEF TimeOut, AttemptFails, ServerRestart, Terminal
    <2> QED BY <1>0, <1>13, <2>1, IdleTrade DEF TimeOut, AttemptFails, ServerRestart
  <1>14. CASE TerminalRestart
    <2>1. terminal' \in Terminal /\ terminal'.received \subseteq terminal.received
      BY <1>14 DEF TerminalRestart, StartedTerminal, Terminal
    <2> QED BY <1>0, <1>14, <2>1, IdleTrade DEF TerminalRestart
  <1>15. CASE \/ \E p \in Publishers : PublishStep(p) \/ \E s \in Signals : Publish(p, s)
              \/ \E w \in Pollers : SelectForPoll(w)
              \/ \E s \in Signals : PruneCompleted(s)
              \/ \E k \in Slots : DropStalePayload(k)
              \/ QueueAlone \/ LifecycleAlone
              \/ UNCHANGED pipelineVars
    BY <1>1, <1>15 DEF PublishStep, Publish, SelectForPoll, PruneCompleted, DropStalePayload,
                       QueueAlone, LifecycleAlone, pipelineVars
  <1>16. "filled" \in Verdict
    BY DEF Verdict
  <1> QED BY <1>2, <1>3, <1>4, <1>5, <1>7, <1>8, <1>9, <1>10, <1>11, <1>12, <1>13, <1>14, <1>15,
             <1>16 DEF Next

\* No signal is traded in two calls of ExecuteTradeOn, whatever fails: answers may be
\* lost and acknowledgements repeated, server and terminal may restart, and the broker
\* may execute an order the terminal takes for refused.  What is executed beyond one
\* order is what the loop over the filling modes of one call sent again.
THEOREM AtMostOneOrder == Spec => []TradedAtMostOnce
  <1>1. Init => QueueInv /\ TradeInv
    BY InitQueue, InitQueueInv, InitTradeInv
  <1>2. QueueInv /\ TradeInv /\ [Next]_pipelineVars => QueueInv' /\ TradeInv'
    BY QueueSimulated, QueueStep, TradeStep
  <1>3. TradeInv => TradedAtMostOnce
    BY DEF TradeInv, TradedAtMostOnce
  <1> QED BY <1>1, <1>2, <1>3, PTL DEF Spec

-----------------------------------------------------------------------------
(* What the rows, the terminal and process memory say of one another. *)

\* An acknowledgement ended the row.
Ended == {"ACKED", "REJECTED"}

\* A step that is no acknowledgement leaves the rows that it finds ended, ends none of
\* those in flight, and accepts none.
Stays(s) ==
    /\ queue[s].status \in Ended => queue'[s].status = queue[s].status
    /\ queue[s].status \in Queue!InFlight => queue'[s].status \in Queue!InFlight
    /\ queue'[s].status = "ACKED" => queue[s].status = "ACKED"

\* The terminal knows of what was executed for the signal, if it answers at all.
Taken(s) == orders[s].placed > 0 /\ ~orders[s].misjudged

\* What the terminal has to trade is in flight and not answered; what it answers says
\* whether there is an order; and only what was answered goes on to process memory.
TruthInv ==
    /\ request \in [AckRequests -> Request]
    /\ \A s \in terminal.received : queue[s].status \in Queue!InFlight /\ terminal.outbox[s] = "none"
    /\ \A s \in Signals : terminal.outbox[s] # "none" =>
          /\ queue[s].status \in Queue!InFlight \cup Ended
          /\ Ok(terminal.outbox[s]) <=> Taken(s)
    /\ RowsTellTheTruth
    /\ \A h \in AckRequests : request[h].pc # "idle" =>
          request[h].sig \in Signals /\ queue[request[h].sig].status \in Ended
    /\ \A s \in completed : s \in Signals /\ queue[s].status \in Ended

\* The first answer to a signal is on its way in one request only, and the lifecycle has
\* not heard of it.
BooksInv ==
    /\ \A s \in Signals : broker[s] # "none" <=> orders[s].placed > 0
    /\ broker \in [Signals -> Lifecycle!BrokerState]
    /\ \A s \in answered : s \in Signals /\ queue[s].status \in Ended
    /\ \A h \in AckRequests : request[h].first =>
          /\ request[h].pc # "idle" /\ request[h].sig \notin answered
          /\ Ok(request[h].verdict) <=> Taken(request[h].sig)
    /\ \A h \in AckRequests : request[h].pc = "mirrored" => request[h].first
    /\ \A g, h \in AckRequests :
          request[g].first /\ request[h].first /\ request[g].sig = request[h].sig => g = h

\* A request that rests.
LEMMA NoRequestTyped == NoRequest \in Request /\ NoRequest.pc = "idle" /\ ~NoRequest.first
  BY DEF NoRequest, Request, Verdict

\* The invariants hold at the start.
LEMMA InitTruth == Init => TruthInv /\ BooksInv
  <1> SUFFICES ASSUME Init PROVE TruthInv /\ BooksInv
    OBVIOUS
  <1>1. \A s \in Signals : queue[s].status = "ABSENT" /\ orders[s].placed = 0 /\ terminal.outbox[s] = "none"
    BY DEF Init, Queue!Init, Queue!NoRow, StartedTerminal, NoTrade
  <1>2. terminal.received = {} /\ completed = {} /\ answered = {}
    BY DEF Init, StartedTerminal, Lifecycle!Init
  <1>3. \A h \in AckRequests : request[h] = NoRequest
    BY DEF Init
  <1>4. request \in [AckRequests -> Request]
    BY NoRequestTyped DEF Init
  <1>5. TruthInv
    BY <1>1, <1>2, <1>3, <1>4, NoRequestTyped DEF TruthInv, RowsTellTheTruth
  <1>6. broker = [s \in Signals |-> "none"] /\ "none" \in Lifecycle!BrokerState
    BY DEF Init, Lifecycle!Init, Lifecycle!BrokerState
  <1>7. BooksInv
    BY <1>1, <1>2, <1>3, <1>6, NoRequestTyped DEF BooksInv
  <1> QED BY <1>5, <1>7

\* get_pending ends no row.
LEMMA ClaimStays ==
    ASSUME NEW s \in Signals, queue[s] \in Queue!Row, queue[s].status \in Queue!Active,
           queue'[s] = Queue!GetPendingRow(s)
    PROVE  /\ Stays(s)
           /\ queue[s].status = "PENDING" => queue'[s].status = "CLAIMED"
  <1> USE DEF Queue!Row, Queue!Active, Queue!InFlight, Ended
  <1>1. CASE queue[s].status = "PENDING"
    <2>1. Queue!GetPendingRow(s) = [queue[s] EXCEPT !.status = "CLAIMED",
                                                    !.attempts = queue[s].attempts + 1]
      BY <1>1 DEF Queue!GetPendingRow
    <2>2. queue'[s].status = "CLAIMED"
      BY <2>1
    <2> QED BY <1>1, <2>2 DEF Stays
  <1>2. CASE queue[s].status = "CLAIMED" /\ queue[s].overdue
    <2>1. Queue!GetPendingRow(s) = [queue[s] EXCEPT !.status = "SUBMISSION_UNCERTAIN"]
      BY <1>2 DEF Queue!GetPendingRow
    <2> QED BY <1>2, <2>1 DEF Stays
  <1>3. CASE queue[s].status # "PENDING" /\ ~(queue[s].status = "CLAIMED" /\ queue[s].overdue)
    <2>1. Queue!GetPendingRow(s) = queue[s]
      BY <1>3 DEF Queue!GetPendingRow
    <2> QED BY <1>3, <2>1 DEF Stays
  <1> QED BY <1>1, <1>2, <1>3

\* Nor does anything that publications and polls do, or time.
LEMMA QueueStays ==
    ASSUME QueueInv,
           \/ \E p \in Publishers : Queue!Enqueue(p)
           \/ \E w \in Pollers : Queue!Poll(w)
           \/ \E t \in Signals : Queue!LeaseRunsOut(t)
           \/ UNCHANGED queue
    PROVE  \A s \in Signals : Stays(s)
  <1> SUFFICES ASSUME NEW s \in Signals PROVE Stays(s)
    OBVIOUS
  <1>t. queue[s] \in Queue!Row
    BY DEF QueueInv, Queue!TypeOK
  <1>1. ASSUME queue'[s] = queue[s] PROVE Stays(s)
    BY <1>1 DEF Stays
  <1>2. ASSUME NEW p \in Publishers, Queue!EnqueueCommit(p) PROVE Stays(s)
    <2>1. CASE s \in Queue!Superseded(p)
      <3>1. queue'[s].status = "EXPIRED" /\ queue[s].status = "PENDING"
        BY <1>2, <1>t, <2>1 DEF Queue!EnqueueCommit, Queue!Superseded, Queue!Row
      <3> QED BY <3>1 DEF Stays, Ended, Queue!InFlight
    <2>2. CASE s \notin Queue!Superseded(p) /\ s = pub[p].sig /\ Queue!Blockers(p) = {}
      <3>1. queue'[s] = Queue!NewRow(p) /\ Queue!NewRow(p).status = "PENDING"
        BY <1>2, <2>2 DEF Queue!EnqueueCommit, Queue!NewRow, Queue!NoRow
      <3>2. queue[s].status = "ABSENT"
        BY <1>2, <2>2 DEF QueueInv, MintedOnce, Queue!EnqueueCommit
      <3> QED BY <3>1, <3>2 DEF Stays, Ended, Queue!InFlight
    <2>3. CASE s \notin Queue!Superseded(p) /\ ~(s = pub[p].sig /\ Queue!Blockers(p) = {})
      BY <1>1, <1>2, <2>3 DEF Queue!EnqueueCommit
    <2> QED BY <2>1, <2>2, <2>3
  <1>3. ASSUME NEW w \in Pollers, Queue!PollClaim(w) PROVE Stays(s)
    <2>1. CASE s \in Queue!Seized(w)
      <3>1. queue[s].status \in Queue!Active /\ queue'[s] = Queue!GetPendingRow(s)
        BY <1>3, <2>1 DEF Queue!PollClaim, Queue!Seized
      <3> QED BY <1>t, <3>1, ClaimStays
    <2>2. CASE s \notin Queue!Seized(w)
      BY <1>1, <1>3, <2>2 DEF Queue!PollClaim
    <2> QED BY <2>1, <2>2
  <1>4. ASSUME NEW t \in Signals, Queue!LeaseRunsOut(t) PROVE Stays(s)
    <2>1. queue'[s].status = queue[s].status
      BY <1>4, <1>t DEF Queue!LeaseRunsOut, QueueInv, Queue!TypeOK, Queue!Row
    <2> QED BY <2>1 DEF Stays
  <1>5. CASE UNCHANGED queue
    BY <1>1, <1>5
  <1>6. ASSUME NEW p \in Publishers, Queue!Enqueue(p), ~Queue!EnqueueCommit(p) PROVE UNCHANGED queue
    BY <1>6 DEF Queue!Enqueue, Queue!EnqueueRefused, Queue!EnqueueCheck, Queue!EnqueueSelect,
                Queue!EnqueueAbort
  <1>7. ASSUME NEW w \in Pollers, Queue!Poll(w), ~Queue!PollClaim(w) PROVE UNCHANGED queue
    BY <1>7 DEF Queue!Poll, Queue!PollCheck, Queue!PollSelect, Queue!PollAbort
  <1> QED BY <1>2, <1>3, <1>4, <1>5, <1>6, <1>7

\* Of the steps of the pipeline, only an acknowledgement ends a row.
LEMMA PipelineStays ==
    ASSUME QueueInv, [Next]_pipelineVars, ~\E s \in Signals, h \in AckRequests : PostAck(s, h)
    PROVE  \A s \in Signals : Stays(s)
  <1> USE DEF Queue!Enqueue, Queue!Poll
  <1>1. CASE \E p \in Publishers : PublishStep(p) \/ \E s \in Signals : Publish(p, s)
    BY <1>1, QueueStays DEF PublishStep, Publish
  <1>2. CASE \E w \in Pollers : \/ \E K \in (SUBSET Slots) \ {{}} : StartPoll(w, K)
                                \/ SelectForPoll(w) \/ ClaimForPoll(w) \/ FailPoll(w)
    BY <1>2, QueueStays DEF StartPoll, SelectForPoll, ClaimForPoll, FailPoll
  <1>3. CASE QueueAlone
    BY <1>3, QueueStays DEF QueueAlone, Queue!SetEmergencyStop
  <1>4. ASSUME \/ \E s \in Signals : \/ DropSignal(s) \/ AnswerOnly(s)
                                     \/ \E n \in Executions :
                                           \/ \E v \in Verdict : FillSignal(s, v, n)
                                           \/ FillUnnoticed(s, n) \/ FillDenied(s, n)
                                     \/ GiveUp(s) \/ PruneCompleted(s)
               \/ \E h \in AckRequests : MirrorAck(h) \/ BookAck(h) \/ BookAckFails(h)
               \/ \E k \in Slots : DropStalePayload(k)
               \/ TimeOut \/ AttemptFails \/ TerminalRestart \/ LifecycleAlone
               \/ UNCHANGED pipelineVars
        PROVE UNCHANGED queue
    BY <1>4 DEF DropSignal, AnswerOnly, FillSignal, FillUnnoticed, FillDenied, GiveUp, PruneCompleted,
                MirrorAck, BookAck, BookAckFails, DropStalePayload, TimeOut, AttemptFails, TerminalRestart,
                LifecycleAlone, pipelineVars, queueVars
  <1>5. CASE ServerRestart
    BY <1>5, QueueStays DEF ServerRestart, Queue!ServerRestart
  <1> QED BY <1>1, <1>2, <1>3, <1>4, <1>5, QueueStays DEF Next

\* A step that leaves the terminal nothing new, and lets go of requests at most.
LEMMA KeepTruth ==
    ASSUME TruthInv, \A s \in Signals : Stays(s), orders' = orders,
           terminal'.received \subseteq terminal.received, terminal \in Terminal,
           \A s \in Signals : terminal'.outbox[s] \in {terminal.outbox[s], "none"},
           request' \in [AckRequests -> Request],
           \A h \in AckRequests : request'[h].pc # "idle" =>
              request[h].pc # "idle" /\ request'[h].sig = request[h].sig,
           \A s \in completed' : s \in completed
              \/ \E h \in AckRequests : request[h].pc # "idle" /\ request[h].sig = s
    PROVE  TruthInv'
  <1> USE DEF Stays
  <1>1. \A s \in terminal'.received : s \in Signals /\ queue'[s].status \in Queue!InFlight
                                      /\ terminal'.outbox[s] = "none"
    BY DEF TruthInv, Terminal
  <1>2. \A s \in Signals : terminal'.outbox[s] # "none" =>
          /\ queue'[s].status \in Queue!InFlight \cup Ended
          /\ Ok(terminal'.outbox[s]) <=> Taken(s)'
    BY DEF TruthInv, Taken
  <1>3. RowsTellTheTruth'
    BY DEF TruthInv, RowsTellTheTruth, Ended
  <1>4. \A h \in AckRequests : request'[h].pc # "idle" =>
          request'[h].sig \in Signals /\ queue'[request'[h].sig].status \in Ended
    BY DEF TruthInv
  <1>5. \A s \in completed' : s \in Signals /\ queue'[s].status \in Ended
    BY DEF TruthInv
  <1> QED BY <1>1, <1>2, <1>3, <1>4, <1>5 DEF TruthInv

\* A step that reports, books and closes nothing, and lets go of requests at most.
LEMMA KeepBooks ==
    ASSUME TruthInv, BooksInv, \A s \in Signals : Stays(s), orders' = orders,
           broker' \in [Signals -> Lifecycle!BrokerState],
           \A s \in Signals : broker'[s] # "none" <=> broker[s] # "none",
           \A s \in answered' : s \in answered
              \/ \E h \in AckRequests : request[h].first /\ request[h].sig = s,
           \A h \in AckRequests :
              /\ request'[h].first =>
                    /\ request[h].first /\ request'[h].pc # "idle"
                    /\ request'[h].sig = request[h].sig /\ request'[h].verdict = request[h].verdict
                    /\ request[h].sig \notin answered'
              /\ request'[h].pc = "mirrored" => request'[h].first
    PROVE  BooksInv'
  <1>1. \A s \in Signals : broker'[s] # "none" <=> orders'[s].placed > 0
    BY DEF BooksInv
  <1>2. \A s \in answered' : s \in Signals /\ queue'[s].status \in Ended
    <2> SUFFICES ASSUME NEW s \in answered' PROVE s \in Signals /\ queue'[s].status \in Ended
      OBVIOUS
    <2>1. s \in Signals /\ queue[s].status \in Ended
      BY DEF BooksInv, TruthInv
    <2> QED BY <2>1 DEF Stays
  <1>3. \A h \in AckRequests : request'[h].first =>
          /\ request'[h].pc # "idle" /\ request'[h].sig \notin answered'
          /\ Ok(request'[h].verdict) <=> Taken(request[h].sig)'
    BY DEF BooksInv, Taken
  <1>4. \A g, h \in AckRequests :
          request'[g].first /\ request'[h].first /\ request'[g].sig = request'[h].sig => g = h
    BY DEF BooksInv
  <1> QED BY <1>1, <1>2, <1>3, <1>4 DEF BooksInv

\* What the records of the terminal and of a request look like after the steps on them.
LEMMA FinishIs ==
    ASSUME request \in [AckRequests -> Request], terminal \in Terminal,
           NEW h \in AckRequests, Finish(h)
    PROVE  /\ request' \in [AckRequests -> Request] /\ request'[h] = NoRequest
           /\ \A g \in AckRequests \ {h} : request'[g] = request[g]
           /\ terminal'.received = terminal.received
           /\ \A s \in Signals : terminal'.outbox[s] \in {terminal.outbox[s], "none"}
  <1>1. /\ request' \in [AckRequests -> Request] /\ request'[h] = NoRequest
        /\ \A g \in AckRequests \ {h} : request'[g] = request[g]
    BY NoRequestTyped DEF Finish
  <1>2. /\ terminal'.received = terminal.received
        /\ \A s \in Signals : terminal'.outbox[s] \in {terminal.outbox[s], "none"}
    BY DEF Finish, Terminal
  <1> QED BY <1>1, <1>2

\* The terminal marks a signal as handled.
LEMMA AnswerIs ==
    ASSUME terminal \in Terminal, NEW s \in Signals, NEW v \in Verdict, Answer(s, v)
    PROVE  /\ terminal'.received = terminal.received \ {s} /\ terminal'.outbox[s] = v
           /\ \A t \in Signals \ {s} : terminal'.outbox[t] = terminal.outbox[t]
  BY DEF Answer, Terminal

\* The orders of a signal that was received: they are not answered, or as they ended.
LEMMA OrderedTruth ==
    ASSUME TruthInv, BooksInv, TradeInv, TradeInv', UNCHANGED <<queue, request, completed, answered>>,
           NEW s \in terminal.received, NEW n \in Executions, NEW m \in BOOLEAN, OpenPosition(s, n, m),
           terminal'.received = terminal.received \ {s},
           \A t \in Signals \ {s} : terminal'.outbox[t] = terminal.outbox[t],
           terminal'.outbox[s] = "none" \/ (Ok(terminal'.outbox[s]) <=> ~m)
    PROVE  TruthInv' /\ BooksInv'
  <1>1. /\ s \in Signals /\ orders[s] = NoTrade /\ queue[s].status \in Queue!InFlight
        /\ orders \in [Signals -> Trade]
    BY DEF TradeInv, TruthInv, Terminal
  <1>2. /\ orders'[s].placed > 0 /\ orders'[s].misjudged = m
        /\ \A t \in Signals \ {s} : orders'[t] = orders[t]
    BY <1>1, OpenedTrade, FewExecutions
  <1>3. /\ broker' \in [Signals -> Lifecycle!BrokerState] /\ broker'[s] # "none"
        /\ \A t \in Signals \ {s} : broker'[t] = broker[t]
    BY <1>1 DEF OpenPosition, BooksInv, Lifecycle!BrokerState
  <1>4. queue[s].status \notin Ended
    BY <1>1 DEF Queue!InFlight, Ended
  <1>5. TruthInv'
    <2>1. RowsTellTheTruth'
      <3> SUFFICES ASSUME NEW t \in Signals
                   PROVE  /\ orders'[t].placed > 0 => queue'[t].status \in
                                Queue!InFlight \cup {IF orders'[t].misjudged THEN "REJECTED" ELSE "ACKED"}
                          /\ queue'[t].status = "ACKED" => orders'[t].placed > 0
        BY DEF RowsTellTheTruth
      <3>1. CASE t = s
        BY <1>1, <1>2, <3>1
      <3>2. CASE t # s
        BY <1>2, <3>2 DEF TruthInv, RowsTellTheTruth
      <3> QED BY <3>1, <3>2
    <2>2. \A t \in terminal'.received : t \in Signals /\ queue'[t].status \in Queue!InFlight
                                       /\ terminal'.outbox[t] = "none"
      BY DEF TruthInv, TradeInv, Terminal
    <2>3. ASSUME NEW t \in Signals, terminal'.outbox[t] # "none"
          PROVE  /\ queue'[t].status \in Queue!InFlight \cup Ended
                 /\ Ok(terminal'.outbox[t]) <=> Taken(t)'
      <3>1. CASE t = s
        BY <1>1, <1>2, <2>3, <3>1 DEF Taken
      <3>2. CASE t # s
        BY <1>2, <2>3, <3>2 DEF TruthInv, Taken
      <3> QED BY <3>1, <3>2
    <2> QED BY <2>1, <2>2, <2>3 DEF TruthInv
  <1>6. BooksInv'
    <2>1. \A h \in AckRequests : request[h].first => request[h].sig \in Signals \ {s}
      BY <1>4 DEF TruthInv, BooksInv
    <2>2. \A t \in Signals \ {s} : Taken(t)' <=> Taken(t)
      BY <1>2 DEF Taken
    <2>3. \A h \in AckRequests : request'[h].first =>
            /\ request'[h].pc # "idle" /\ request'[h].sig \notin answered'
            /\ Ok(request'[h].verdict) <=> Taken(request[h].sig)'
      BY <2>1, <2>2 DEF BooksInv
    <2>4. \A t \in Signals : broker'[t] # "none" <=> orders'[t].placed > 0
      BY <1>2, <1>3 DEF BooksInv
    <2> QED BY <1>3, <2>3, <2>4 DEF BooksInv
  <1> QED BY <1>5, <1>6

\* An acknowledgement reaches the durable queue.
LEMMA PostedTruth ==
    ASSUME QueueInv, TradeInv, TruthInv, BooksInv, NEW s \in Signals, NEW h \in AckRequests, PostAck(s, h)
    PROVE  TruthInv' /\ BooksInv'
  <1> DEFINE v == terminal.outbox[s]
  <1>t. terminal \in Terminal /\ v \in Verdict
    BY DEF TradeInv, Terminal, PostAck
  <1>1. queue[s].status \in Queue!InFlight \cup Ended /\ (Ok(v) <=> Taken(s))
    BY DEF TruthInv, PostAck
  <1>2. s \notin terminal.received
    BY DEF TruthInv, PostAck
  <1>3. FirstAck(s) <=> queue[s].status \in Queue!InFlight
    BY <1>1 DEF FirstAck, Queue!AckTakesEffect, Queue!TokenMismatch, Queue!Active, Queue!InFlight, Ended
  <1>4. /\ queue'[s].status \in Ended
        /\ queue[s].status \in Ended => queue'[s].status = queue[s].status
        /\ FirstAck(s) => queue'[s].status = IF Ok(v) THEN "ACKED" ELSE "REJECTED"
        /\ \A t \in Signals \ {s} : queue'[t] = queue[t]
    <2>1. CASE Queue!Ack(s, Ok(v), "none")
      <3>1. queue' = [queue EXCEPT ![s].status = IF Ok(v) THEN "ACKED" ELSE "REJECTED"]
            /\ FirstAck(s)
        BY <2>1 DEF Queue!Ack, FirstAck
      <3>2. queue \in [Signals -> Queue!Row]
        BY DEF QueueInv, Queue!TypeOK
      <3>3. queue'[s].status = IF Ok(v) THEN "ACKED" ELSE "REJECTED"
        BY <3>1, <3>2 DEF Queue!Row
      <3>4. \A t \in Signals \ {s} : queue'[t] = queue[t]
        BY <3>1, <3>2
      <3>5. queue[s].status \notin Ended
        BY <1>3, <3>1 DEF Ended, Queue!InFlight
      <3> QED BY <3>3, <3>4, <3>5 DEF Ended
    <2>2. CASE ~Queue!AckTakesEffect(s, "none") /\ UNCHANGED queueVars
      BY <1>1, <1>3, <2>2 DEF queueVars, FirstAck
    <2> QED BY <2>1, <2>2 DEF PostAck, DurableAck
  <1>5. /\ request' \in [AckRequests -> Request]
        /\ request'[h].pc = "committed" /\ request'[h].sig = s /\ request'[h].verdict = v
        /\ request'[h].first = FirstAck(s)
        /\ \A g \in AckRequests \ {h} : request'[g] = request[g]
    <2> DEFINE new == [pc |-> "committed", sig |-> s, verdict |-> v, first |-> FirstAck(s), priced |-> FALSE]
    <2>1. new \in Request
      BY <1>t, <1>3 DEF Request, FirstAck, Queue!AckTakesEffect
    <2>2. request' = [request EXCEPT ![h] = new]
      BY DEF PostAck
    <2> HIDE DEF new
    <2>3. request' \in [AckRequests -> Request] /\ request'[h] = new
          /\ \A g \in AckRequests \ {h} : request'[g] = request[g]
      BY <2>1, <2>2 DEF TruthInv
    <2>4. new.pc = "committed" /\ new.sig = s /\ new.verdict = v /\ new.first = FirstAck(s)
      BY DEF new
    <2> QED BY <2>3, <2>4
  <1>6. terminal'.received = terminal.received /\ terminal'.outbox = terminal.outbox
    BY <1>t DEF PostAck, Terminal
  <1>7. UNCHANGED <<orders, broker, answered, completed>>
    BY DEF PostAck, lifecycleVars, processVars
  <1> HIDE DEF v
  <1>8. TruthInv'
    <2>1. RowsTellTheTruth'
      <3> SUFFICES ASSUME NEW t \in Signals
                   PROVE  /\ orders'[t].placed > 0 => queue'[t].status \in
                                Queue!InFlight \cup {IF orders'[t].misjudged THEN "REJECTED" ELSE "ACKED"}
                          /\ queue'[t].status = "ACKED" => orders'[t].placed > 0
        BY DEF RowsTellTheTruth
      <3>1. CASE t # s
        BY <1>4, <1>7, <3>1 DEF TruthInv, RowsTellTheTruth
      <3>2. CASE t = s /\ FirstAck(s)
        BY <1>1, <1>4, <1>7, <3>2 DEF Taken
      <3>3. CASE t = s /\ ~FirstAck(s)
        BY <1>1, <1>3, <1>4, <1>7, <3>3 DEF TruthInv, RowsTellTheTruth
      <3> QED BY <3>1, <3>2, <3>3
    <2>2. \A t \in terminal'.received : queue'[t].status \in Queue!InFlight /\ terminal'.outbox[t] = "none"
      BY <1>t, <1>2, <1>4, <1>6 DEF TruthInv, Terminal
    <2>3. \A t \in Signals : terminal'.outbox[t] # "none" =>
            /\ queue'[t].status \in Queue!InFlight \cup Ended
            /\ Ok(terminal'.outbox[t]) <=> Taken(t)'
      BY <1>4, <1>6, <1>7 DEF TruthInv, Taken
    <2>4. \A g \in AckRequests : request'[g].pc # "idle" =>
            request'[g].sig \in Signals /\ queue'[request'[g].sig].status \in Ended
      BY <1>4, <1>5 DEF TruthInv
    <2>5. \A t \in completed' : t \in Signals /\ queue'[t].status \in Ended
      BY <1>4, <1>7 DEF TruthInv
    <2> QED BY <1>5, <2>1, <2>2, <2>3, <2>4, <2>5 DEF TruthInv
  <1>9. BooksInv'
    <2>1. FirstAck(s) => /\ s \notin answered
                         /\ \A g \in AckRequests : request[g].first => request[g].sig # s
      BY <1>3 DEF BooksInv, TruthInv, Queue!InFlight, Ended
    <2>2. \A t \in answered' : t \in Signals /\ queue'[t].status \in Ended
      BY <1>4, <1>7 DEF BooksInv
    <2>3. \A g \in AckRequests : request'[g].first =>
            /\ request'[g].pc # "idle" /\ request'[g].sig \notin answered'
            /\ Ok(request'[g].verdict) <=> Taken(request[g].sig)'
      BY <1>1, <1>5, <1>7, <2>1 DEF BooksInv, Taken
    <2>4. \A g \in AckRequests : request'[g].pc = "mirrored" => request'[g].first
      BY <1>5 DEF BooksInv
    <2>5. \A f, g \in AckRequests :
            request'[f].first /\ request'[g].first /\ request'[f].sig = request'[g].sig => f = g
      BY <1>5, <2>1 DEF BooksInv
    <2> QED BY <1>7, <2>2, <2>3, <2>4, <2>5 DEF BooksInv
  <1> QED BY <1>8, <1>9

\* Every step keeps what the rows, the terminal and process memory say of one another.
LEMMA TruthStep ==
    QueueInv /\ TradeInv /\ TruthInv /\ BooksInv /\ [Next]_pipelineVars => TruthInv' /\ BooksInv'
  <1> SUFFICES ASSUME QueueInv, TradeInv, TruthInv, BooksInv, [Next]_pipelineVars
               PROVE  TruthInv' /\ BooksInv'
    OBVIOUS
  <1>t. terminal \in Terminal /\ TradeInv' /\ request \in [AckRequests -> Request]
        /\ broker \in [Signals -> Lifecycle!BrokerState]
    BY TradeStep DEF TradeInv, TruthInv, BooksInv
  <1>1. ASSUME NEW s \in Signals, NEW h \in AckRequests, PostAck(s, h) PROVE TruthInv' /\ BooksInv'
    BY <1>1, PostedTruth
  <1> SUFFICES ASSUME ~\E s \in Signals, h \in AckRequests : PostAck(s, h) PROVE TruthInv' /\ BooksInv'
    BY <1>1
  <1>s. \A s \in Signals : Stays(s)
    BY PipelineStays
  <1>2. ASSUME UNCHANGED <<orders, request, completed, answered>>,
               broker' \in [Signals -> Lifecycle!BrokerState],
               \A s \in Signals : broker'[s] # "none" <=> broker[s] # "none",
               terminal'.received \subseteq terminal.received,
               \A s \in Signals : terminal'.outbox[s] \in {terminal.outbox[s], "none"}
        PROVE  TruthInv' /\ BooksInv'
    <2>1. TruthInv'
      BY <1>2, <1>s, <1>t, KeepTruth
    <2>2. \A h \in AckRequests : request[h].first =>
            request[h].pc # "idle" /\ request[h].sig \notin answered
      BY DEF BooksInv
    <2>3. \A h \in AckRequests : request[h].pc = "mirrored" => request[h].first
      BY DEF BooksInv
    <2>4. BooksInv'
      BY <1>2, <1>s, <2>2, <2>3, KeepBooks
    <2> QED BY <2>1, <2>4
  <1>3. ASSUME UNCHANGED <<orders, request, completed, answered, broker, terminal>>
        PROVE  TruthInv' /\ BooksInv'
    BY <1>2, <1>3, <1>t
  <1>4. ASSUME NEW w \in Pollers, NEW S, AnswerPoll(w, S), S \subseteq Signals,
               UNCHANGED <<orders, request, completed, answered, broker>>,
               \A s \in S : queue'[s].status = "CLAIMED" /\ queue[s].status = "PENDING"
        PROVE  TruthInv' /\ BooksInv'
    <2>1. terminal'.outbox = terminal.outbox /\ terminal'.received \in {terminal.received, S}
      BY <1>4, <1>t DEF AnswerPoll, Terminal
    <2>2. CASE terminal'.received \subseteq terminal.received
      BY <1>2, <1>4, <1>t, <2>1, <2>2
    <2>3. CASE terminal'.received = S
      <3>1. \A s \in S : terminal.outbox[s] = "none"
        BY <1>4 DEF TruthInv, Queue!InFlight, Ended
      <3>2. \A s \in terminal'.received : queue'[s].status \in Queue!InFlight /\ terminal'.outbox[s] = "none"
        BY <1>4, <2>1, <2>3, <3>1 DEF Queue!InFlight
      <3>3. RowsTellTheTruth'
        BY <1>4, <1>s DEF TruthInv, RowsTellTheTruth, Stays, Ended
      <3>4. \A s \in Signals : terminal'.outbox[s] # "none" =>
              /\ queue'[s].status \in Queue!InFlight \cup Ended
              /\ Ok(terminal'.outbox[s]) <=> Taken(s)'
        BY <1>4, <1>s, <2>1 DEF TruthInv, Stays, Taken
      <3>5. \A h \in AckRequests : request'[h].pc # "idle" =>
              request'[h].sig \in Signals /\ queue'[request'[h].sig].status \in Ended
        BY <1>4, <1>s DEF TruthInv, Stays
      <3>6. \A s \in completed' : s \in Signals /\ queue'[s].status \in Ended
        BY <1>4, <1>s DEF TruthInv, Stays
      <3>7. TruthInv'
        BY <1>4, <1>t, <3>2, <3>3, <3>4, <3>5, <3>6 DEF TruthInv
      <3>8. BooksInv'
        <4>1. \A h \in AckRequests : request[h].first =>
                request[h].pc # "idle" /\ request[h].sig \notin answered
          BY DEF BooksInv
        <4>2. \A h \in AckRequests : request[h].pc = "mirrored" => request[h].first
          BY DEF BooksInv
        <4> QED BY <1>4, <1>s, <1>t, <4>1, <4>2, KeepBooks
      <3> QED BY <3>7, <3>8
    <2> QED BY <2>1, <2>2, <2>3
  <1>5. ASSUME NEW w \in Pollers, ClaimForPoll(w) PROVE TruthInv' /\ BooksInv'
    <2>1. ASSUME NEW s \in Queue!Deliverable(w)
          PROVE  s \in Signals /\ queue[s].status = "PENDING" /\ queue'[s].status = "CLAIMED"
      <3>1. s \in Signals /\ s \in Queue!Seized(w) /\ queue[s].status = "PENDING"
        BY DEF Queue!Deliverable
      <3>2. queue'[s] = Queue!GetPendingRow(s)
        BY <1>5, <3>1 DEF ClaimForPoll, Queue!PollClaim
      <3>3. queue[s] \in Queue!Row /\ queue[s].status \in Queue!Active
        BY <3>1 DEF QueueInv, Queue!TypeOK, Queue!Active
      <3> QED BY <3>1, <3>2, <3>3, ClaimStays
    <2>2. /\ AnswerPoll(w, Queue!Deliverable(w))
          /\ UNCHANGED <<orders, request, completed, answered, broker>>
      BY <1>5 DEF ClaimForPoll, lifecycleVars
    <2>3. Queue!Deliverable(w) \subseteq Signals
      BY <2>1
    <2> QED BY <1>4, <2>1, <2>2, <2>3
  <1>6. ASSUME NEW w \in Pollers, FailPoll(w) PROVE TruthInv' /\ BooksInv'
    <2>1. AnswerPoll(w, {}) /\ UNCHANGED <<orders, request, completed, answered, broker>>
      BY <1>6 DEF FailPoll, lifecycleVars
    <2> QED BY <1>4, <2>1
  <1>7. ASSUME NEW s \in Signals, AnswerOnly(s) PROVE TruthInv' /\ BooksInv'
    <2>1. s \in terminal.received /\ orders[s] = NoTrade /\ queue[s].status \in Queue!InFlight
      BY <1>7 DEF AnswerOnly, Handles, TradeInv, TruthInv
    <2>2. Answer(s, "refused") /\ "refused" \in Verdict /\ ~Ok("refused")
      BY <1>7, <2>1 DEF AnswerOnly, FoundInComments, NoTrade, Verdict, Ok
    <2>3. /\ terminal'.received = terminal.received \ {s} /\ terminal'.outbox[s] = "refused"
          /\ \A t \in Signals \ {s} : terminal'.outbox[t] = terminal.outbox[t]
      BY <1>t, <2>2, AnswerIs
    <2>4. UNCHANGED <<queue, orders, request, completed, answered, broker>>
      BY <1>7 DEF AnswerOnly, queueVars, lifecycleVars, processVars
    <2>5. \A t \in Signals : terminal'.outbox[t] # "none" =>
            /\ queue'[t].status \in Queue!InFlight \cup Ended
            /\ Ok(terminal'.outbox[t]) <=> Taken(t)'
      BY <2>1, <2>2, <2>3, <2>4 DEF TruthInv, Taken, NoTrade
    <2>6. \A t \in terminal'.received : queue'[t].status \in Queue!InFlight /\ terminal'.outbox[t] = "none"
      BY <1>t, <2>3, <2>4 DEF TruthInv, Terminal
    <2>7. TruthInv'
      BY <2>4, <2>5, <2>6 DEF TruthInv, RowsTellTheTruth
    <2>8. BooksInv'
      BY <2>4 DEF BooksInv, Taken
    <2> QED BY <2>7, <2>8
  <1>8. ASSUME NEW s \in Signals, NEW n \in Executions, NEW v \in Verdict, NEW m \in BOOLEAN,
               Handles(s), OpenPosition(s, n, m), Answer(s, v), Ok(v) <=> ~m,
               UNCHANGED <<queueVars, processVars, request>>
        PROVE  TruthInv' /\ BooksInv'
    <2>1. s \in terminal.received /\ UNCHANGED <<queue, request, completed, answered>>
      BY <1>8 DEF Handles, OpenPosition, queueVars, processVars
    <2>2. /\ terminal'.received = terminal.received \ {s} /\ terminal'.outbox[s] = v
          /\ \A t \in Signals \ {s} : terminal'.outbox[t] = terminal.outbox[t]
      BY <1>8, <1>t, AnswerIs
    <2> QED BY <1>8, <1>t, <2>1, <2>2, OrderedTruth
  <1>9. ASSUME NEW s \in Signals, NEW n \in Executions,
               (\E v \in Verdict : FillSignal(s, v, n)) \/ FillUnnoticed(s, n) \/ FillDenied(s, n)
        PROVE  TruthInv' /\ BooksInv'
    <2>1. ASSUME NEW v \in Verdict, FillSignal(s, v, n) PROVE TruthInv' /\ BooksInv'
      BY <1>8, <2>1 DEF FillSignal
    <2>2. CASE FillDenied(s, n)
      <3>1. "refused" \in Verdict /\ ~Ok("refused")
        BY DEF Verdict, Ok
      <3> QED BY <1>8, <2>2, <3>1 DEF FillDenied
    <2>3. CASE FillUnnoticed(s, n)
      <3>1. /\ s \in terminal.received /\ OpenPosition(s, n, FALSE)
            /\ UNCHANGED <<queue, request, completed, answered>>
        BY <2>3 DEF FillUnnoticed, Handles, OpenPosition, queueVars, processVars
      <3>2. terminal'.received = terminal.received \ {s} /\ terminal'.outbox = terminal.outbox
        BY <2>3, <1>t DEF FillUnnoticed, Terminal
      <3>3. terminal'.outbox[s] = "none"
        BY <3>1, <3>2 DEF TruthInv
      <3> QED BY <1>t, <3>1, <3>2, <3>3, OrderedTruth
    <2> QED BY <1>9, <2>1, <2>2, <2>3
  <1>10. ASSUME NEW h \in AckRequests, MirrorAck(h) PROVE TruthInv' /\ BooksInv'
    <2>1. /\ request[h].pc = "committed" /\ completed' = completed \cup {request[h].sig}
          /\ UNCHANGED <<orders, answered, broker>>
      BY <1>10 DEF MirrorAck, lifecycleVars
    <2>2. /\ request' \in [AckRequests -> Request]
          /\ \A g \in AckRequests : request'[g].pc # "idle" =>
                request[g].pc # "idle" /\ request'[g].sig = request[g].sig
          /\ \A g \in AckRequests :
                /\ request'[g].first =>
                      /\ request[g].first /\ request'[g].pc # "idle"
                      /\ request'[g].sig = request[g].sig /\ request'[g].verdict = request[g].verdict
                /\ request'[g].pc = "mirrored" => request'[g].first
          /\ terminal'.received = terminal.received
          /\ \A s \in Signals : terminal'.outbox[s] \in {terminal.outbox[s], "none"}
      <3>0. \A g \in AckRequests : /\ request[g].first => request[g].pc # "idle"
                                   /\ request[g].pc = "mirrored" => request[g].first
        BY DEF BooksInv
      <3>1. CASE Finish(h)
        BY <1>t, <3>0, <3>1, FinishIs, NoRequestTyped
      <3>2. CASE request[h].first /\ UNCHANGED terminal
                 /\ \E p \in BOOLEAN : request' = [request EXCEPT ![h].pc = "mirrored", ![h].priced = p]
        <4>1. PICK p \in BOOLEAN : request' = [request EXCEPT ![h].pc = "mirrored", ![h].priced = p]
          BY <3>2
        <4> DEFINE new == [request[h] EXCEPT !.pc = "mirrored", !.priced = p]
        <4>2. /\ new \in Request /\ new.pc = "mirrored" /\ new.sig = request[h].sig
              /\ new.first = request[h].first /\ new.verdict = request[h].verdict
          BY <1>t DEF Request
        <4>3. request' = [request EXCEPT ![h] = new]
          BY <1>t, <4>1 DEF Request
        <4> HIDE DEF new
        <4>4. /\ request' \in [AckRequests -> Request] /\ request'[h] = new
              /\ \A g \in AckRequests \ {h} : request'[g] = request[g]
          BY <1>t, <4>2, <4>3
        <4> QED BY <2>1, <3>0, <3>2, <4>2, <4>4
      <3>3. (/\ request[h].sig \notin completed /\ memory[SlotOf[request[h].sig]] = request[h].sig
             /\ request[h].sig \in Priced) \in BOOLEAN
        OBVIOUS
      <3> QED BY <1>10, <3>1, <3>2, <3>3 DEF MirrorAck
    <2>3. \A s \in completed' : s \in completed
              \/ \E g \in AckRequests : request[g].pc # "idle" /\ request[g].sig = s
      BY <2>1
    <2>4. TruthInv'
      BY <1>s, <1>t, <2>1, <2>2, <2>3, KeepTruth
    <2>5. \A g \in AckRequests : request[g].first => request[g].sig \notin answered
      BY DEF BooksInv
    <2>6. BooksInv'
      BY <1>s, <1>t, <2>1, <2>2, <2>5, KeepBooks
    <2> QED BY <2>4, <2>6
  <1>11. ASSUME NEW h \in AckRequests, BookAck(h) \/ BookAckFails(h) PROVE TruthInv' /\ BooksInv'
    <2>1. /\ request[h].pc = "mirrored" /\ Finish(h)
          /\ answered' = answered \cup {request[h].sig}
          /\ UNCHANGED <<orders, broker, completed>>
      BY <1>11 DEF BookAck, BookAckFails, Lifecycle!BookAck, processVars
    <2>2. request[h].first /\ request[h].pc # "idle"
      BY <2>1 DEF BooksInv
    <2>3. /\ request' \in [AckRequests -> Request] /\ request'[h] = NoRequest
          /\ \A g \in AckRequests \ {h} : request'[g] = request[g]
          /\ terminal'.received = terminal.received
          /\ \A s \in Signals : terminal'.outbox[s] \in {terminal.outbox[s], "none"}
      BY <1>t, <2>1, FinishIs
    <2>4. TruthInv'
      BY <1>s, <1>t, <2>1, <2>3, NoRequestTyped, KeepTruth
    <2>5. \A g \in AckRequests :
              /\ request'[g].first =>
                    /\ request[g].first /\ request'[g].pc # "idle"
                    /\ request'[g].sig = request[g].sig /\ request'[g].verdict = request[g].verdict
                    /\ request[g].sig \notin answered'
              /\ request'[g].pc = "mirrored" => request'[g].first
      BY <2>1, <2>2, <2>3, NoRequestTyped DEF BooksInv
    <2>6. BooksInv'
      BY <1>s, <1>t, <2>1, <2>2, <2>5, KeepBooks
    <2> QED BY <2>4, <2>6
  <1>12. CASE ServerRestart
    <2>1. /\ request' = [h \in AckRequests |-> NoRequest] /\ completed' = {}
          /\ answered' = answered \cup {request[h].sig : h \in {i \in AckRequests : request[i].first}}
          /\ UNCHANGED <<orders, broker>>
      BY <1>12 DEF ServerRestart
    <2>2. terminal'.received = terminal.received /\ terminal'.outbox = terminal.outbox
      BY <1>12, <1>t DEF ServerRestart, Terminal
    <2>3. request' \in [AckRequests -> Request]
          /\ \A h \in AckRequests : request'[h].pc = "idle" /\ ~request'[h].first
      BY <2>1, NoRequestTyped
    <2>4. TruthInv'
      BY <1>s, <1>t, <2>1, <2>2, <2>3, KeepTruth
    <2>5. BooksInv'
      BY <1>s, <1>t, <2>1, <2>3, KeepBooks
    <2> QED BY <2>4, <2>5
  <1>13. CASE TerminalRestart
    <2>1. terminal'.received = {} /\ \A s \in Signals : terminal'.outbox[s] = "none"
      BY <1>13 DEF TerminalRestart, StartedTerminal
    <2>2. UNCHANGED <<orders, request, completed, answered, broker>>
      BY <1>13 DEF TerminalRestart, Lifecycle!TakeSnapshot, lifecycleVars, processVars
    <2> QED BY <1>2, <1>t, <2>1, <2>2
  <1>14. ASSUME NEW w \in Pollers, NEW K \in (SUBSET Slots) \ {{}}, StartPoll(w, K)
         PROVE TruthInv' /\ BooksInv'
    <2>1. terminal'.received = terminal.received /\ terminal'.outbox = terminal.outbox
      BY <1>14, <1>t DEF StartPoll, Terminal
    <2>2. UNCHANGED <<orders, request, completed, answered, broker>>
      BY <1>14 DEF StartPoll, lifecycleVars, processVars
    <2> QED BY <1>2, <1>t, <2>1, <2>2
  <1>15. ASSUME \/ TimeOut \/ AttemptFails
                \/ \E s \in Signals : DropSignal(s) \/ GiveUp(s)
         PROVE TruthInv' /\ BooksInv'
    <2>1. /\ terminal'.received \subseteq terminal.received
          /\ \A s \in Signals : terminal'.outbox[s] \in {terminal.outbox[s], "none"}
      <3>1. CASE TimeOut \/ AttemptFails
        BY <1>t, <3>1 DEF TimeOut, AttemptFails, Terminal
      <3>2. ASSUME NEW s \in Signals, DropSignal(s)
            PROVE  terminal'.received = terminal.received \ {s} /\ terminal'.outbox = terminal.outbox
        BY <1>t, <3>2 DEF DropSignal, Terminal
      <3>3. ASSUME NEW s \in Signals, GiveUp(s)
            PROVE  /\ terminal'.received = terminal.received
                   /\ \A t \in Signals : terminal'.outbox[t] \in {terminal.outbox[t], "none"}
        BY <1>t, <3>3 DEF GiveUp, Terminal
      <3> QED BY <1>15, <3>1, <3>2, <3>3
    <2>2. UNCHANGED <<orders, request, completed, answered, broker>>
      BY <1>15 DEF TimeOut, AttemptFails, DropSignal, GiveUp, lifecycleVars, processVars
    <2> QED BY <1>2, <1>t, <2>1, <2>2
  <1>16. ASSUME NEW s \in Signals, PruneCompleted(s) PROVE TruthInv' /\ BooksInv'
    <2>1. /\ completed' \subseteq completed
          /\ UNCHANGED <<queue, orders, request, answered, broker, terminal>>
      BY <1>16 DEF PruneCompleted, queueVars, lifecycleVars
    <2>2. TruthInv'
      BY <2>1 DEF TruthInv, RowsTellTheTruth, Taken
    <2>3. BooksInv'
      BY <2>1 DEF BooksInv, Taken
    <2> QED BY <2>2, <2>3
  <1>17. CASE LifecycleAlone
    <2>1. UNCHANGED <<orders, request, completed, terminal>>
      BY <1>17 DEF LifecycleAlone, processVars
    <2>2. /\ answered' = answered /\ broker' \in [Signals -> Lifecycle!BrokerState]
          /\ \A s \in Signals : broker'[s] # "none" <=> broker[s] # "none"
      BY <1>17, <1>t DEF LifecycleAlone, Lifecycle!BrokerClose, Lifecycle!BrokerClosesOne,
                         Lifecycle!BrokerState, Lifecycle!PositionClosed,
                         Lifecycle!ReconcilePositions, Lifecycle!LoseSnapshot
    <2> QED BY <1>2, <1>t, <2>1, <2>2
  <1>18. CASE \/ \E p \in Publishers : PublishStep(p) \/ \E s \in Signals : Publish(p, s)
              \/ \E w \in Pollers : SelectForPoll(w)
              \/ \E k \in Slots : DropStalePayload(k)
              \/ QueueAlone \/ UNCHANGED pipelineVars
    BY <1>3, <1>18 DEF PublishStep, Publish, SelectForPoll, DropStalePayload, QueueAlone, pipelineVars,
                       lifecycleVars, processVars
  <1> QED BY <1>5, <1>6, <1>7, <1>9, <1>10, <1>11, <1>12, <1>13, <1>14, <1>15, <1>16, <1>17,
             <1>18 DEF Next

-----------------------------------------------------------------------------
(* The lifecycle in the pipeline. *)

\* Whatever fails, a signal reaches the lifecycle once, as done only if an order of it was
\* executed, and is traded once: every step is one of PositionLifecycle, or leaves it alone.
LEMMA LifecycleSimulated ==
    QueueInv /\ TradeInv /\ TruthInv /\ BooksInv /\ [Next]_pipelineVars =>
        [Lifecycle!Next]_lifecycleVars
  <1> SUFFICES ASSUME QueueInv, TradeInv, TruthInv, BooksInv, [Next]_pipelineVars
               PROVE  [Lifecycle!Next]_lifecycleVars
    OBVIOUS
  <1> USE DEF Lifecycle!Next
  <1>1. ASSUME NEW s \in Signals, s \in terminal.received, NEW n \in Executions, NEW m \in BOOLEAN,
               OpenPosition(s, n, m)
        PROVE  [Lifecycle!Next]_lifecycleVars
    <2>1. orders[s].placed = 0 /\ queue[s].status \in Queue!InFlight
      BY <1>1 DEF TradeInv, TruthInv, NoTrade
    <2>2. broker[s] = "none" /\ s \notin answered
      BY <2>1 DEF BooksInv, Queue!InFlight, Ended
    <2>3. Lifecycle!Fill(s)
      BY <1>1, <2>2 DEF OpenPosition, Lifecycle!Fill
    <2> QED BY <2>3
  <1>2. ASSUME NEW s \in Signals, NEW n \in Executions,
               (\E v \in Verdict : FillSignal(s, v, n)) \/ FillUnnoticed(s, n) \/ FillDenied(s, n)
        PROVE  [Lifecycle!Next]_lifecycleVars
    BY <1>1, <1>2 DEF FillSignal, FillUnnoticed, FillDenied, Handles
  <1>3. ASSUME NEW h \in AckRequests, request[h].pc = "mirrored"
        PROVE  /\ request[h] \in Request /\ request[h].sig \in Signals /\ request[h].sig \notin answered
               /\ Ok(request[h].verdict) => broker[request[h].sig] # "none"
    BY <1>3 DEF TruthInv, BooksInv, Taken
  <1>4. ASSUME NEW h \in AckRequests, BookAck(h) PROVE [Lifecycle!Next]_lifecycleVars
    <2> DEFINE s  == request[h].sig
               ok == Ok(request[h].verdict)
               ticket == request[h].verdict = "filled"
               p  == request[h].priced
    <2>1. Lifecycle!BookAck(s, ok, ticket, p, TRUE) /\ request[h].pc = "mirrored"
      BY <1>4 DEF BookAck
    <2>2. s \in Signals /\ ok \in BOOLEAN /\ ticket \in BOOLEAN /\ p \in BOOLEAN /\ (ticket => ok)
      BY <1>3, <2>1 DEF Ok, Request
    <2>3. Lifecycle!AckLifecycle(s, ok, ticket, p, TRUE)
      <3>1. s \notin answered /\ (ok => broker[s] # "none")
        BY <1>3, <2>1
      <3> HIDE DEF s, ok, ticket, p
      <3> QED BY <2>1, <2>2, <3>1 DEF Lifecycle!AckLifecycle
    <2> HIDE DEF s, ok, ticket, p
    <2> QED BY <2>2, <2>3
  <1>5. ASSUME NEW S \in SUBSET Signals, S \cap answered = {}, answered' = answered \cup S,
               UNCHANGED <<rows, openRisk, broker, reports>>
        PROVE  [Lifecycle!Next]_lifecycleVars
    <2>1. CASE S = {}
      BY <1>5, <2>1 DEF lifecycleVars
    <2>2. CASE S # {}
      BY <1>5, <2>2 DEF Lifecycle!AckLifecycleLost
    <2> QED BY <2>1, <2>2
  <1>6. ASSUME NEW h \in AckRequests, BookAckFails(h) PROVE [Lifecycle!Next]_lifecycleVars
    <2>1. request[h].sig \in Signals /\ request[h].sig \notin answered
      BY <1>3, <1>6 DEF BookAckFails
    <2>2. {request[h].sig} \in SUBSET Signals /\ {request[h].sig} \cap answered = {}
      BY <2>1
    <2> QED BY <1>5, <1>6, <2>2 DEF BookAckFails
  <1>7. CASE ServerRestart
    <2> DEFINE S == {request[h].sig : h \in {i \in AckRequests : request[i].first}}
    <2>1. S \in SUBSET Signals /\ S \cap answered = {}
      BY DEF TruthInv, BooksInv
    <2>2. answered' = answered \cup S /\ UNCHANGED <<rows, openRisk, broker, reports>>
      BY <1>7 DEF ServerRestart
    <2> HIDE DEF S
    <2> QED BY <1>5, <2>1, <2>2
  <1>8. CASE TerminalRestart
    BY <1>8 DEF TerminalRestart
  <1>9. CASE LifecycleAlone
    BY <1>9 DEF LifecycleAlone
  <1>10. ASSUME \/ \E p \in Publishers : PublishStep(p) \/ \E s \in Signals : Publish(p, s)
                \/ \E w \in Pollers : \/ \E K \in (SUBSET Slots) \ {{}} : StartPoll(w, K)
                                      \/ SelectForPoll(w) \/ ClaimForPoll(w) \/ FailPoll(w)
                \/ \E s \in Signals : \/ DropSignal(s) \/ AnswerOnly(s) \/ GiveUp(s) \/ PruneCompleted(s)
                                      \/ \E h \in AckRequests : PostAck(s, h)
                \/ \E h \in AckRequests : MirrorAck(h)
                \/ \E k \in Slots : DropStalePayload(k)
                \/ TimeOut \/ AttemptFails \/ QueueAlone \/ UNCHANGED pipelineVars
         PROVE UNCHANGED lifecycleVars
    BY <1>10 DEF PublishStep, Publish, StartPoll, SelectForPoll, ClaimForPoll, FailPoll, DropSignal,
                 AnswerOnly, GiveUp, PruneCompleted, PostAck, MirrorAck, DropStalePayload, TimeOut,
                 AttemptFails, QueueAlone, pipelineVars
  <1> QED BY <1>2, <1>4, <1>6, <1>7, <1>8, <1>9, <1>10 DEF Next

-----------------------------------------------------------------------------
(* What follows. *)

PipelineInv == QueueInv /\ TradeInv /\ TruthInv /\ BooksInv

\* Queue, terminal, requests and lifecycle agree in every behaviour, under any failures.
THEOREM PipelineInvariant == Spec => []PipelineInv
  <1>1. Init => PipelineInv
    BY InitQueue, InitQueueInv, InitTradeInv, InitTruth DEF PipelineInv
  <1>2. PipelineInv /\ [Next]_pipelineVars => PipelineInv'
    BY QueueSimulated, QueueStep, TradeStep, TruthStep DEF PipelineInv
  <1> QED BY <1>1, <1>2, PTL DEF Spec

\* The durable row does not contradict the broker, whatever is lost or repeated: what was
\* traded is in flight or ACKED, or REJECTED if the terminal took it for refused, and what
\* is ACKED was traded.
THEOREM RowsFollowTheBroker == Spec => []RowsTellTheTruth
  <1>1. PipelineInv => RowsTellTheTruth
    BY DEF PipelineInv, TruthInv
  <1> QED BY <1>1, PipelineInvariant, PTL

\* Process memory completes no signal that the durable queue has not ended.
THEOREM MemoryFollowsTheQueue == Spec => []MemoryIsNeverAhead
  <1>1. PipelineInv => MemoryIsNeverAhead
    BY DEF PipelineInv, TruthInv, MemoryIsNeverAhead, Ended, Queue!Terminal
  <1> QED BY <1>1, PipelineInvariant, PTL

\* Inside the pipeline the lifecycle behaves as PositionLifecycle says: what that module
\* assumes of its callers is what queue, requests and terminal do.
THEOREM PipelineImplementsLifecycle == Spec => LifecycleRefined
  <1>1. Init => Lifecycle!Init
    BY DEF Init
  <1>2. PipelineInv /\ [Next]_pipelineVars => [Lifecycle!Next]_lifecycleVars
    BY LifecycleSimulated DEF PipelineInv
  <1> QED BY <1>1, <1>2, PipelineInvariant, PTL
          DEF Spec, LifecycleRefined, Lifecycle!Spec, lifecycleVars, Lifecycle!lifecycleVars
=============================================================================
