----------------------- MODULE ExecutionQueue_proofs -----------------------
(***************************************************************************)
(* Proofs about ExecutionQueue, for any number of signals, slots,          *)
(* publishers and pollers.                                                 *)
(***************************************************************************)
EXTENDS ExecutionQueue, TLAPS

\* What ties a request in progress to the rows: the signal it carries was
\* minted for it alone, may be executed, and has no row yet.
PublisherOwnsSignal ==
    \A p \in Publishers : pub[p].pc # "idle" =>
        /\ pub[p].sig \in Authorised
        /\ pub[p].sig \notin fresh
        /\ queue[pub[p].sig].status = "ABSENT"
        /\ \A q \in Publishers : pub[q].pc # "idle" /\ pub[q].sig = pub[p].sig => p = q

RowsAreMinted ==
    \A s \in Signals :
        /\ queue[s].status # "ABSENT" => s \in Authorised
        /\ s \in fresh => queue[s].status = "ABSENT"

\* attempt_count is 0 up to the claim and 1 after it.
AttemptsFollowStatus ==
    \A s \in Signals :
        /\ queue[s].attempts \in {0, 1}
        /\ queue[s].status \in {"ABSENT", "PENDING"} => queue[s].attempts = 0

QueueInv == TypeOK /\ PublisherOwnsSignal /\ RowsAreMinted /\ AttemptsFollowStatus

\* The facts about records and statuses every step below uses.
LEMMA PubTyping == IdlePub \in PubState /\ IdlePoll \in PollState
  BY DEF IdlePub, IdlePoll, PubState, PollState

\* What a commit leaves of the other publications: all but what it makes them miss.
LEMMA CommitPubs ==
    ASSUME pub \in [Publishers -> PubState], NEW p \in Publishers, EnqueueCommit(p)
    PROVE  /\ pub' \in [Publishers -> PubState] /\ pub'[p] = IdlePub
           /\ \A q \in Publishers \ {p} :
                 /\ pub'[q].pc = pub[q].pc /\ pub'[q].sig = pub[q].sig
                 /\ pub'[q].seen = pub[q].seen /\ pub'[q].stamp = pub[q].stamp
                 /\ pub'[q].raced <=> (pub[q].raced \/ q \in Overtaken(p))
  <1>1. pub'[p] = IdlePub
    BY DEF EnqueueCommit
  <1>2. ASSUME NEW q \in Publishers \ {p}
        PROVE  /\ pub'[q] \in PubState
               /\ pub'[q].pc = pub[q].pc /\ pub'[q].sig = pub[q].sig
               /\ pub'[q].seen = pub[q].seen /\ pub'[q].stamp = pub[q].stamp
               /\ pub'[q].raced <=> (pub[q].raced \/ q \in Overtaken(p))
    <2> DEFINE late == pub[q].raced \/ q \in Overtaken(p)
    <2>1. pub'[q] = [pub[q] EXCEPT !.raced = late]
      BY DEF EnqueueCommit
    <2>2. late \in BOOLEAN /\ pub[q] \in PubState
      OBVIOUS
    <2> HIDE DEF late
    <2>3. /\ pub'[q] \in PubState /\ pub'[q].raced = late
          /\ pub'[q].pc = pub[q].pc /\ pub'[q].sig = pub[q].sig
          /\ pub'[q].seen = pub[q].seen /\ pub'[q].stamp = pub[q].stamp
      BY <2>1, <2>2 DEF PubState
    <2> QED BY <2>2, <2>3 DEF late
  <1>3. DOMAIN pub' = Publishers /\ pub' = [q \in Publishers |-> pub'[q]]
    BY DEF EnqueueCommit
  <1> QED BY <1>1, <1>2, <1>3, PubTyping

\* The strengthening holds of an empty queue.
LEMMA InitQueueInv == Init => QueueInv
  <1> SUFFICES ASSUME Init PROVE QueueInv
    OBVIOUS
  <1>1. NoRow \in Row
    BY DEF NoRow, Row, Status
  <1>2. TypeOK
    BY <1>1, PubTyping DEF Init, TypeOK
  <1>3. \A s \in Signals : queue[s] = NoRow
    BY DEF Init
  <1>4. RowsAreMinted /\ AttemptsFollowStatus
    BY <1>3 DEF RowsAreMinted, AttemptsFollowStatus, NoRow
  <1>5. PublisherOwnsSignal
    BY DEF Init, PublisherOwnsSignal, IdlePub
  <1> QED BY <1>2, <1>4, <1>5 DEF QueueInv

\* Every step keeps the types.
LEMMA TypeStep == TypeOK /\ [Next]_queueVars => TypeOK'
  <1> SUFFICES ASSUME TypeOK, [Next]_queueVars PROVE TypeOK'
    OBVIOUS
  <1> USE QueueAssumption, PubTyping
      DEF TypeOK, Row, Status, Active, InFlight, Terminal
  <1>1. ASSUME NEW p \in Publishers, NEW s \in Signals, EnqueueRefused(p, s) PROVE TypeOK'
    BY <1>1 DEF EnqueueRefused
  <1>2. ASSUME NEW p \in Publishers, NEW s \in Signals, EnqueueCheck(p, s) PROVE TypeOK'
    BY <1>2 DEF EnqueueCheck, IdlePub, PubState
  <1>3. ASSUME NEW p \in Publishers, EnqueueSelect(p) PROVE TypeOK'
    <2>1. ActiveIn(SlotOf[pub[p].sig]) \subseteq Signals
      BY DEF ActiveIn
    <2> QED BY <1>3, <2>1 DEF EnqueueSelect, PubState
  <1>4. ASSUME NEW p \in Publishers, EnqueueCommit(p) PROVE TypeOK'
    <2>1. NewRow(p) \in Row
      BY DEF NewRow, NoRow, PubState
    <2>2. queue' \in [Signals -> Row]
      BY <1>4, <2>1 DEF EnqueueCommit
    <2>3. pub' \in [Publishers -> PubState]
      BY <1>4, CommitPubs DEF PubState
    <2> QED BY <1>4, <2>2, <2>3 DEF EnqueueCommit
  <1>5. ASSUME NEW p \in Publishers, EnqueueAbort(p) PROVE TypeOK'
    BY <1>5 DEF EnqueueAbort
  <1>6. ASSUME NEW w \in Pollers, NEW K \in (SUBSET Slots) \ {{}}, PollCheck(w, K) PROVE TypeOK'
    BY <1>6 DEF PollCheck, IdlePoll, PollState
  <1>14. ASSUME NEW w \in Pollers, PollSelect(w) PROVE TypeOK'
    <2>1. {s \in Signals : SlotOf[s] \in poll[w].slots /\ IsNewest(s)} \subseteq Signals
      OBVIOUS
    <2> QED BY <1>14, <2>1 DEF PollSelect, IdlePoll, PollState
  <1>7. ASSUME NEW w \in Pollers, PollClaim(w) PROVE TypeOK'
    <2>1. ASSUME NEW s \in Signals PROVE GetPendingRow(s) \in Row
      <3>1. queue[s] \in Row
        OBVIOUS
      <3>2. CASE s \notin Authorised
        BY <3>1, <3>2 DEF GetPendingRow
      <3>3. CASE s \in Authorised /\ queue[s].status = "PENDING"
        <4>1. GetPendingRow(s) = [queue[s] EXCEPT !.status = "CLAIMED",
                                                  !.attempts = queue[s].attempts + 1]
          BY <3>3 DEF GetPendingRow
        <4>2. queue[s].attempts + 1 \in Nat
          BY <3>1
        <4>3. \A n \in Nat : [queue[s] EXCEPT !.status = "CLAIMED", !.attempts = n] \in Row
          BY <3>1
        <4> QED BY <4>1, <4>2, <4>3
      <3>4. CASE s \in Authorised /\ queue[s].status = "CLAIMED" /\ queue[s].overdue
        BY <3>1, <3>4 DEF GetPendingRow
      <3>5. CASE /\ s \in Authorised /\ queue[s].status # "PENDING"
                 /\ ~(queue[s].status = "CLAIMED" /\ queue[s].overdue)
        BY <3>1, <3>5 DEF GetPendingRow
      <3> QED BY <3>2, <3>3, <3>4, <3>5
    <2>2. queue' \in [Signals -> Row]
      BY <1>7, <2>1 DEF PollClaim
    <2> QED BY <1>7, <2>2 DEF PollClaim
  <1>8. ASSUME NEW w \in Pollers, PollAbort(w) PROVE TypeOK'
    BY <1>8 DEF PollAbort
  <1>9. ASSUME NEW s \in Signals, ClaimById(s) PROVE TypeOK'
    BY <1>9 DEF ClaimById
  <1>10. ASSUME NEW s \in Signals, LeaseRunsOut(s) PROVE TypeOK'
    BY <1>10 DEF LeaseRunsOut
  <1>11. ASSUME NEW s \in Signals, NEW ok \in BOOLEAN, NEW token \in Tokens, Ack(s, ok, token)
         PROVE TypeOK'
    BY <1>11 DEF Ack
  <1>12. ASSUME NEW enabled \in BOOLEAN, SetEmergencyStop(enabled) PROVE TypeOK'
    BY <1>12 DEF SetEmergencyStop
  <1>13. CASE UNCHANGED queueVars
    BY <1>13 DEF queueVars
  <1>15. CASE ServerRestart
    BY <1>15 DEF ServerRestart
  <1> QED BY <1>1, <1>2, <1>3, <1>4, <1>5, <1>6, <1>7, <1>8, <1>9, <1>10, <1>11, <1>12, <1>13, <1>14, <1>15
          DEF Next, Enqueue, Poll

\* Type correctness: whatever requests are in progress, the tables and the
\* requests hold values of their types.
THEOREM QueueTyping == Spec => []TypeOK
  <1>1. Init => TypeOK
    BY InitQueueInv DEF QueueInv
  <1> QED BY <1>1, TypeStep, PTL DEF Spec

-----------------------------------------------------------------------------
(* How one step may move one row. *)

Inserted(s)  == queue[s].status = "ABSENT" /\ s \in Authorised
                /\ queue'[s].status = "PENDING" /\ queue'[s].attempts = 0
                /\ \E p \in Publishers : /\ pub[p].pc = "selected" /\ s = pub[p].sig
                                          /\ queue'[s].stamp = pub[p].stamp
                                          /\ EnqueueCommit(p)
Expired(s)   == queue[s].status = "PENDING" /\ queue'[s] = [queue[s] EXCEPT !.status = "EXPIRED"]
Claimed(s)   == queue[s].status = "PENDING"
                /\ queue'[s] = [queue[s] EXCEPT !.status = "CLAIMED", !.attempts = @ + 1]
Doubted(s)   == queue[s].status = "CLAIMED"
                /\ queue'[s] = [queue[s] EXCEPT !.status = "SUBMISSION_UNCERTAIN"]
Aged(s)      == queue[s].status = "CLAIMED" /\ queue'[s] = [queue[s] EXCEPT !.overdue = TRUE]
Answered(s)  == queue[s].status \in Active
                /\ \E status \in {"ACKED", "REJECTED"} :
                      queue'[s] = [queue[s] EXCEPT !.status = status]

RowEdge(s) == \/ queue'[s] = queue[s]
              \/ Inserted(s) \/ Expired(s) \/ Claimed(s)
              \/ Doubted(s) \/ Aged(s) \/ Answered(s)

\* get_pending on one row, seen as an edge.
LEMMA GetPendingEdge ==
    ASSUME TypeOK, RowsAreMinted, NEW s \in Signals, queue[s].status \in Active,
           queue'[s] = GetPendingRow(s)
    PROVE  RowEdge(s)
  <1>1. s \in Authorised
    BY DEF RowsAreMinted, Active, InFlight
  <1>2. CASE queue[s].status = "PENDING"
    BY <1>1, <1>2 DEF GetPendingRow, RowEdge, Claimed
  <1>3. CASE queue[s].status = "CLAIMED" /\ queue[s].overdue
    BY <1>1, <1>3 DEF GetPendingRow, RowEdge, Doubted
  <1>4. CASE ~(queue[s].status = "PENDING" \/ (queue[s].status = "CLAIMED" /\ queue[s].overdue))
    BY <1>1, <1>4 DEF GetPendingRow, RowEdge
  <1> QED BY <1>2, <1>3, <1>4

\* Every step moves every row along an edge.
LEMMA RowStep == QueueInv /\ [Next]_queueVars => \A s \in Signals : RowEdge(s)
  <1> SUFFICES ASSUME QueueInv, [Next]_queueVars, NEW s \in Signals PROVE RowEdge(s)
    OBVIOUS
  <1> USE DEF QueueInv
  <1>1. ASSUME NEW p \in Publishers, EnqueueCommit(p) PROVE RowEdge(s)
    <2>1. CASE s \in Superseded(p)
      BY <1>1, <2>1 DEF EnqueueCommit, Superseded, RowEdge, Expired
    <2>2. CASE s \notin Superseded(p) /\ s = pub[p].sig /\ Blockers(p) = {}
      <3>1. queue'[s] = NewRow(p)
        BY <1>1, <2>2 DEF EnqueueCommit
      <3>2. queue[s].status = "ABSENT" /\ s \in Authorised /\ pub[p].pc = "selected"
        BY <1>1, <2>2 DEF EnqueueCommit, PublisherOwnsSignal
      <3> QED BY <1>1, <2>2, <3>1, <3>2 DEF NewRow, NoRow, RowEdge, Inserted
    <2>3. CASE s \notin Superseded(p) /\ ~(s = pub[p].sig /\ Blockers(p) = {})
      BY <1>1, <2>3 DEF EnqueueCommit, RowEdge
    <2> QED BY <2>1, <2>2, <2>3
  <1>2. ASSUME NEW w \in Pollers, PollClaim(w) PROVE RowEdge(s)
    <2>1. CASE s \in Seized(w)
      BY <1>2, <2>1, GetPendingEdge DEF PollClaim, Seized
    <2>2. CASE s \notin Seized(w)
      BY <1>2, <2>2 DEF PollClaim, RowEdge
    <2> QED BY <2>1, <2>2
  <1>3. ASSUME NEW t \in Signals, ClaimById(t) PROVE RowEdge(s)
    BY <1>3 DEF ClaimById, RowEdge, Claimed, TypeOK
  <1>4. ASSUME NEW t \in Signals, LeaseRunsOut(t) PROVE RowEdge(s)
    BY <1>4 DEF LeaseRunsOut, RowEdge, Aged, TypeOK
  <1>5. ASSUME NEW t \in Signals, NEW ok \in BOOLEAN, NEW token \in Tokens, Ack(t, ok, token)
        PROVE RowEdge(s)
    BY <1>5 DEF Ack, AckTakesEffect, RowEdge, Answered, TypeOK
  <1>6. CASE UNCHANGED queue
    BY <1>6 DEF RowEdge
  <1> QED BY <1>1, <1>2, <1>3, <1>4, <1>5, <1>6
          DEF Next, Enqueue, Poll, EnqueueRefused, EnqueueCheck, EnqueueSelect, EnqueueAbort,
              PollCheck, PollSelect, PollAbort, SetEmergencyStop, ServerRestart, queueVars

\* The strengthening is inductive.
LEMMA QueueInvStep == QueueInv /\ [Next]_queueVars => QueueInv'
  <1> SUFFICES ASSUME QueueInv, [Next]_queueVars PROVE QueueInv'
    OBVIOUS
  <1>1. TypeOK'
    BY TypeStep DEF QueueInv
  <1>2. \A s \in Signals : RowEdge(s)
    BY RowStep
  <1>3. AttemptsFollowStatus'
    <2> SUFFICES ASSUME NEW s \in Signals
                 PROVE /\ queue'[s].attempts \in {0, 1}
                       /\ queue'[s].status \in {"ABSENT", "PENDING"} => queue'[s].attempts = 0
      BY DEF AttemptsFollowStatus
    <2> USE DEF QueueInv, TypeOK, Row, AttemptsFollowStatus
    <2>1. CASE queue'[s] = queue[s] BY <2>1
    <2>2. CASE Inserted(s) BY <2>2 DEF Inserted
    <2>3. CASE Expired(s) BY <2>3 DEF Expired
    <2>4. CASE Claimed(s) BY <2>4 DEF Claimed
    <2>5. CASE Doubted(s) BY <2>5 DEF Doubted
    <2>6. CASE Aged(s) BY <2>6 DEF Aged
    <2>7. CASE Answered(s) BY <2>7 DEF Answered
    <2> QED BY <1>2, <2>1, <2>2, <2>3, <2>4, <2>5, <2>6, <2>7 DEF RowEdge
  <1>4. RowsAreMinted' /\ PublisherOwnsSignal'
    <2> USE QueueAssumption DEF QueueInv, TypeOK
    <2>1. ASSUME NEW p \in Publishers, NEW s \in Signals,
                 EnqueueRefused(p, s) \/ EnqueueCheck(p, s)
          PROVE  RowsAreMinted' /\ PublisherOwnsSignal'
      <3>1. queue' = queue /\ fresh' = fresh \ {s} /\ s \in fresh
        BY <2>1 DEF EnqueueRefused, EnqueueCheck
      <3>2. RowsAreMinted'
        BY <3>1 DEF RowsAreMinted
      <3>3. CASE EnqueueRefused(p, s)
        <4>1. pub' = pub
          BY <3>3 DEF EnqueueRefused
        <4>2. ASSUME NEW q \in Publishers, pub[q].pc # "idle"
              PROVE  /\ pub[q].sig \in Authorised /\ pub[q].sig \notin fresh'
                     /\ queue'[pub[q].sig].status = "ABSENT"
          BY <3>1, <4>2 DEF PublisherOwnsSignal
        <4> QED BY <3>2, <4>1, <4>2 DEF PublisherOwnsSignal
      <3>4. CASE EnqueueCheck(p, s)
        <4>1. pub'[p].pc = "checked" /\ pub'[p].sig = s /\ s \in Authorised
          BY <3>4 DEF EnqueueCheck, IdlePub
        <4>2. \A q \in Publishers \ {p} : pub'[q] = pub[q]
          BY <3>4 DEF EnqueueCheck
        <4>3. \A q \in Publishers : pub[q].pc # "idle" => pub[q].sig # s
          BY <3>1 DEF PublisherOwnsSignal
        <4>4. queue[s].status = "ABSENT"
          BY <3>1 DEF RowsAreMinted
        <4> QED BY <3>1, <3>2, <4>1, <4>2, <4>3, <4>4 DEF PublisherOwnsSignal
      <3> QED BY <2>1, <3>2, <3>3, <3>4
    <2>2. ASSUME NEW p \in Publishers, EnqueueSelect(p)
          PROVE  RowsAreMinted' /\ PublisherOwnsSignal'
      <3>1. /\ queue' = queue /\ fresh' = fresh
            /\ \A q \in Publishers : pub'[q].sig = pub[q].sig
            /\ \A q \in Publishers : pub'[q].pc # "idle" => pub[q].pc # "idle"
        BY <2>2 DEF EnqueueSelect
      <3>2. RowsAreMinted'
        BY <3>1 DEF RowsAreMinted
      <3>3. ASSUME NEW q \in Publishers, pub'[q].pc # "idle"
            PROVE  /\ pub'[q].sig \in Authorised /\ pub'[q].sig \notin fresh'
                   /\ queue'[pub'[q].sig].status = "ABSENT"
                   /\ \A r \in Publishers : pub'[r].pc # "idle" /\ pub'[r].sig = pub'[q].sig => q = r
        <4>1. pub[q].pc # "idle" /\ pub'[q].sig = pub[q].sig
          BY <3>1, <3>3
        <4>2. ASSUME NEW r \in Publishers, pub'[r].pc # "idle", pub'[r].sig = pub'[q].sig
              PROVE  q = r
          <5>1. pub[r].pc # "idle"
            BY <3>1, <4>2
          <5>2. pub'[r].sig = pub[r].sig
            BY <3>1
          <5> HIDE DEF TypeOK
          <5> QED BY <4>1, <4>2, <5>1, <5>2 DEF PublisherOwnsSignal
        <4> QED BY <3>1, <4>1, <4>2 DEF PublisherOwnsSignal
      <3> QED BY <3>2, <3>3 DEF PublisherOwnsSignal
    <2>3. ASSUME NEW p \in Publishers, EnqueueCommit(p) \/ EnqueueAbort(p)
          PROVE  RowsAreMinted' /\ PublisherOwnsSignal'
      <3>1. /\ pub'[p].pc = "idle" /\ fresh' = fresh
            /\ \A q \in Publishers \ {p} : pub'[q].pc = pub[q].pc /\ pub'[q].sig = pub[q].sig
        BY <2>3, CommitPubs DEF EnqueueCommit, EnqueueAbort, IdlePub
      <3>2. \A s \in Signals : queue'[s].status # "ABSENT" =>
               queue[s].status # "ABSENT" \/ (s = pub[p].sig /\ pub[p].pc # "idle")
        BY <2>3 DEF EnqueueCommit, EnqueueAbort, Superseded
      <3>3. RowsAreMinted'
        BY <3>1, <3>2 DEF RowsAreMinted, PublisherOwnsSignal
      <3>4. \A q \in Publishers \ {p} : pub[q].pc # "idle" => queue'[pub[q].sig].status = "ABSENT"
        BY <3>2, <2>3 DEF PublisherOwnsSignal
      <3> QED BY <3>1, <3>3, <3>4 DEF PublisherOwnsSignal
    <2>4. ASSUME UNCHANGED <<fresh, pub>>,
                 \A s \in Signals : queue'[s].status = "ABSENT" <=> queue[s].status = "ABSENT"
          PROVE  RowsAreMinted' /\ PublisherOwnsSignal'
      <3>1. RowsAreMinted'
        BY <2>4 DEF RowsAreMinted
      <3>2. ASSUME NEW q \in Publishers, pub[q].pc # "idle"
            PROVE  queue'[pub[q].sig].status = "ABSENT"
        BY <2>4, <3>2 DEF PublisherOwnsSignal
      <3> QED BY <2>4, <3>1, <3>2 DEF PublisherOwnsSignal
    <2>5. ASSUME NEW w \in Pollers, PollClaim(w) PROVE RowsAreMinted' /\ PublisherOwnsSignal'
      <3>1. ASSUME NEW s \in Signals
            PROVE  queue'[s].status = "ABSENT" <=> queue[s].status = "ABSENT"
        <4>1. CASE s \in Seized(w) /\ queue'[s] = GetPendingRow(s)
          <5>1. queue[s].status # "ABSENT" /\ s \in Authorised
            BY <4>1 DEF Seized, Active, InFlight, RowsAreMinted
          <5>2. GetPendingRow(s).status # "ABSENT"
            BY <5>1 DEF GetPendingRow, Row
          <5> QED BY <4>1, <5>1, <5>2
        <4>2. CASE queue'[s] = queue[s]
          BY <4>2
        <4> QED BY <2>5, <4>1, <4>2 DEF PollClaim
      <3> QED BY <2>5, <3>1, <2>4 DEF PollClaim
    <2>6. ASSUME NEW t \in Signals,
                 \/ ClaimById(t) \/ LeaseRunsOut(t)
                 \/ \E ok \in BOOLEAN, token \in Tokens : Ack(t, ok, token)
          PROVE  RowsAreMinted' /\ PublisherOwnsSignal'
      <3>1. ASSUME NEW s \in Signals
            PROVE  queue'[s].status = "ABSENT" <=> queue[s].status = "ABSENT"
        <4>1. CASE ClaimById(t)
          BY <4>1 DEF ClaimById
        <4>2. CASE LeaseRunsOut(t)
          BY <4>2 DEF LeaseRunsOut
        <4>3. ASSUME NEW ok \in BOOLEAN, NEW token \in Tokens, Ack(t, ok, token)
              PROVE  queue'[s].status = "ABSENT" <=> queue[s].status = "ABSENT"
          BY <4>3 DEF Ack, AckTakesEffect, Active, InFlight
        <4> QED BY <2>6, <4>1, <4>2, <4>3
      <3> QED BY <2>4, <2>6, <3>1 DEF ClaimById, LeaseRunsOut, Ack
    <2>7. CASE UNCHANGED <<queue, fresh, pub>>
      BY <2>4, <2>7
    <2>8. CASE ServerRestart
      BY <2>8 DEF ServerRestart, IdlePub, RowsAreMinted, PublisherOwnsSignal
    <2> QED BY <2>1, <2>2, <2>3, <2>5, <2>6, <2>7, <2>8
            DEF Next, Enqueue, Poll, PollCheck, PollSelect, PollAbort, SetEmergencyStop, queueVars
  <1> QED BY <1>1, <1>3, <1>4 DEF QueueInv

\* The strengthening holds in every state.
LEMMA QueueInvariant == Spec => []QueueInv
  BY InitQueueInv, QueueInvStep, PTL DEF Spec

-----------------------------------------------------------------------------
\* No interleaving of polls, lease expiries, publications, acknowledgements
\* and stops hands a signal to an executor twice (get_pending's claim).
THEOREM AtMostOneDelivery == Spec => []DeliveredAtMostOnce
  <1>1. QueueInv => DeliveredAtMostOnce
    <2> SUFFICES ASSUME QueueInv, NEW s \in Signals PROVE queue[s].attempts <= 1
      BY DEF DeliveredAtMostOnce
    <2>1. queue[s].attempts = 0 \/ queue[s].attempts = 1
      BY DEF QueueInv, AttemptsFollowStatus
    <2> QED BY <2>1
  <1> QED BY QueueInvariant, <1>1, PTL

\* ACKED, REJECTED and EXPIRED rows are never written again.
THEOREM TerminalRowsAreFinal == Spec => TerminalIsFinal
  <1>1. QueueInv /\ [Next]_queueVars =>
          \A s \in Signals : queue[s].status \in Terminal => queue'[s] = queue[s]
    <2> SUFFICES ASSUME QueueInv, [Next]_queueVars, NEW s \in Signals,
                        queue[s].status \in Terminal
                 PROVE  queue'[s] = queue[s]
      OBVIOUS
    <2>1. RowEdge(s)
      BY RowStep
    <2> QED BY <2>1 DEF RowEdge, Inserted, Expired, Claimed, Doubted, Aged, Answered,
                        Terminal, Active, InFlight
  <1> QED BY QueueInvariant, <1>1, PTL DEF Spec, TerminalIsFinal

\* A row in an executor's hands is ended by its acknowledgement only: neither
\* a publication with an old snapshot nor a lease takes it away.
THEOREM InFlightRowsEndByAck == Spec => InFlightEndsByAck
  <1>1. QueueInv /\ [Next]_queueVars =>
          \A s \in Signals : queue[s].status \in InFlight =>
             queue'[s].status \in InFlight \cup {"ACKED", "REJECTED"}
    <2> SUFFICES ASSUME QueueInv, [Next]_queueVars, NEW s \in Signals,
                        queue[s].status \in InFlight
                 PROVE  queue'[s].status \in InFlight \cup {"ACKED", "REJECTED"}
      OBVIOUS
    <2>1. RowEdge(s)
      BY RowStep
    <2>2. queue[s] \in Row
      BY DEF QueueInv, TypeOK
    <2> QED BY <2>1, <2>2 DEF RowEdge, Inserted, Expired, Claimed, Doubted, Aged, Answered,
                              Active, InFlight, Row
  <1> QED BY QueueInvariant, <1>1, PTL DEF Spec, InFlightEndsByAck

-----------------------------------------------------------------------------
\* The queue implements SignalDelivery: every step is a step of the abstract
\* specification or leaves it unchanged.
THEOREM QueueImplementsDelivery == Spec => DeliveryRefined
  <1>1. Init => Delivery!Init
    BY DEF Init, Delivery!Init, NoRow, PhaseOf, InFlight
  <1>2. QueueInv /\ [Next]_queueVars => Delivery!Next
    <2> SUFFICES ASSUME QueueInv, [Next]_queueVars PROVE Delivery!Next
      OBVIOUS
    <2>1. QueueInv'
      BY QueueInvStep
    <2>2. \A s \in Signals : PhaseOf(queue'[s].status) \in Delivery!Phase
      BY DEF PhaseOf, Delivery!Phase
    <2>3. \A s \in Signals : queue'[s].attempts \in Nat
      BY <2>1 DEF QueueInv, TypeOK, Row
    <2>4. ASSUME NEW s \in Signals PROVE Delivery!Edge(s)
      <3>1. RowEdge(s)
        BY RowStep
      <3>2. queue[s] \in Row /\ queue[s].attempts \in Nat
        BY DEF QueueInv, TypeOK, Row
      <3>3. queue[s].status = "ABSENT" => queue[s].attempts = 0
        BY DEF QueueInv, AttemptsFollowStatus
      <3>4. CASE queue'[s] = queue[s] \/ Aged(s) \/ Doubted(s)
        BY <3>2, <3>4 DEF Aged, Doubted, Delivery!Edge, PhaseOf, InFlight, Row
      <3>5. CASE Inserted(s)
        BY <3>3, <3>5 DEF Inserted, Delivery!Edge, PhaseOf, InFlight
      <3>6. CASE Expired(s)
        BY <3>2, <3>6 DEF Expired, Delivery!Edge, PhaseOf, InFlight, Row
      <3>7. CASE Claimed(s)
        BY <3>2, <3>7 DEF Claimed, Delivery!Edge, PhaseOf, InFlight, Row
      <3>8. CASE Answered(s)
        BY <3>2, <3>8 DEF Answered, Delivery!Edge, PhaseOf, InFlight, Active, Row
      <3> QED BY <3>1, <3>4, <3>5, <3>6, <3>7, <3>8 DEF RowEdge
    <2> QED BY <2>2, <2>3, <2>4 DEF Delivery!Next
  <1> QED BY QueueInvariant, <1>1, <1>2, PTL DEF Spec, DeliveryRefined, Delivery!Spec

-----------------------------------------------------------------------------
(* A slot has two live rows, and an executor goes back to a superseded       *)
(* decision, only where a publication raced another one into the slot.  The  *)
(* run queue_in_flight shows that two publishers are enough for that.        *)

\* The rows of its slot are older than a publication that no other has overtaken.
StampsAreBounded ==
    /\ \A s \in Signals : queue[s].stamp <= clock
    /\ \A p \in Publishers : pub[p].pc = "selected" =>
          /\ pub[p].stamp <= clock
          /\ ~pub[p].raced => \A s \in Signals :
                SlotOf[s] = SlotOf[pub[p].sig] => queue[s].stamp < pub[p].stamp

\* The snapshot of such a publication misses no active row of its slot.
SnapshotIsComplete ==
    \A p \in Publishers : pub[p].pc = "selected" /\ ~pub[p].raced =>
        ActiveIn(SlotOf[pub[p].sig]) \subseteq pub[p].seen

SlotInv == StampsAreBounded /\ SnapshotIsComplete /\ OneActivePerSlot /\ NoStaleOffer

\* The strengthening holds of an empty queue.
LEMMA InitSlotInv == Init => SlotInv
  <1> SUFFICES ASSUME Init PROVE SlotInv
    OBVIOUS
  <1>1. \A s \in Signals : queue[s] = NoRow
    BY DEF Init
  <1>2. \A k : ActiveIn(k) = {}
    BY <1>1 DEF ActiveIn, NoRow, Active, InFlight
  <1>3. \A p \in Publishers : pub[p].pc = "idle"
    BY DEF Init, IdlePub
  <1>4. StampsAreBounded
    BY <1>1, <1>3 DEF StampsAreBounded, NoRow, Init
  <1>5. NoStaleOffer
    BY <1>1 DEF NoStaleOffer, NoRow
  <1> QED BY <1>2, <1>3, <1>4, <1>5 DEF SlotInv, SnapshotIsComplete, OneActivePerSlot

\* What a row's edge leaves in place: its stamp, and its inactivity.
LEMMA EdgeKeeps ==
    ASSUME QueueInv, QueueInv', NEW s \in Signals, RowEdge(s), ~Inserted(s)
    PROVE  /\ queue'[s].stamp = queue[s].stamp
           /\ queue'[s].raced = queue[s].raced
           /\ queue'[s].status \in Active => queue[s].status \in Active
           /\ queue'[s].status = "PENDING" => queue[s].status = "PENDING"
           /\ queue'[s].attempts > 0 =>
                  queue[s].attempts > 0 \/ queue[s].status = "PENDING"
  <1>1. queue[s] \in Row
    BY DEF QueueInv, TypeOK
  <1> QED BY <1>1 DEF RowEdge, Expired, Claimed, Doubted, Aged, Answered, Row, Active, InFlight

\* A step that inserts no row and starts no snapshot keeps the strengthening.
LEMMA QuietSlotStep ==
    ASSUME QueueInv, QueueInv', SlotInv, clock' = clock,
           \A s \in Signals : RowEdge(s) /\ ~Inserted(s),
           \A p \in Publishers : pub'[p].pc = "selected" => pub'[p] = pub[p]
    PROVE  SlotInv'
  <1>1. \A s \in Signals :
          /\ queue'[s].stamp = queue[s].stamp /\ queue'[s].raced = queue[s].raced
          /\ queue'[s].status \in Active => queue[s].status \in Active
          /\ queue'[s].status = "PENDING" => queue[s].status = "PENDING"
          /\ queue'[s].attempts > 0 => queue[s].attempts > 0 \/ queue[s].status = "PENDING"
    BY EdgeKeeps
  <1>2. StampsAreBounded'
    BY <1>1 DEF SlotInv, StampsAreBounded
  <1>3. \A k : ActiveIn(k)' \subseteq ActiveIn(k)
    BY <1>1 DEF ActiveIn
  <1>4. SnapshotIsComplete'
    BY <1>3 DEF SlotInv, SnapshotIsComplete
  <1>5. OneActivePerSlot'
    BY <1>1, <1>3 DEF SlotInv, OneActivePerSlot, ActiveIn
  <1>6. NoStaleOffer'
    <2> SUFFICES ASSUME NEW s \in Signals, NEW t \in Signals, SlotOf[s] = SlotOf[t],
                        queue'[t].attempts > 0, queue'[s].stamp < queue'[t].stamp,
                        queue'[s].status = "PENDING", ~queue'[s].raced, ~queue'[t].raced
                 PROVE  FALSE
      BY DEF NoStaleOffer
    <2>1. queue[s].stamp < queue[t].stamp /\ queue[s].status = "PENDING" /\ ~queue[s].raced /\ ~queue[t].raced
      BY <1>1
    <2>2. queue[t].status = "PENDING"
      BY <1>1, <2>1 DEF SlotInv, NoStaleOffer
    <2>3. s \in ActiveIn(SlotOf[s]) /\ t \in ActiveIn(SlotOf[s]) /\ SlotOf[s] \in Slots
      BY <2>1, <2>2, QueueAssumption DEF ActiveIn, Active
    <2>4. s = t
      BY <2>1, <2>3 DEF SlotInv, OneActivePerSlot
    <2>5. queue[s].stamp \in Nat
      BY DEF QueueInv, TypeOK, Row
    <2> QED BY <2>1, <2>4, <2>5
  <1> QED BY <1>2, <1>4, <1>5, <1>6 DEF SlotInv

\* It is inductive, whatever publications overlap.
LEMMA SlotStep == QueueInv /\ SlotInv /\ [Next]_queueVars => SlotInv'
  <1> SUFFICES ASSUME QueueInv, SlotInv, [Next]_queueVars PROVE SlotInv'
    OBVIOUS
  <1>1. QueueInv'
    BY QueueInvStep
  <1>2. \A s \in Signals : RowEdge(s)
    BY RowStep
  <1>r. \A s \in Signals : queue[s] \in Row /\ queue[s].stamp \in Nat /\ queue[s].stamp <= clock
    BY DEF SlotInv, StampsAreBounded, QueueInv, TypeOK, Row
  <1>3. ASSUME NEW p \in Publishers, EnqueueSelect(p) PROVE SlotInv'
    <2>1. /\ queue' = queue /\ clock' = clock + 1 /\ clock \in Nat
          /\ pub'[p].stamp = clock + 1 /\ pub'[p].sig = pub[p].sig
          /\ pub'[p].seen = ActiveIn(SlotOf[pub[p].sig])
          /\ \A q \in Publishers \ {p} : pub'[q] = pub[q]
      BY <1>3 DEF EnqueueSelect, QueueInv, TypeOK
    <2>2. \A q \in Publishers : pub[q].stamp \in Nat
      BY DEF QueueInv, TypeOK, PubState
    <2>3. ASSUME NEW q \in Publishers, pub'[q].pc = "selected"
          PROVE  /\ pub'[q].stamp <= clock'
                 /\ ~pub'[q].raced => \A s \in Signals :
                       SlotOf[s] = SlotOf[pub'[q].sig] => queue'[s].stamp < pub'[q].stamp
                 /\ ~pub'[q].raced => ActiveIn(SlotOf[pub[q].sig])' \subseteq pub'[q].seen
      <3>1. CASE q = p
        BY <1>r, <2>1, <3>1 DEF ActiveIn
      <3>2. CASE q # p
        BY <2>1, <2>2, <2>3, <3>2 DEF SlotInv, StampsAreBounded, SnapshotIsComplete, ActiveIn
      <3> QED BY <3>1, <3>2
    <2>4. StampsAreBounded'
      BY <1>r, <2>1, <2>3 DEF StampsAreBounded
    <2>5. SnapshotIsComplete'
      BY <2>1, <2>3 DEF SnapshotIsComplete, ActiveIn
    <2> QED BY <2>1, <2>4, <2>5 DEF SlotInv, OneActivePerSlot, NoStaleOffer, ActiveIn
  <1>4. ASSUME NEW p \in Publishers, EnqueueCommit(p) PROVE SlotInv'
    <2>1. /\ pub[p].pc = "selected" /\ clock' = clock /\ pub'[p].pc = "idle" /\ pub[p].raced \in BOOLEAN
          /\ \A q \in Publishers \ {p} :
                /\ pub'[q].pc = pub[q].pc /\ pub'[q].sig = pub[q].sig
                /\ pub'[q].seen = pub[q].seen /\ pub'[q].stamp = pub[q].stamp
                /\ pub'[q].raced <=> (pub[q].raced \/ q \in Overtaken(p))
      BY <1>4, CommitPubs DEF EnqueueCommit, IdlePub, QueueInv, TypeOK, PubState
    <2>2. CASE Blockers(p) # {}
      <3>1. ASSUME NEW s \in Signals PROVE ~Inserted(s)
        <4>1. ASSUME NEW q \in Publishers, EnqueueCommit(q), s = pub[q].sig, pub[q].pc = "selected",
                     queue[s].status = "ABSENT", queue'[s].status = "PENDING"
              PROVE  FALSE
          <5>1. \/ queue'[s] = queue[s]
                \/ s = pub[p].sig /\ Blockers(p) = {}
            BY <1>4, <2>2, <4>1 DEF EnqueueCommit, Superseded
          <5> QED BY <2>2, <4>1, <5>1
        <4> QED BY <4>1 DEF Inserted
      <3>2. \A q \in Publishers : pub'[q].pc = "selected" => pub'[q] = pub[q]
        <4> SUFFICES ASSUME NEW q \in Publishers \ {p} PROVE pub'[q] = pub[q]
          BY <2>1
        <4>1. Overtaken(p) = {} /\ pub[q] \in PubState
          BY <2>2 DEF Overtaken, QueueInv, TypeOK
        <4>2. pub'[q] = [pub[q] EXCEPT !.raced = pub[q].raced]
          BY <1>4, <4>1 DEF EnqueueCommit, PubState
        <4> QED BY <4>1, <4>2 DEF PubState
      <3> QED BY <1>1, <1>2, <2>1, <3>1, <3>2, QuietSlotStep
    <2>3. CASE Blockers(p) = {}
      <3> DEFINE new == pub[p].sig
      <3>1. new \in Signals /\ queue[new].status = "ABSENT"
        BY <2>1, QueueAssumption DEF QueueInv, PublisherOwnsSignal
      <3>2. queue'[new] = NewRow(p)
        BY <1>4, <2>3, <3>1 DEF EnqueueCommit, Superseded
      <3>3. \A s \in Signals \ {new} :
              /\ queue'[s].stamp = queue[s].stamp /\ queue'[s].raced = queue[s].raced
              /\ queue'[s].status \in Active => queue[s].status \in Active
              /\ queue'[s].status = "PENDING" => queue[s].status = "PENDING"
              /\ queue'[s].attempts > 0 => queue[s].attempts > 0 \/ queue[s].status = "PENDING"
        <4> SUFFICES ASSUME NEW s \in Signals \ {new}
                     PROVE  /\ queue'[s].stamp = queue[s].stamp /\ queue'[s].raced = queue[s].raced
                            /\ queue'[s].status \in Active => queue[s].status \in Active
                            /\ queue'[s].status = "PENDING" => queue[s].status = "PENDING"
                            /\ queue'[s].attempts > 0 => queue[s].attempts > 0 \/ queue[s].status = "PENDING"
          OBVIOUS
        <4>1. CASE s \in Superseded(p)
          BY <1>4, <1>r, <4>1 DEF EnqueueCommit, Superseded, Row, Active, InFlight
        <4>2. CASE s \notin Superseded(p)
          BY <1>4, <4>2 DEF EnqueueCommit
        <4> QED BY <4>1, <4>2
      <3>4. ASSUME NEW s \in Signals \ {new}, SlotOf[s] = SlotOf[new], ~pub[p].raced
            PROVE  queue'[s].status \notin Active
        <4>1. CASE s \in Superseded(p)
          BY <1>4, <1>r, <4>1 DEF EnqueueCommit, Active, InFlight, Row
        <4>2. CASE s \notin Superseded(p)
          <5>1. queue'[s] = queue[s]
            BY <1>4, <4>2 DEF EnqueueCommit
          <5>2. queue[s].status \in Active => s \in pub[p].seen
            BY <2>1, <3>4 DEF SlotInv, SnapshotIsComplete, ActiveIn
          <5>3. queue[s].status \notin Active
            BY <2>3, <4>2, <5>2 DEF Superseded, Blockers, Active
          <5> QED BY <5>1, <5>3
        <4> QED BY <4>1, <4>2
      <3>6. /\ queue'[new].stamp = pub[p].stamp /\ queue'[new].attempts = 0
            /\ queue'[new].raced = pub[p].raced
            /\ pub[p].stamp \in Nat /\ pub[p].stamp <= clock
        BY <2>1, <3>2 DEF NewRow, NoRow, SlotInv, StampsAreBounded, QueueInv, TypeOK, PubState
      <3>o. ~pub[p].raced => \A s \in Signals : SlotOf[s] = SlotOf[new] => queue[s].stamp < pub[p].stamp
        BY <2>1 DEF SlotInv, StampsAreBounded
      <3> HIDE DEF new
      <3>5. OneActivePerSlot'
        <4> SUFFICES ASSUME NEW s \in Signals, NEW t \in Signals, SlotOf[s] = SlotOf[t],
                            queue'[s].status \in Active, queue'[t].status \in Active,
                            ~queue'[s].raced, ~queue'[t].raced
                     PROVE  s = t
          BY DEF OneActivePerSlot, ActiveIn
        <4>1. CASE s = new \/ t = new
          BY <3>4, <3>6, <4>1
        <4>2. CASE s # new /\ t # new
          <5>1. /\ s \in ActiveIn(SlotOf[s]) /\ t \in ActiveIn(SlotOf[s]) /\ SlotOf[s] \in Slots
                /\ ~queue[s].raced /\ ~queue[t].raced
            BY <3>3, <4>2, QueueAssumption DEF ActiveIn
          <5> QED BY <5>1 DEF SlotInv, OneActivePerSlot
        <4> QED BY <4>1, <4>2
      <3>7. NoStaleOffer'
        <4> SUFFICES ASSUME NEW s \in Signals, NEW t \in Signals, SlotOf[s] = SlotOf[t],
                            queue'[t].attempts > 0, queue'[s].stamp < queue'[t].stamp,
                            queue'[s].status = "PENDING", ~queue'[s].raced, ~queue'[t].raced
                     PROVE  FALSE
          BY DEF NoStaleOffer
        <4>1. t # new
          BY <3>6
        <4>2. CASE s = new
          <5>1. queue'[t].stamp = queue[t].stamp
            BY <3>3, <4>1
          <5>2. queue[t].stamp < pub[p].stamp
            BY <3>6, <3>o, <4>2
          <5> QED BY <1>r, <3>6, <4>2, <5>1, <5>2
        <4>3. CASE s # new
          <5>1. /\ queue[s].status = "PENDING" /\ queue[s].stamp < queue[t].stamp
                /\ ~queue[s].raced /\ ~queue[t].raced
            BY <3>3, <4>1, <4>3
          <5>2. queue[t].status = "PENDING"
            BY <3>3, <4>1, <5>1 DEF SlotInv, NoStaleOffer
          <5>3. s \in ActiveIn(SlotOf[s]) /\ t \in ActiveIn(SlotOf[s]) /\ SlotOf[s] \in Slots
            BY <5>1, <5>2, QueueAssumption DEF ActiveIn, Active
          <5>4. s = t
            BY <5>1, <5>3 DEF SlotInv, OneActivePerSlot
          <5> QED BY <1>r, <5>1, <5>4
        <4> QED BY <4>2, <4>3
      <3>8. ASSUME NEW q \in Publishers, pub'[q].pc = "selected"
            PROVE  /\ pub'[q].stamp <= clock'
                   /\ ~pub'[q].raced => \A s \in Signals :
                         SlotOf[s] = SlotOf[pub'[q].sig] => queue'[s].stamp < pub'[q].stamp
                   /\ ~pub'[q].raced => ActiveIn(SlotOf[pub[q].sig])' \subseteq pub'[q].seen
        <4>1. q # p /\ pub[q].pc = "selected" /\ pub'[q].sig = pub[q].sig
              /\ pub'[q].stamp = pub[q].stamp /\ pub'[q].seen = pub[q].seen
          BY <2>1, <3>8
        <4>2. ~pub'[q].raced => ~pub[q].raced /\ SlotOf[pub[q].sig] # SlotOf[new]
          BY <2>1, <2>3, <4>1 DEF Overtaken, new
        <4>3. ASSUME ~pub'[q].raced, NEW s \in Signals, SlotOf[s] = SlotOf[pub[q].sig]
              PROVE  s # new /\ queue[s].stamp < pub[q].stamp
          BY <4>1, <4>2, <4>3 DEF SlotInv, StampsAreBounded
        <4>4. pub[q].stamp <= clock
          BY <4>1 DEF SlotInv, StampsAreBounded
        <4>5. ~pub'[q].raced => ActiveIn(SlotOf[pub[q].sig])' \subseteq pub[q].seen
          BY <3>3, <4>1, <4>2, <4>3 DEF SlotInv, SnapshotIsComplete, ActiveIn
        <4> QED BY <2>1, <3>3, <4>1, <4>3, <4>4, <4>5 DEF ActiveIn
      <3>9. StampsAreBounded'
        <4>1. \A s \in Signals : queue'[s].stamp <= clock'
          BY <1>r, <2>1, <3>3, <3>6
        <4> QED BY <3>8, <4>1 DEF StampsAreBounded
      <3>10. SnapshotIsComplete'
        BY <3>8 DEF SnapshotIsComplete, ActiveIn
      <3> QED BY <3>5, <3>7, <3>9, <3>10 DEF SlotInv
    <2> QED BY <2>2, <2>3
  <1>5. CASE ~ \E p \in Publishers : EnqueueSelect(p) \/ EnqueueCommit(p)
    <2>1. \A s \in Signals : ~Inserted(s)
      BY <1>5 DEF Inserted
    <2>2. ASSUME NEW q \in Publishers, NEW s \in Signals, EnqueueCheck(q, s)
          PROVE  clock' = clock /\ \A p \in Publishers : pub'[p].pc = "selected" => pub'[p] = pub[p]
      <3>1. pub'[q].pc = "checked" /\ clock' = clock /\ \A p \in Publishers \ {q} : pub'[p] = pub[p]
        BY <2>2 DEF EnqueueCheck, IdlePub, QueueInv, TypeOK
      <3> QED BY <3>1
    <2>3. ASSUME NEW q \in Publishers, EnqueueAbort(q)
          PROVE  clock' = clock /\ \A p \in Publishers : pub'[p].pc = "selected" => pub'[p] = pub[p]
      <3>1. pub'[q].pc = "idle" /\ clock' = clock /\ \A p \in Publishers \ {q} : pub'[p] = pub[p]
        BY <2>3 DEF EnqueueAbort, IdlePub, QueueInv, TypeOK
      <3> QED BY <3>1
    <2>4. ASSUME UNCHANGED <<clock, pub>>
          PROVE  clock' = clock /\ \A p \in Publishers : pub'[p].pc = "selected" => pub'[p] = pub[p]
      BY <2>4
    <2>6. ASSUME ServerRestart
          PROVE  clock' = clock /\ \A p \in Publishers : pub'[p].pc = "selected" => pub'[p] = pub[p]
      BY <2>6 DEF ServerRestart, IdlePub
    <2>5. clock' = clock /\ \A p \in Publishers : pub'[p].pc = "selected" => pub'[p] = pub[p]
      BY <1>5, <2>2, <2>3, <2>4, <2>6
         DEF Next, Enqueue, Poll, EnqueueRefused, PollCheck, PollSelect, PollClaim, PollAbort, ClaimById,
             LeaseRunsOut, Ack, SetEmergencyStop, queueVars
    <2> QED BY <1>1, <1>2, <2>1, <2>5, QuietSlotStep
  <1> QED BY <1>3, <1>4, <1>5

\* It holds in every state.
LEMMA SlotInvariant == Spec => []SlotInv
  BY InitSlotInv, QueueInvariant, SlotStep, PTL DEF Spec

\* An account has two live rows for a symbol only if the publication of one of them
\* raced another; so never where publications come one at a time.
THEOREM OneLiveRowPerSlot == Spec => []OneActivePerSlot
  <1>1. SlotInv => OneActivePerSlot
    BY DEF SlotInv
  <1> QED BY SlotInvariant, <1>1, PTL

\* An executor that was handed a signal is never offered an older one of the same slot,
\* unless the publication of one of the two raced another.
THEOREM OffersAreNeverStale == Spec => []NoStaleOffer
  <1>1. SlotInv => NoStaleOffer
    BY DEF SlotInv
  <1> QED BY SlotInvariant, <1>1, PTL
=============================================================================
