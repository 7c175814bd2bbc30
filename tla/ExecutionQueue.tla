--------------------------- MODULE ExecutionQueue ---------------------------
(***************************************************************************)
(* The durable execution queue of the API server: table                    *)
(* aegis_execution_queue, the service DurableExecutionQueueService that    *)
(* runs transactions on it, the two poll endpoints and the emergency stop  *)
(* that guards them.  PostgreSQL runs at READ COMMITTED: a SELECT ... FOR  *)
(* UPDATE chooses its rows from the snapshot taken when it starts, waits   *)
(* for their locks, and looks at them again once it holds them.            *)
(*                                                                         *)
(* A signal id is a fresh uuid4, so it stands for one payload: the account *)
(* and symbol it is for (SlotOf) and whether is_execution_authorized       *)
(* admits it (Authorised).  The claim token is written in the transaction  *)
(* that increments attempt_count, so a row has a stored token exactly when *)
(* attempts > 0.                                                           *)
(***************************************************************************)
EXTENDS Naturals

CONSTANTS Signals,     \* signal ids
          Slots,       \* account|symbol pairs
          SlotOf,      \* the slot each signal is for
          Authorised,  \* the signals whose payload may be executed
          ClaimedById, \* the signals some caller claims by id
          Publishers,  \* enqueue requests that may be in progress at once
          Pollers,     \* poll requests that may be in progress at once
          NoSignal

ASSUME QueueAssumption ==
    /\ SlotOf \in [Signals -> Slots]
    /\ Authorised \subseteq Signals
    /\ ClaimedById \subseteq Signals
    /\ NoSignal \notin Signals

VARIABLES queue,   \* the rows of aegis_execution_queue
          fresh,   \* signal ids not minted yet
          clock,   \* stands for created_at: the order in which rows were stamped
          stop,    \* the emergency_stop key of aegis_operational_control
          pub,     \* enqueue requests in progress
          poll     \* poll requests in progress

queueVars == <<queue, fresh, clock, stop, pub, poll>>

Terminal == {"ACKED", "REJECTED", "EXPIRED"}
InFlight == {"CLAIMED", "SUBMISSION_UNCERTAIN"}
Active   == {"PENDING"} \cup InFlight
Status   == {"ABSENT"} \cup Active \cup Terminal

\* raced is no column: another row of the slot was inserted after this one's publication
\* had looked at the slot, and before it was committed.
Row == [status : Status, stamp : Nat, attempts : Nat, overdue : BOOLEAN, raced : BOOLEAN]

NoRow   == [status |-> "ABSENT", stamp |-> 0, attempts |-> 0, overdue |-> FALSE, raced |-> FALSE]
IdlePub == [pc |-> "idle", sig |-> NoSignal, seen |-> {}, stamp |-> 0, raced |-> FALSE]
IdlePoll == [pc |-> "idle", slots |-> {}, chosen |-> {}]

PubState  == [pc : {"idle", "checked", "selected"}, sig : Signals \cup {NoSignal},
              seen : SUBSET Signals, stamp : Nat, raced : BOOLEAN]
PollState == [pc : {"idle", "checked", "selected"}, slots : SUBSET Slots,
              chosen : SUBSET Signals]

TypeOK ==
    /\ queue \in [Signals -> Row]
    /\ fresh \subseteq Signals
    /\ clock \in Nat
    /\ stop \in BOOLEAN
    /\ pub \in [Publishers -> PubState]
    /\ poll \in [Pollers -> PollState]

Init ==
    /\ queue = [s \in Signals |-> NoRow]
    /\ fresh = Signals
    /\ clock = 0
    /\ stop = FALSE
    /\ pub = [p \in Publishers |-> IdlePub]
    /\ poll = [w \in Pollers |-> IdlePoll]

-----------------------------------------------------------------------------
(* enqueue: one transaction, three database round trips. *)

\* The stop flag is read; a refused request inserts nothing and the publisher
\* never offers that signal id again.
EnqueueRefused(p, s) ==
    /\ pub[p].pc = "idle" /\ s \in fresh
    /\ s \notin Authorised \/ stop
    /\ fresh' = fresh \ {s}
    /\ UNCHANGED <<queue, clock, stop, pub, poll>>

EnqueueCheck(p, s) ==
    /\ pub[p].pc = "idle" /\ s \in fresh
    /\ s \in Authorised /\ ~stop
    /\ fresh' = fresh \ {s}
    /\ pub' = [pub EXCEPT ![p] = [IdlePub EXCEPT !.pc = "checked", !.sig = s]]
    /\ UNCHANGED <<queue, clock, stop, poll>>

ActiveIn(k) == {s \in Signals : SlotOf[s] = k /\ queue[s].status \in Active}

\* The row is stamped and the SELECT ... FOR UPDATE takes its snapshot.
EnqueueSelect(p) ==
    /\ pub[p].pc = "checked"
    /\ clock' = clock + 1
    /\ pub' = [pub EXCEPT ![p] = [pc |-> "selected", sig |-> pub[p].sig, stamp |-> clock + 1,
                                   seen |-> ActiveIn(SlotOf[pub[p].sig]), raced |-> FALSE]]
    /\ UNCHANGED <<queue, fresh, stop, poll>>

\* The locks are held: the rows of the snapshot are looked at as they are now.
\* Those still PENDING are superseded, those in flight forbid the insertion.
\* Mutations: nothing is superseded; every row of the snapshot is, whatever it
\* has become; an uncertain row does not block.
SupersededNone(p)       == {}
SupersededBySnapshot(p) == pub[p].seen
BlockersClaimedOnly(p)  == {s \in pub[p].seen : queue[s].status = "CLAIMED"}

Superseded(p) == {s \in pub[p].seen : queue[s].status = "PENDING"}
Blockers(p)   == {s \in pub[p].seen : queue[s].status \in InFlight}

NewRow(p) == [NoRow EXCEPT !.status = "PENDING", !.stamp = pub[p].stamp, !.raced = pub[p].raced]

\* The publications whose view of the slot misses the row p inserts.
Overtaken(p) ==
    {q \in Publishers \ {p} : /\ pub[q].pc = "selected" /\ Blockers(p) = {}
                              /\ SlotOf[pub[q].sig] = SlotOf[pub[p].sig]}

EnqueueCommit(p) ==
    /\ pub[p].pc = "selected"
    /\ queue' = [s \in Signals |->
                    IF s \in Superseded(p) THEN [queue[s] EXCEPT !.status = "EXPIRED"]
                    ELSE IF s = pub[p].sig /\ Blockers(p) = {} THEN NewRow(p)
                    ELSE queue[s]]
    /\ pub' = [q \in Publishers |-> IF q = p THEN IdlePub
                                     ELSE [pub[q] EXCEPT !.raced = @ \/ q \in Overtaken(p)]]
    /\ UNCHANGED <<fresh, clock, stop, poll>>

\* The database or the process fails before the commit: nothing is inserted.
EnqueueAbort(p) ==
    /\ pub[p].pc # "idle"
    /\ pub' = [pub EXCEPT ![p] = IdlePub]
    /\ UNCHANGED <<queue, fresh, clock, stop, poll>>

-----------------------------------------------------------------------------
(* /pending (one slot) and /pending-batch (several slots, one transaction):  *)
(* the stop flag is read in a session of its own, before the claim's.        *)

PollCheck(w, K) ==
    /\ poll[w].pc = "idle"
    /\ ~stop
    /\ poll' = [poll EXCEPT ![w] = [IdlePoll EXCEPT !.pc = "checked", !.slots = K]]
    /\ UNCHANGED <<queue, fresh, clock, stop, pub>>

\* Mutation: a strict comparison, which no row satisfies.
IsStrictlyNewest(s) ==
    /\ queue[s].status \in Active
    /\ \A t \in ActiveIn(SlotOf[s]) : queue[t].stamp < queue[s].stamp

IsNewest(s) ==
    /\ queue[s].status \in Active
    /\ \A t \in ActiveIn(SlotOf[s]) : queue[t].stamp <= queue[s].stamp

\* get_pending's SELECT ... ORDER BY created_at DESC LIMIT 1 FOR UPDATE chooses
\* the newest active row of each slot from its snapshot, and waits for its lock.
PollSelect(w) ==
    /\ poll[w].pc = "checked"
    /\ poll' = [poll EXCEPT ![w] =
                   [@ EXCEPT !.pc = "selected",
                             !.chosen = {s \in Signals : SlotOf[s] \in poll[w].slots /\ IsNewest(s)}]]
    /\ UNCHANGED <<queue, fresh, clock, stop, pub>>

\* Mutations of get_pending: an expired lease makes the row PENDING again; the
\* lease is never looked at; the claim writes a status no transaction knows.
GetPendingRowRedelivers(s) ==
    CASE queue[s].status = "PENDING" -> [queue[s] EXCEPT !.status = "CLAIMED", !.attempts = @ + 1]
      [] queue[s].status = "CLAIMED" /\ queue[s].overdue ->
             [queue[s] EXCEPT !.status = "PENDING", !.overdue = FALSE]
      [] OTHER -> queue[s]

GetPendingRowTrustsLease(s) ==
    IF queue[s].status = "PENDING"
    THEN [queue[s] EXCEPT !.status = "CLAIMED", !.attempts = @ + 1] ELSE queue[s]

GetPendingRowMisspelt(s) ==
    IF queue[s].status = "PENDING"
    THEN [queue[s] EXCEPT !.status = "DELIVERED", !.attempts = @ + 1] ELSE queue[s]

\* get_pending on the row it chose, under its lock.
GetPendingRow(s) ==
    LET row == queue[s] IN
    CASE s \notin Authorised -> [row EXCEPT !.status = "EXPIRED"]
      [] s \in Authorised /\ row.status = "PENDING" ->
             [row EXCEPT !.status = "CLAIMED", !.attempts = @ + 1]
      [] s \in Authorised /\ row.status = "CLAIMED" /\ row.overdue ->
             [row EXCEPT !.status = "SUBMISSION_UNCERTAIN"]
      [] OTHER -> row

\* A chosen row that is not active any more once its lock is held is not looked
\* at, and no other row is chosen in its place.
Seized(w) == {s \in poll[w].chosen : queue[s].status \in Active}

\* The signals the poll hands to its caller.
Deliverable(w) == {s \in Seized(w) \cap Authorised : queue[s].status = "PENDING"}

PollClaim(w) ==
    /\ poll[w].pc = "selected"
    /\ queue' = [s \in Signals |-> IF s \in Seized(w) THEN GetPendingRow(s) ELSE queue[s]]
    /\ poll' = [poll EXCEPT ![w] = IdlePoll]
    /\ UNCHANGED <<fresh, clock, stop, pub>>

\* The transaction fails and is rolled back; the answer is HOLD.
PollAbort(w) ==
    /\ poll[w].pc # "idle"
    /\ poll' = [poll EXCEPT ![w] = IdlePoll]
    /\ UNCHANGED <<queue, fresh, clock, stop, pub>>

\* claim: the explicit claim by signal id, which has no emergency stop check.
\* No endpoint of the server calls it.
ClaimById(s) ==
    /\ s \in ClaimedById
    /\ queue[s].status = "PENDING"
    /\ queue' = [queue EXCEPT ![s].status = "CLAIMED", ![s].attempts = @ + 1]
    /\ UNCHANGED <<fresh, clock, stop, pub, poll>>

\* More than CLAIM_LEASE_SEC passes since claimed_at.
LeaseRunsOut(s) ==
    /\ queue[s].status = "CLAIMED" /\ ~queue[s].overdue
    /\ queue' = [queue EXCEPT ![s].overdue = TRUE]
    /\ UNCHANGED <<fresh, clock, stop, pub, poll>>

-----------------------------------------------------------------------------
(* ack: a caller gives the stored token, another one, or none. *)

Tokens == {"none", "stored", "other"}

TokenMismatch(s, token) == queue[s].attempts > 0 /\ token = "other"

\* Mutation: the terminal statuses are not checked.
AckTakesEffectAlways(s, token) == queue[s].status # "ABSENT" /\ ~TokenMismatch(s, token)

\* The acknowledgement changes the row; otherwise it is an idempotent no-op
\* (no row, or a terminal one) or a refusal, and no state changes.
AckTakesEffect(s, token) == queue[s].status \in Active /\ ~TokenMismatch(s, token)

Ack(s, ok, token) ==
    /\ AckTakesEffect(s, token)
    /\ queue' = [queue EXCEPT ![s].status = IF ok THEN "ACKED" ELSE "REJECTED"]
    /\ UNCHANGED <<fresh, clock, stop, pub, poll>>

SetEmergencyStop(enabled) ==
    /\ stop # enabled
    /\ stop' = enabled
    /\ UNCHANGED <<queue, fresh, clock, pub, poll>>

\* The API process restarts: no request in progress commits.
ServerRestart ==
    /\ pub' = [p \in Publishers |-> IdlePub]
    /\ poll' = [w \in Pollers |-> IdlePoll]
    /\ UNCHANGED <<queue, fresh, clock, stop>>

-----------------------------------------------------------------------------
Enqueue(p) ==
    \/ \E s \in Signals : EnqueueRefused(p, s) \/ EnqueueCheck(p, s)
    \/ EnqueueSelect(p) \/ EnqueueCommit(p) \/ EnqueueAbort(p)

Poll(w) ==
    \/ \E K \in (SUBSET Slots) \ {{}} : PollCheck(w, K)
    \/ PollSelect(w) \/ PollClaim(w) \/ PollAbort(w)

Next ==
    \/ \E p \in Publishers : Enqueue(p)
    \/ \E w \in Pollers : Poll(w)
    \/ \E s \in Signals : ClaimById(s) \/ LeaseRunsOut(s)
    \/ \E s \in Signals, ok \in BOOLEAN, token \in Tokens : Ack(s, ok, token)
    \/ \E enabled \in BOOLEAN : SetEmergencyStop(enabled)
    \/ ServerRestart

Spec == Init /\ [][Next]_queueVars

(* Fairness.  An executor polls on a timer for as long as it runs (OnTimer), *)
(* so every slot is polled again and again; a poll may fail or find the stop *)
(* flag set any number of times, hence strong fairness.  Time passes, and a  *)
(* request the server started is carried through or aborted.                 *)
PollOf(k)  == \E w \in Pollers : PollCheck(w, {k})
SelectOf(k) == \E w \in Pollers : k \in poll[w].slots /\ PollSelect(w)
ClaimOf(s) == \E w \in Pollers : s \in poll[w].chosen /\ PollClaim(w)

Fairness ==
    /\ \A k \in Slots : SF_queueVars(PollOf(k)) /\ SF_queueVars(SelectOf(k))
    /\ \A s \in Signals : SF_queueVars(ClaimOf(s)) /\ WF_queueVars(LeaseRunsOut(s))
    /\ \A p \in Publishers : WF_queueVars(EnqueueSelect(p) \/ EnqueueCommit(p))
    /\ \A w \in Pollers : WF_queueVars(PollClaim(w) \/ PollAbort(w))

FairSpec == Spec /\ Fairness

-----------------------------------------------------------------------------
(* Properties. *)

\* However polls, lease expiries, publications and acknowledgements interleave,
\* no signal is handed to an executor twice (attempt_count of get_pending).
DeliveredAtMostOnce == \A s \in Signals : queue[s].attempts <= 1

\* A slot has two rows that could still lead to a trade only if the publication of one of
\* them raced another into the slot: otherwise enqueue expires the offer it replaces, and
\* refuses while one is in flight.
OneActivePerSlot ==
    \A k \in Slots : \A s, t \in ActiveIn(k) : s = t \/ queue[s].raced \/ queue[t].raced

\* Once a signal of a slot was handed out, no older signal of that slot is on offer any
\* more, unless the publication of one of the two raced another into the slot: executors
\* never go back to a superseded decision.
NoStaleOffer ==
    \A s, t \in Signals :
        /\ SlotOf[s] = SlotOf[t]
        /\ queue[t].attempts > 0
        /\ queue[s].stamp < queue[t].stamp
        => queue[s].status # "PENDING" \/ queue[s].raced \/ queue[t].raced

\* ACKED, REJECTED and EXPIRED rows are never written again, whatever request
\* still holds an earlier view of them.
TerminalIsFinal ==
    [][\A s \in Signals : queue[s].status \in Terminal => queue'[s] = queue[s]]_queueVars

\* A row an executor holds (CLAIMED, SUBMISSION_UNCERTAIN) ends by its
\* acknowledgement only: a publication whose snapshot still showed it PENDING
\* does not expire it, and no lease makes it deliverable again.
InFlightEndsByAck ==
    [][\A s \in Signals :
         queue[s].status \in InFlight =>
            queue'[s].status \in InFlight \cup {"ACKED", "REJECTED"}]_queueVars

\* The queue implements SignalDelivery: PENDING is offered, a row in flight is
\* in an executor's hands, attempt_count counts the handovers.
PhaseOf(status) ==
    CASE status = "ABSENT" -> "unseen"
      [] status = "PENDING" -> "offered"
      [] status \in InFlight -> "handed"
      [] status = "EXPIRED" -> "withdrawn"
      [] OTHER -> "settled"

Delivery == INSTANCE SignalDelivery
    WITH phase <- [s \in Signals |-> PhaseOf(queue[s].status)],
         hands <- [s \in Signals |-> queue[s].attempts]

DeliveryRefined == Delivery!Spec

\* With publications one at a time and a stop that is lifted again and again, no offer
\* waits for ever, and a claim whose executor never answers is found out: every row ends,
\* or becomes SUBMISSION_UNCERTAIN.
RowsEndOrTurnUncertain ==
    []<>(~stop) => \A s \in Signals :
        queue[s].status \in {"PENDING", "CLAIMED"}
            ~> queue[s].status \in Terminal \cup {"SUBMISSION_UNCERTAIN"}

\* There it stays until its executor answers, and keeps its slot: nothing is inserted
\* into the slot as long as a row of it is uncertain.
UncertainKeepsSlot ==
    [][\A s, t \in Signals :
         /\ queue[s].status = "SUBMISSION_UNCERTAIN" /\ SlotOf[t] = SlotOf[s]
         /\ queue[t].status = "ABSENT"
         => queue'[t].status = "ABSENT"]_queueVars

\* What becomes of a row that its executor abandons: it does not pass for an offer or a
\* claim for ever, but its slot is blocked until somebody acknowledges it.
AbandonedRowsTurnUncertain == RowsEndOrTurnUncertain /\ UncertainKeepsSlot
=============================================================================
