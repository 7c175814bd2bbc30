------------------------- MODULE ExecutionPipeline -------------------------
(***************************************************************************)
(* A signal's way through the whole system: the durable queue              *)
(* (ExecutionQueue), the position lifecycle (PositionLifecycle), and what  *)
(* lies between them: the process memory of the API server                 *)
(* (ExecutorSignalService, the only source of the risk amount that an      *)
(* acknowledgement books), the two transactions of /ack, and the executor  *)
(* terminal, which trades, acknowledges, repeats what was not answered,    *)
(* and forgets its acknowledgements when it restarts.                      *)
(*                                                                         *)
(* The API server is one process with one event loop.  The terminal is     *)
(* single-threaded: it waits for the answer of each request, but for no    *)
(* longer than its timeout.                                                *)
(***************************************************************************)
EXTENDS Naturals, FiniteSets

CONSTANTS Signals, Slots, SlotOf, NoSignal, Publishers, Pollers,
          RiskOf, Labelled,
          Priced,       \* the signals whose payload carries risk_usd_at_open
          FillModes,    \* how many filling modes a symbol has
          AckRequests,  \* /ack requests that may be in progress at once
          NoCall,
          Faults        \* the failures that may happen: a subset of FaultKinds

FaultKinds == {"timeout", "age", "database", "server", "terminal", "broker", "stop"}

ASSUME PipelineAssumption ==
    /\ SlotOf \in [Signals -> Slots]
    /\ NoSignal \notin Signals
    /\ IsFiniteSet(Signals)
    /\ RiskOf \in [Signals -> Nat \ {0}]
    /\ Labelled \subseteq Signals
    /\ Priced \subseteq Signals
    /\ FillModes \in Nat \ {0}
    /\ NoCall \notin Pollers \cup AckRequests \cup Signals
    /\ Pollers \cap AckRequests = {} /\ Signals \cap (Pollers \cup AckRequests) = {}
    /\ Faults \subseteq FaultKinds

VARIABLES queue, fresh, clock, stop, pub, poll,
          rows, openRisk, answered, broker, reports,
          memory,     \* executor_signals._pending: the signal kept for each slot
          completed,  \* executor_signals._completed
          request,    \* the /ack requests in progress
          terminal,   \* the executor terminal
          orders      \* what was executed for each signal

Queue     == INSTANCE ExecutionQueue WITH Authorised <- Signals, ClaimedById <- {}
Lifecycle == INSTANCE PositionLifecycle WITH Portfolio <- {TRUE}, Several <- Signals

queueVars     == <<queue, fresh, clock, stop, pub, poll>>
lifecycleVars == <<rows, openRisk, answered, broker, reports>>
processVars   == <<memory, completed>>
pipelineVars  == <<queueVars, lifecycleVars, processVars, request, terminal, orders>>

\* What an acknowledgement says: filled under a known position ticket, filled
\* under an unknown one, or not filled.
Verdict == {"filled", "unticketed", "refused"}
Ok(v)   == v # "refused"

\* first: the durable queue took this request for the first answer (idempotent
\* is False); priced: process memory had the risk amount.
Request == [pc : {"idle", "committed", "mirrored"}, sig : Signals \cup {NoSignal},
            verdict : Verdict, first : BOOLEAN, priced : BOOLEAN]
NoRequest == [pc |-> "idle", sig |-> NoSignal, verdict |-> "refused", first |-> FALSE, priced |-> FALSE]

\* call: the request the terminal waits for, or the signal it has just handled and
\* acknowledges before all else; received: signals of the last poll it has not
\* handled yet; outbox: acknowledgements not answered yet.
Terminal == [call : Pollers \cup AckRequests \cup Signals \cup {NoCall}, received : SUBSET Signals,
             handled : SUBSET Signals, outbox : [Signals -> Verdict \cup {"none"}]]
StartedTerminal == [call |-> NoCall, received |-> {}, handled |-> {},
                    outbox |-> [s \in Signals |-> "none"]]

\* placed: the orders executed; resent: how many of them the loop over the filling modes
\* sent after one that was executed under an answer that does not say so; misjudged:
\* the signal was answered as refused all the same.
Trade   == [placed : Nat, resent : Nat, misjudged : BOOLEAN]
NoTrade == [placed |-> 0, resent |-> 0, misjudged |-> FALSE]

TypeOK ==
    /\ Queue!TypeOK /\ Lifecycle!TypeOK
    /\ memory \in [Slots -> Signals \cup {NoSignal}]
    /\ completed \subseteq Signals
    /\ request \in [AckRequests -> Request]
    /\ terminal \in Terminal
    /\ orders \in [Signals -> Trade]

Init ==
    /\ Queue!Init /\ Lifecycle!Init
    /\ memory = [k \in Slots |-> NoSignal]
    /\ completed = {}
    /\ request = [h \in AckRequests |-> NoRequest]
    /\ terminal = StartedTerminal
    /\ orders = [s \in Signals |-> NoTrade]

-----------------------------------------------------------------------------
(* Publication: process memory first, then the durable queue. *)

Publish(p, s) ==
    /\ Queue!EnqueueCheck(p, s) \/ Queue!EnqueueRefused(p, s)
    /\ memory' = [memory EXCEPT ![SlotOf[s]] = s]
    /\ UNCHANGED <<lifecycleVars, completed, request, terminal, orders>>

PublishStep(p) ==
    /\ \/ Queue!EnqueueSelect(p) \/ Queue!EnqueueCommit(p)
       \/ "database" \in Faults /\ Queue!EnqueueAbort(p)
    /\ UNCHANGED <<lifecycleVars, processVars, request, terminal, orders>>

-----------------------------------------------------------------------------
(* Polls. *)

Waiting == terminal.call # NoCall
Outage  == Faults \cap {"timeout", "database", "server"} # {}

StartPoll(w, K) ==
    /\ ~Waiting /\ terminal.received = {}
    /\ Queue!PollCheck(w, K)
    /\ terminal' = [terminal EXCEPT !.call = w]
    /\ UNCHANGED <<lifecycleVars, processVars, request, orders>>

SelectForPoll(w) ==
    /\ Queue!PollSelect(w)
    /\ UNCHANGED <<lifecycleVars, processVars, request, terminal, orders>>

\* Process memory once the poll has gone through the slots K: the signal that
\* was claimed, or nothing.
Hydrated(w, K) ==
    [k \in Slots |->
        IF k \notin K THEN memory[k]
        ELSE IF \E s \in Queue!Deliverable(w) : SlotOf[s] = k
             THEN CHOOSE s \in Queue!Deliverable(w) : SlotOf[s] = k
             ELSE NoSignal]

\* The answer reaches the terminal if it still waits for it.
AnswerPoll(w, S) ==
    terminal' = IF terminal.call = w
                THEN [terminal EXCEPT !.call = NoCall, !.received = S] ELSE terminal

ClaimForPoll(w) ==
    /\ Queue!PollClaim(w)
    /\ memory' = Hydrated(w, poll[w].slots)
    /\ AnswerPoll(w, Queue!Deliverable(w))
    /\ UNCHANGED <<lifecycleVars, completed, request, orders>>

\* A batch that fails keeps what it has put into process memory so far.
FailPoll(w) ==
    /\ "database" \in Faults
    /\ Queue!PollAbort(w)
    /\ \E K \in SUBSET poll[w].slots :
          /\ K # {} => poll[w].pc = "selected"
          /\ memory' = Hydrated(w, K)
    /\ AnswerPoll(w, {})
    /\ UNCHANGED <<lifecycleVars, completed, request, orders>>

-----------------------------------------------------------------------------
(* The terminal trades (HandleSignalJsonObject, ExecuteTradeOn). *)

\* SignalAlreadyExecuted looks for the signal id in the comments of positions
\* and deals, which the broker truncates.
FoundInComments(s) == s \in Labelled /\ orders[s].placed > 0

HasOpenPosition(k) == \E s \in Signals : SlotOf[s] = k /\ broker[s] = "open"

\* The signal is marked as handled and acknowledged.
Answer(s, v) ==
    terminal' = [terminal EXCEPT !.call = s, !.received = @ \ {s},
                                 !.handled = @ \cup {s}, !.outbox[s] = v]

Handles(s) == ~Waiting /\ s \in terminal.received

\* Handled before, excluded by its methodology, no filling mode, or a transient
\* refusal: dropped without an acknowledgement.
DropSignal(s) ==
    /\ Handles(s)
    /\ \E H \in {terminal.handled, terminal.handled \cup {s}} :
          terminal' = [terminal EXCEPT !.received = @ \ {s}, !.handled = H]
    /\ UNCHANGED <<queueVars, lifecycleVars, processVars, request, orders>>

\* Answered without a trade: stale, unresolved, a position is open already, or
\* the broker refuses; what was executed already is answered as a success.
AnswerOnly(s) ==
    /\ Handles(s) /\ s \notin terminal.handled
    /\ Answer(s, IF FoundInComments(s) THEN "unticketed" ELSE "refused")
    /\ UNCHANGED <<queueVars, lifecycleVars, processVars, request, orders>>

CanOpen(s) ==
    /\ s \notin terminal.handled
    /\ ~FoundInComments(s)
    /\ ~HasOpenPosition(SlotOf[s])

\* How many orders one call of ExecuteTradeOn gets executed.  It sends the order with each
\* filling mode in turn, and the broker may execute one and answer with a code that is
\* neither done nor INVALID_FILL nor transient: the next mode is tried then.
Executions == IF "broker" \in Faults THEN 1 .. FillModes ELSE {1}

OpenPosition(s, n, misjudged) ==
    /\ orders' = [orders EXCEPT ![s] = [placed |-> @.placed + n, resent |-> @.resent + (n - 1),
                                        misjudged |-> misjudged]]
    /\ broker' = [broker EXCEPT ![s] = "open"]
    /\ UNCHANGED <<rows, openRisk, answered, reports>>

\* The last of the orders sent is answered as done.
FillSignal(s, v, n) ==
    /\ Handles(s) /\ CanOpen(s) /\ Ok(v) /\ n \in Executions
    /\ OpenPosition(s, n, FALSE)
    /\ Answer(s, v)
    /\ UNCHANGED <<queueVars, processVars, request>>

\* The loop ends with a timeout or a lost connection, which the terminal takes for a
\* transient refusal although an order was executed.
FillUnnoticed(s, n) ==
    /\ "broker" \in Faults
    /\ Handles(s) /\ CanOpen(s) /\ n \in Executions
    /\ OpenPosition(s, n, FALSE)
    /\ terminal' = [terminal EXCEPT !.received = @ \ {s}]
    /\ UNCHANGED <<queueVars, processVars, request>>

\* The loop runs out of filling modes, or the retries of their limit, and the terminal
\* answers that the order failed although one was executed.
FillDenied(s, n) ==
    /\ "broker" \in Faults
    /\ Handles(s) /\ CanOpen(s) /\ n \in Executions
    /\ OpenPosition(s, n, TRUE)
    /\ Answer(s, "refused")
    /\ UNCHANGED <<queueVars, processVars, request>>

-----------------------------------------------------------------------------
(* /ack: the durable queue, process memory, then the lifecycle.  A failure of *)
(* the first transaction changes nothing and is answered with 503.            *)

\* Mutation: the answer of process memory decides what a first answer is.
FirstAckByMemory(s) == s \notin completed

\* The terminal sends no claim token.
FirstAck(s) == Queue!AckTakesEffect(s, "none")

\* Mutation: the first transaction fails and the request goes on all the same.
DurableAckSwallowed(s, v) == UNCHANGED queueVars

DurableAck(s, v) ==
    \/ Queue!Ack(s, Ok(v), "none")
    \/ ~Queue!AckTakesEffect(s, "none") /\ UNCHANGED queueVars

\* AckServerFull at once, FlushAckRetries later.
PostAck(s, h) ==
    /\ terminal.call \in {s, NoCall}
    /\ terminal.outbox[s] # "none" /\ request[h].pc = "idle"
    /\ DurableAck(s, terminal.outbox[s])
    /\ request' = [request EXCEPT ![h] =
                      [pc |-> "committed", sig |-> s, verdict |-> terminal.outbox[s],
                       first |-> FirstAck(s), priced |-> FALSE]]
    /\ terminal' = [terminal EXCEPT !.call = h]
    /\ UNCHANGED <<lifecycleVars, processVars, orders>>

\* A request ends; the terminal learns of it if it still waits.
Finish(h) ==
    /\ request' = [request EXCEPT ![h] = NoRequest]
    /\ terminal' = IF terminal.call = h
                   THEN [terminal EXCEPT !.call = NoCall, !.outbox[request[h].sig] = "none"]
                   ELSE terminal

\* ExecutorSignalService.ack: the amount is there if the payload has one, the signal is
\* still the one kept for its slot, and was not completed before.
MirrorAck(h) ==
    LET s     == request[h].sig
        found == s \notin completed /\ memory[SlotOf[s]] = s
    IN /\ request[h].pc = "committed"
       /\ memory' = IF found THEN [memory EXCEPT ![SlotOf[s]] = NoSignal] ELSE memory
       /\ completed' = completed \cup {s}
       /\ \/ /\ request[h].first
             /\ request' = [request EXCEPT ![h].pc = "mirrored", ![h].priced = found /\ s \in Priced]
             /\ UNCHANGED terminal
          \/ ~request[h].first /\ Finish(h)
       /\ UNCHANGED <<queueVars, lifecycleVars, orders>>

BookAck(h) ==
    /\ request[h].pc = "mirrored"
    /\ LET v == request[h].verdict IN
         Lifecycle!BookAck(request[h].sig, Ok(v), v = "filled", request[h].priced, TRUE)
    /\ Finish(h)
    /\ UNCHANGED <<queueVars, processVars, orders>>

\* The second transaction fails; the answer is 200 all the same.
BookAckFails(h) ==
    /\ "database" \in Faults
    /\ request[h].pc = "mirrored"
    /\ answered' = answered \cup {request[h].sig}
    /\ Finish(h)
    /\ UNCHANGED <<queueVars, rows, openRisk, broker, reports, processVars, orders>>

-----------------------------------------------------------------------------
(* Failures. *)

\* WebTimeoutMs passes, or the answer is lost; the server goes on.
TimeOut ==
    /\ "timeout" \in Faults /\ terminal.call \in Pollers \cup AckRequests
    /\ terminal' = [terminal EXCEPT !.call = NoCall]
    /\ UNCHANGED <<queueVars, lifecycleVars, processVars, request, orders>>

\* The first attempt does not reach the server, or fails there: the signal is
\* queued by QueueAckRetry.  A later attempt that fails is no step.
AttemptFails ==
    /\ Outage /\ terminal.call \in Signals
    /\ terminal' = [terminal EXCEPT !.call = NoCall]
    /\ UNCHANGED <<queueVars, lifecycleVars, processVars, request, orders>>

\* The attempts reach MaxAckRetries.
GiveUp(s) ==
    /\ Outage
    /\ ~Waiting /\ terminal.outbox[s] # "none"
    /\ terminal' = [terminal EXCEPT !.outbox[s] = "none"]
    /\ UNCHANGED <<queueVars, lifecycleVars, processVars, request, orders>>

\* A status page reads the process memory and drops a payload older than
\* max_age_sec, however late its acknowledgement is.
DropStalePayload(k) ==
    /\ "age" \in Faults
    /\ memory[k] # NoSignal
    /\ memory' = [memory EXCEPT ![k] = NoSignal]
    /\ UNCHANGED <<queueVars, lifecycleVars, completed, request, terminal, orders>>

\* An entry of _completed older than completed_ttl_sec is pruned.
PruneCompleted(s) ==
    /\ "age" \in Faults
    /\ s \in completed
    /\ completed' = completed \ {s}
    /\ UNCHANGED <<queueVars, lifecycleVars, memory, request, terminal, orders>>

\* The process dies and starts again: its memory and its requests are gone, also
\* those between the two transactions of /ack.
ServerRestart ==
    /\ "server" \in Faults
    /\ Queue!ServerRestart
    /\ memory' = [k \in Slots |-> NoSignal]
    /\ completed' = {}
    /\ request' = [h \in AckRequests |-> NoRequest]
    /\ answered' = answered \cup {request[h].sig : h \in {i \in AckRequests : request[i].first}}
    /\ terminal' = [terminal EXCEPT !.call = NoCall]
    /\ UNCHANGED <<rows, openRisk, broker, reports, orders>>

\* The terminal restarts: it forgets all but the broker's positions, which it
\* reports to the server (OnInit); the report may fail.
TerminalRestart ==
    /\ "terminal" \in Faults
    /\ terminal' = StartedTerminal
    /\ Lifecycle!TakeSnapshot \/ UNCHANGED lifecycleVars
    /\ UNCHANGED <<queueVars, processVars, request, orders>>

-----------------------------------------------------------------------------
(* Steps of one component alone. *)

QueueAlone ==
    /\ \/ "timeout" \in Faults /\ \E s \in Signals : Queue!LeaseRunsOut(s)
       \/ "stop" \in Faults /\ \E enabled \in BOOLEAN : Queue!SetEmergencyStop(enabled)
    /\ UNCHANGED <<lifecycleVars, processVars, request, terminal, orders>>

LifecycleAlone ==
    /\ \/ \E s \in Signals :
             \/ Lifecycle!BrokerClose(s) \/ Lifecycle!PositionClosed(s, TRUE)
             \/ orders[s].placed > 1 /\ Lifecycle!BrokerClosesOne(s)
       \/ \E P \in reports : Lifecycle!ReconcilePositions(P, TRUE) \/ Lifecycle!LoseSnapshot(P)
    /\ UNCHANGED <<queueVars, processVars, request, terminal, orders>>

Next ==
    \/ \E p \in Publishers : PublishStep(p) \/ \E s \in Signals : Publish(p, s)
    \/ \E w \in Pollers : \/ \E K \in (SUBSET Slots) \ {{}} : StartPoll(w, K)
                          \/ SelectForPoll(w) \/ ClaimForPoll(w) \/ FailPoll(w)
    \/ \E s \in Signals : \/ DropSignal(s) \/ AnswerOnly(s)
                          \/ \E n \in Executions : \/ \E v \in Verdict : FillSignal(s, v, n)
                                                   \/ FillUnnoticed(s, n) \/ FillDenied(s, n)
                          \/ GiveUp(s) \/ PruneCompleted(s)
                          \/ \E h \in AckRequests : PostAck(s, h)
    \/ \E h \in AckRequests : MirrorAck(h) \/ BookAck(h) \/ BookAckFails(h)
    \/ \E k \in Slots : DropStalePayload(k)
    \/ TimeOut \/ AttemptFails \/ ServerRestart \/ TerminalRestart
    \/ QueueAlone \/ LifecycleAlone

Spec == Init /\ [][Next]_pipelineVars

-----------------------------------------------------------------------------
(* Properties. *)

\* No signal is traded again once an order of it was executed, although terminals and
\* the server lose their memory, answers are lost, and the terminal does not always
\* recognise its own positions.  The exception is the loop over the filling modes, which
\* may send an order again that was executed, but only within one call of ExecuteTradeOn.
TradedAtMostOnce ==
    \A s \in Signals : /\ orders[s].placed <= 1 + orders[s].resent
                       /\ orders[s].placed <= FillModes

\* The durable row does not contradict the broker: a traded signal is neither on offer nor
\* superseded, it is rejected only if the terminal took an executed order for refused,
\* and an ACKED one was traded.
RowsTellTheTruth ==
    \A s \in Signals :
        /\ orders[s].placed > 0 =>
              queue[s].status \in
                 Queue!InFlight \cup {IF orders[s].misjudged THEN "REJECTED" ELSE "ACKED"}
        /\ queue[s].status = "ACKED" => orders[s].placed > 0

\* ack_signal, Stage 6.3: process memory completes a signal only after the durable
\* queue has, also if the process died in between.
MemoryIsNeverAhead == \A s \in completed : queue[s].status \in Queue!Terminal

\* What PositionLifecycle assumes of its callers holds: a signal reaches the lifecycle
\* once, as done only if it has a position, and not before its order was sent.
LifecycleRefined == Lifecycle!Spec

\* Stage 2.5: a successful acknowledgement that is not idempotent records the open
\* risk.  The request that answers the queue first leaves the position counted.  Not so
\* where no publisher of the queue gives a payload its amount.
AcceptedFillIsCounted ==
    [][\A h \in AckRequests, s \in Signals :
         /\ request[h].pc = "mirrored" /\ request[h].sig = s
         /\ request[h].verdict = "filled" /\ request'[h].pc = "idle"
         => Lifecycle!Counted(s)']_pipelineVars
=============================================================================
