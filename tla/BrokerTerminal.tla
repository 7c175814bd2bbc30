--------------------------- MODULE BrokerTerminal ---------------------------
(***************************************************************************)
(* What the worker of one account does with its MetaTrader terminal        *)
(* (adapters/mt5_adapter.py, mt5_execution_service.py, handle_job of       *)
(* worker/mt5_worker.py).  The worker handles one job after the other; the *)
(* broker fills orders and closes positions whenever it likes, and an      *)
(* order_send may end without an answer, or with one that leaves open      *)
(* whether the broker has executed the order.                              *)
(***************************************************************************)
EXTENDS ServerRequests

CONSTANTS Tickets,   \* bound: positions and pending orders ever opened
          Lots,      \* volumes a request may ask for, in the smallest units
          LotStep, LotMin, LotMax, \* what the broker trades
          Fillings,  \* filling modes that are tried, in their order 1..Fillings
          MaxJobs    \* bound: jobs handled

ASSUME TerminalAssumption ==
    /\ Lots \subseteq Nat \ {0}
    /\ {LotStep, LotMin, LotMax, Fillings, MaxJobs} \subseteq Nat \ {0}
    /\ LotMin <= LotMax

VARIABLES connected, \* the terminal is logged in, on a demo account
          position,  \* open volume of each ticket
          resting,   \* tickets of the pending orders
          unused,    \* tickets that the broker has not given out
          job,       \* the job that is handled
          handled    \* how many jobs were handled

terminalVars == <<connected, position, resting, unused, job, handled>>

\* What clients may ask for, and the data queries, which change nothing.
JobKinds == {"market_order", "pending_order", "modify_position", "close_position",
             "cancel_order", "query"}

\* sent: attempts so far; deals: how many of them the broker executed or keeps as an order;
\* silent: how many had no answer; open: one was answered with a code that leaves its outcome
\* open; told: the result that was pushed.
JobState == [kind : JobKinds \cup {"none"}, ticket : Tickets \cup {0}, lots : Lots \cup {0},
             sent : 0..Fillings, deals : 0..Fillings, silent : 0..Fillings,
             open : BOOLEAN, told : {"nothing yet", "done", "rejected", "failed"}]
NoJob == [kind |-> "none", ticket |-> 0, lots |-> 0, sent |-> 0, deals |-> 0,
          silent |-> 0, open |-> FALSE, told |-> "nothing yet"]

TerminalTypeOK ==
    /\ connected \in BOOLEAN
    /\ position \in [Tickets -> Nat]
    /\ resting \in SUBSET Tickets
    /\ unused \in SUBSET Tickets
    /\ job \in JobState
    /\ handled \in 0..MaxJobs

TerminalInit ==
    /\ connected = FALSE
    /\ position = [t \in Tickets |-> 0]
    /\ resting = {}
    /\ unused = Tickets
    /\ job = NoJob
    /\ handled = 0

-----------------------------------------------------------------------------
IsBusy == job.kind # "none" /\ job.told = "nothing yet"

\* MT5ExecutionService.connect looks at the name of the server, _connect_sync at the trade mode
\* of the account; a terminal of another account is shut down again.
ConnectTerminal(named, mode) ==
    /\ Arrives("job")
    /\ ~connected
    /\ connected' = (named /\ mode = "demo")
    /\ UNCHANGED <<position, resting, unused, job, handled>>

\* The worker has idled out or was stopped.
DisconnectTerminal ==
    /\ connected /\ ~IsBusy
    /\ connected' = FALSE
    /\ job' = NoJob
    /\ UNCHANGED <<position, resting, unused, handled>>

TakeJob(kind, ticket, lots) ==
    /\ connected /\ ~IsBusy
    /\ handled < MaxJobs
    /\ handled' = handled + 1
    /\ (ticket = 0) = (kind \in {"market_order", "pending_order", "query"})
    /\ kind \in {"modify_position", "cancel_order", "query"} => lots = 0
    /\ kind \in {"market_order", "pending_order"} => lots # 0
    /\ job' = [NoJob EXCEPT !.kind = kind, !.ticket = ticket, !.lots = lots]
    /\ UNCHANGED <<connected, position, resting, unused>>

Pushed(result) == job' = [job EXCEPT !.told = result]

\* round() of Python: a half goes to the even neighbour.
Rounded(n, step) ==
    LET down == n \div step
        rest == 2 * (n % step)
    IN  IF rest > step \/ (rest = step /\ down % 2 = 1) THEN down + 1 ELSE down

\* The volume of a market order: the nearest step, within the limits of the symbol.
VolumeSent(lots) ==
    LET stepped == Rounded(lots, LotStep) * LotStep
        capped  == IF stepped < LotMax THEN stepped ELSE LotMax
    IN  AtLeast(capped, LotMin)

\* The symbol cannot be selected or has no tick, or the position is gone: nothing is sent.
JobIsRefused ==
    /\ IsBusy
    /\ job.sent = 0
    /\ job.kind # "cancel_order"
    /\ Pushed("failed")
    /\ UNCHANGED <<connected, position, resting, unused, handled>>

\* A data query pushes what the terminal says.
AnswerQuery ==
    /\ IsBusy
    /\ job.kind = "query"
    /\ Pushed("done")
    /\ UNCHANGED <<connected, position, resting, unused, handled>>

\* What order_send returns.  "done" stands for DONE and DONE_PARTIAL, "placed" for PLACED: the
\* broker has the order and need not have executed it.  "invalid fill" and "refused" say that
\* nothing was done.  "unsettled" stands for codes such as TIMEOUT, CONNECTION and ERROR, and
\* "silence" for None: after these the broker may have the order or not.
SendReplies == {"done", "placed", "invalid fill", "refused", "unsettled", "silence"}
SendOutcomes == {"deal", "resting", "nothing"}

Fits(answer, outcome) ==
    /\ answer = "done" => outcome = "deal"
    /\ answer = "placed" => outcome # "nothing"
    /\ answer \in {"invalid fill", "refused"} => outcome = "nothing"

\* Mutation: the loop over the filling modes goes on after a code that settles nothing, too.
TriesUnsettled(answer) == answer \in {"silence", "invalid fill", "unsettled"}

\* The loop over the filling modes goes on when there was no answer, or the mode was refused.
TriesOn(answer) == answer \in {"silence", "invalid fill"}

\* What _send_market_sync makes of the last answer: it raises when there was none, and takes
\* every code but three for a rejection.
Verdict(answer) ==
    CASE answer = "silence" -> "failed"
      [] answer \in {"done", "placed"} -> "done"
      [] OTHER -> "rejected"

\* How the counts of a job go on.
Attempted(answer, outcome, told) ==
    [job EXCEPT !.sent = @ + 1,
                !.deals = @ + (IF outcome = "nothing" THEN 0 ELSE 1),
                !.silent = @ + (IF answer = "silence" THEN 1 ELSE 0),
                !.open = @ \/ answer = "unsettled",
                !.told = told]

\* One order_send of _send_market_sync.  handle_job pushes success for a rejection as well:
\* the result inside says "rejected".
SendMarketOrder(answer, outcome) ==
    /\ IsBusy
    /\ job.kind = "market_order"
    /\ Fits(answer, outcome)
    /\ \/ /\ outcome = "nothing"
          /\ UNCHANGED <<position, resting, unused>>
       \/ \E t \in unused :
             /\ unused' = unused \ {t}
             /\ \/ /\ outcome = "deal"
                   /\ position' = [position EXCEPT ![t] = VolumeSent(job.lots)]
                   /\ UNCHANGED resting
                \/ /\ outcome = "resting"
                   /\ resting' = resting \cup {t}
                   /\ UNCHANGED position
    /\ job' = Attempted(answer, outcome, IF TriesOn(answer) /\ job.sent + 1 < Fillings
                                          THEN job.told ELSE Verdict(answer))
    /\ UNCHANGED <<connected, handled>>

\* What one order_send of the other jobs does once the broker has executed it.
Effect ==
    \/ /\ job.kind = "pending_order"
       /\ \E t \in unused :
             /\ resting' = resting \cup {t}
             /\ unused' = unused \ {t}
       /\ UNCHANGED position
    \/ /\ job.kind = "modify_position"
       /\ position[job.ticket] > 0
       /\ UNCHANGED <<position, resting, unused>>
    \/ /\ job.kind = "close_position"
       /\ position[job.ticket] > 0 /\ position[job.ticket] >= job.lots
       /\ position' = [position EXCEPT ![job.ticket] = IF job.lots = 0 THEN 0 ELSE @ - job.lots]
       /\ UNCHANGED <<resting, unused>>
    \/ /\ job.kind = "cancel_order"
       /\ job.ticket \in resting
       /\ resting' = resting \ {job.ticket}
       /\ UNCHANGED <<position, unused>>

\* TradeExecutionResponse is a pydantic model, and these four methods build it from positional
\* arguments: that raises, and handle_job pushes a failure whatever the broker has done.
ResultOfOther(answer) == "failed"

SendOther(answer, outcome) ==
    /\ IsBusy
    /\ job.kind \notin {"market_order", "query"}
    /\ answer # "invalid fill" /\ Fits(answer, outcome)
    /\ IF outcome = "deal" THEN Effect ELSE UNCHANGED <<position, resting, unused>>
    /\ job' = Attempted(answer, outcome, ResultOfOther(answer))
    /\ UNCHANGED <<connected, handled>>

\* At the broker: a stop, a take profit or another client closes a position.
PositionEnds(t) ==
    /\ position[t] > 0
    /\ position' = [position EXCEPT ![t] = 0]
    /\ UNCHANGED <<connected, resting, unused, job, handled>>

\* An order that rests is filled, or it lapses.
RestingOrderEnds(t) ==
    /\ t \in resting
    /\ resting' = resting \ {t}
    /\ \E lots \in Lots \cup {0} : position' = [position EXCEPT ![t] = lots]
    /\ UNCHANGED <<connected, unused, job, handled>>

TerminalNext ==
    \/ \E named \in BOOLEAN, mode \in {"demo", "real"} : ConnectTerminal(named, mode)
    \/ DisconnectTerminal
    \/ \E kind \in JobKinds, t \in Tickets \cup {0}, lots \in Lots \cup {0} : TakeJob(kind, t, lots)
    \/ JobIsRefused
    \/ AnswerQuery
    \/ \E answer \in SendReplies, outcome \in SendOutcomes :
          SendMarketOrder(answer, outcome) \/ SendOther(answer, outcome)
    \/ \E t \in Tickets : PositionEnds(t) \/ RestingOrderEnds(t)

-----------------------------------------------------------------------------
\* However many filling modes are tried, the broker gets one order more than there were attempts
\* without any answer, at most (mt5_adapter.py:145-152): a second order needs such an attempt,
\* and a code that leaves open what became of an attempt ends the loop.  The client is told of
\* success only if the broker has the order (it need not be filled: PLACED is a success), and
\* of anything else only if each order the broker has went unanswered, or was answered with a
\* code that leaves its outcome open.
OneOrderOneDeal ==
    /\ job.deals <= job.silent + 1
    /\ job.kind = "market_order" =>
          /\ job.told = "done" => job.deals >= 1
          /\ job.told # "done" /\ ~job.open => job.deals <= job.silent

\* The result of a job says what became of it: a trade that the broker has executed is not
\* reported as a failure, unless the terminal gave no answer or one that leaves it open
\* (schemas/trading.py:200-207).
TradesAreReported == job.told = "failed" /\ job.deals > 0 => job.silent > 0 \/ job.open
=============================================================================
