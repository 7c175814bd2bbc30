# AEGIS platform server: a TLA+ verification project

AEGIS sends trading signals to executors (MetaTrader terminals running
`AEGIS_Executor.mq5`), trades on request through its own MetaTrader workers, and
keeps the accounts, plans, keys and payments of the people who use it. This
directory models the server's control: what its requests, loops, workers and
terminals do to the rows, keys and memory they share, and what must be true of
these whatever interleaves or fails. TLC checks the modules on small instances;
TLAPS proves the safety of the trading core and of the services around it for every
value of the constants.

## The system

| Part | State | Operations | Talks to |
|---|---|---|---|
| Durable execution queue (`durable_execution_queue.py`) | table `aegis_execution_queue`: one row per signal, status PENDING, CLAIMED, SUBMISSION_UNCERTAIN, ACKED, REJECTED, EXPIRED | `enqueue`, `get_pending`, `claim`, `ack` | publication endpoint, poll endpoints, `/ack` |
| Poll endpoints (`executor_router.py`) | none of their own | `/pending`, `/pending-batch` | emergency stop, registry, queue, process memory |
| Emergency stop (`operational_control_service.py`) | one key of `aegis_operational_control` | set, read | publication, `enqueue`, polls |
| In-memory signals (`executor_signal_service.py`) | per account and symbol, the last published or delivered payload | `publish`, `get_pending`, `ack` | publication, polls, `/ack` (the only source of the risk amount) |
| Durable position lifecycle (`durable_lifecycle_service.py`) | table `aegis_position_lifecycle`: state, ticket, `risk_usd_at_open`, `open_risk_applied` | `on_ack`, `mark_risk_recorded`, `on_close`, `reconcile`, `mark_open_risk_applied` | `/ack`, `/position-closed`, `/reconcile-positions` |
| Lifecycle mirror (`position_lifecycle_service.py`) | the same positions in memory | `on_ack`, `on_broker_close`, `reconcile_from_broker` | the last steps of the same endpoints |
| Risk budget (`portfolio_risk_service.py`, `position_sizing_engine.py`, `risk_assessment.py`) | equity, peak, tolerance, halt and `open_risk_usd` of the subscription row | equity reports, tolerance, record and release, sizing | autonomous signals, the three endpoints above |
| Autonomous signals (`autonomous_ohlc_signal_service.py`) | last bar fired per pair, sides at the broker | post of a closed bar | sizing, in-memory signals |
| Executor terminal (`AEGIS_Executor.mq5`) | handled ids, acknowledgement retries (memory), close notices (file) | poll, trade, acknowledge, detect closes, reconcile at start | `executor_router.py`, the broker |
| Job queue, worker pools, MT5 worker | Redis lists `queue:account:*`, `result:*`, credentials, a registry, local processes | submit and wait, pop, push a result, ensure, probe, stop | trading endpoints |
| Broker terminal and sessions (`mt5_adapter.py`, `credential_vault_service.py`, `broker_connection_service.py`) | positions and orders at the broker, one row of credentials, a session cache | orders, modifications, closes; store, read, rotate, disable, delete; connect, disconnect | workers, `/connect` |
| Trade copier (`trade_copier_service.py`) | add-on, tier and slaves of a master | activate, add, remove, switch, mirror | market orders, job queue |
| Subscriptions and webhooks (`subscription_service.py`, `subscription_router.py`, `startup.py`) | status, grace, portal token, recorded events, sweep loop | webhook, cancel, reveal, sweep | payment providers, workers |
| Signup and demo (`signup_session_service.py`, `/demo-signup`, first login) | a session in Redis, subscription row and key | create, claim, reference, activate a demo | payment providers, keys |
| Withdrawals (`withdrawal_service.py`, `hybrid_ratchet.py`) | ratchet row, ledger, requests | configure, apply a trade, reserve a withdrawal | trading results |
| Plan limits (`device_binding_service.py`, `trade_limit_service.py`) | bound phones, trades of the day, uses of a token | register, transfer, remove, consume | clients |
| Identity and API keys (`auth_service.py`, `security.py`, `admin_router.py`) | passwords, sessions, one-time codes, second factor, keys | register, login, reset, enable, issue, rotate, revoke, bootstrap | everybody |
| Community and notices (`community_chat_service.py`, `community_ws_hub.py`, `notification_service.py`, `billing_reminder_service.py`) | names, threads, messages, sockets, inbox, reminder marks | post, page, listen, report, emit, read, scan of a day | clients, Redis |
| Screen analysis and engines (`brain_router.py`, `indicator_history_service.py`, `signal_rule_engine_v3.py`, `engine_failover.py`) | frame history in Redis, bars, breaker | analyse a screen, post bars, evaluate, force a tier | clients |
| Rulebooks and routing (`router.py`, `registry_service.py`) | the two tables loaded at start | poll filter, route, probe | polls, analyses |
| Live short manager (`live_short_position_manager.py`) | one position | step a bar | the rulebooks' simulators |

The hard behaviours are these.

* PostgreSQL runs at READ COMMITTED. `SELECT ... FOR UPDATE` locks the rows it
  found, not those it did not find, and looks at the rows again when it has them.
  Most services do not even lock: they read, compute and write, and the ORM
  writes the columns that differ from what was read.
* Every `await` is a point where another request of the same event loop steps in.
  A poll is two sessions, `/ack` two transactions with process memory between
  them; a connect, a rotation, a demo or a reminder is a chain of them.
* Executors retry acknowledgements and closes, lose their memory when they
  restart, and send a snapshot of their positions at startup. Providers deliver
  webhooks twice. Phones replay screens late, terminals post bars again.
* Leases, time-to-live marks, grace periods and lookups expire while the one who
  relies on them is still at work.
* Redis lists are popped before the work is done; API requests time out.

`PROJECT.json` lists each hazard with its line and the properties that guard
against it; `components` lists every part and what of it is left out.

What makes the parts correct: a signal is handed to an executor and an order to a
worker at most once; a slot (account and symbol) does not accumulate live orders; a
decision that was superseded is not traded afterwards; nothing but its
acknowledgement ends a row an executor holds; `open_risk_usd` is the sum of the risks
of the positions it was told of, each added once and taken off once, in whatever order
the reports arrive; what is sized fits the budget; what is paid, withdrawn, limited,
revoked or reset stays so, up to what overlapping requests provably take away.

## Modules

| Module | What it is |
|---|---|
| `ExecutionQueue`, `ExecutionQueue_proofs` | the durable queue, the poll endpoints and the emergency stop; theorems about them |
| `SignalDelivery` | abstract: offered, handed over once, settled or withdrawn |
| `PositionLifecycle`, `PositionLifecycle_proofs` | lifecycle rows, open risk and the three endpoints that change them; theorems about them |
| `RiskLedger` | abstract: each risk is added at most once and removed at most once |
| `SumFacts` | theorems about the community modules' `SumFunctionOnSet` over finite sets |
| `ExecutionPipeline`, `ExecutionPipeline_proofs` | queue and lifecycle composed with process memory, the two transactions of `/ack`, the executor terminal, and failures; theorems about it |
| `JobQueue`, `JobQueue_proofs` | orders on their way through Redis to worker processes, and the pools that start and stop these; theorems about them |
| `RemoteCall` | abstract: an order is carried out at most once and its client is told something true, or "unknown" |
| `Subscription`, `Subscription_proofs` | webhooks, the sweep, cancellation, connection and the one-time reveal of one account; theorems about them |
| `PositionSizing` | how large an order may be (operators) |
| `RiskBudget` | equity, tolerance, halt and open risk of one account |
| `AutonomousSignals` | closed bars become sized signals within the budget |
| `PlanLimits` | phones, daily trades and download tokens of a plan |
| `Withdrawals` | the ratchet's arithmetic, and its rows under overlapping requests |
| `SignupCheckout` | a signup session and the checkouts that claim it |
| `AccountServices`, `AccountServices_proofs` | the last five followed one at a time; theorems about each of them |
| `ServerRequests` | requests that the server serves at the same time (shared by the modules below) |
| `Identity`, `ApiKeys`, `DemoSignup` | who may come in |
| `CommunityChat`, `Notifications` | what is said |
| `ScreenAnalysis`, `RuleEngine`, `EngineFailover`, `ShortPosition` | how charts are judged |
| `PairRouting` | which pairs are analysed and which are traded |
| `BrokerTerminal`, `BrokerSessions`, `PositionMirror`, `TradeCopier` | what is done at the broker |
| `PlatformServices`, `PlatformServices_proofs` | these fourteen followed one at a time; theorems about each of them |
| `MC_*` | functions, scenes and tables that the `.cfg` files give the constants |

### ExecutionQueue

A row has `status`, `stamp` (created_at), `attempts` (attempt_count) and
`overdue` (claimed_at is older than `CLAIM_LEASE_SEC`). `clock` gives stamps in
the order in which publications read the time. A signal id is a fresh uuid4, so
it stands for one payload: slot and authorisation are constants.

`enqueue` is three steps, because another transaction may run between its
database round trips: `EnqueueCheck` (authorisation, stop), `EnqueueSelect`
(stamp, snapshot of the active rows of the slot) and `EnqueueCommit` (rows of
the snapshot as they are under their locks: PENDING ones expire, those in flight
forbid the insertion). `EnqueueAbort` is any failure before the commit.
`EnqueueRefused` is the refusal by authorisation or stop.

A poll is `PollCheck` (stop flag), `PollSelect` (the newest active row of each
polled slot, from the snapshot of the SELECT) and `PollClaim`, which looks at the
chosen rows under their locks: one that is not active any more is dropped, an
unauthorised one expires, a PENDING one is claimed and handed out, a CLAIMED one
whose lease is over becomes SUBMISSION_UNCERTAIN. `PollAbort` is a transaction
that fails and is rolled back. `ClaimById` is the explicit claim, which the
server's endpoints never call. `Ack` takes the stored token, another or none;
idempotent and refused acknowledgements change nothing and are stutters.

### PositionLifecycle

One account. A row has its state, whether `position_ticket` and
`risk_usd_at_open` are set, and the nullable `open_risk_applied`. Each endpoint
is one transaction that locks what it reads, hence one step:

* `AckLifecycle` is the second transaction of `/ack`; `AckLifecycleLost` is its
  failure, after which the durable queue answers every further acknowledgement
  as idempotent and the lifecycle is not reached again. The queue's part of the
  acknowledgement, which admits each signal once, appears as `answered`.
* `PositionClosed` is `/position-closed`; it may be repeated.
* `ReconcilePositions` is `/reconcile-positions` with a snapshot taken earlier
  (`TakeSnapshot`); a snapshot may be lost.
* `priced` says whether the process still had the risk amount; `portfolio`
  whether `app.state.portfolio_risk` was there. `startup.py` always sets it, so
  `Portfolio = {TRUE}` is the deployed server, and `{TRUE, FALSE}` the degraded
  one the endpoints have code for.
* `Labelled` are the signals whose id survives in the position's comment (the
  terminal truncates comments to 31 characters).
* `Several` are the signals whose order the broker may have executed more than once:
  it closes one position first (`BrokerClosesOne`, which leaves "part"), and a
  snapshot taken then may not have the one that the row knows.

Only a payload with a risk amount makes `priced` TRUE. The one publisher of the durable
queue (`/controlled-test-signal`) sends none, so that the deployed server books its fills
as BROKER_CONFIRMED_OPEN without any amount; the tests and the recovery documents exercise
the path with one, and the lifecycle's properties are about it.

### ExecutionPipeline

The module instantiates `ExecutionQueue` (every payload authorised, nobody claims
by id) and `PositionLifecycle` (with the portfolio service) and adds

* `memory` and `completed`: `_pending` and `_completed` of `ExecutorSignalService`;
* `request`: the `/ack` requests between their two transactions. `PostAck` is the
  durable one (`DurableAck`; a failure there changes nothing and answers 503),
  `MirrorAck` the process memory, `BookAck` the lifecycle; `first` is the queue's
  answer that the acknowledgement was not idempotent, and `priced` says that
  memory still had the amount. `BookAckFails` is a failure of the second
  transaction, which is answered with 200;
* `terminal`: what the terminal waits for, the signals of its last poll, the
  handled ids and the acknowledgements without an answer. It is single-threaded:
  a signal is handled, then acknowledged at once, then the next; what was not
  answered is repeated (`PostAck` with no call in progress) or given up;
* `orders`: how many orders were executed for each signal, how many of them were sent
  again, and whether the terminal took an executed one for refused (`misjudged`),
  which nobody in the system counts.

`ExecuteTradeOn` sends the order with each filling mode in turn, up to `FillModes`, and
goes on after every code that is neither done nor transient, also one such as PLACED or
ERROR under which the broker has executed it. One call may thus have several orders
executed (`Executions`) and end in three ways: the last is done and acknowledged
(`FillSignal`), a transient code drops the signal without an acknowledgement
(`FillUnnoticed`), or the modes, or the retries of their limit, run out and a failure is
acknowledged (`FillDenied`).

`Faults` names the failures that may happen: `timeout` (the terminal stops waiting
although the server goes on, or the answer is lost; leases run out), `age`
(entries of process memory are pruned), `database` (a transaction fails),
`server` and `terminal` (restarts, which lose what was only in memory),
`broker` (an order is executed under another code than done), `stop`.

Abstractions. Attempts are not counted: an acknowledgement may be given up after
any of them. The terminal may poll before it repeats an acknowledgement, which
its timer does after. The counters of retried signals are left out: a limit may be
reached at any retry. The remainder order of a partial fill
(`PARTIAL_COMPLETE_REMAINDER`, which is off by default) is left out. Publications that
reach process memory only (`autonomous_ohlc_signal_service.py`) are `Publish`
with a refused `enqueue`. `Priced` are the signals whose payload has a risk amount:
none in `fills_unpriced`, which is the deployed server, and all in the other two runs,
so that the calls of the lifecycle are checked with amounts too. For the lifecycle, a
signal executed twice is a position of one amount.

### JobQueue

Each API server is one event loop (`handles`, `lock`); only Redis is shared (`queue`,
`results`, `creds`, `registry`). A request is at a place between two awaits: an order is
`SubmitJob` (worker alive, LPUSH) and a wait that ends with the result, in a 504 or in
an error; `ensure_worker` reads the registry, looks again under the lock, reaps and
spawns, and registers; `is_running` decides on the handle and on the registry entry it
read before, and may purge it; a disconnect pushes STOP and waits for the process, which
stops the whole event loop (`Awake`). A worker takes jobs one at a time, connects, dies
anywhere and answers with a push followed by an expiry. The client is told `refused`,
`done`, `failed` or `unknown`; `told` and `taken` are what `RemoteCall` sees. A server
that restarts drops all its requests at once, so `RemoteCall` gives up any set of orders
in one step. Redis may fail at each command the pool sends under its lock (`RedisFails`):
`stop_worker` has taken the handle out by then, so the process lives on and no server knows
it (`Orphaned`), and the next connect starts a second one beside it. That is the
exception of `OneProcessPerServer`. Redis failing in the read of `is_running` or in the
LPUSH of a submission ends the request with nothing changed, and is left out.

### Subscription

What three providers send is parsed as their adapters do (`StripeType`, `PaystackType`,
`FlutterwaveType`): an event that names no account is ignored, and one without an id gets a
fresh one whenever it is delivered. A webhook is deduplicated by its recorded id, reads the
row, is applied, recorded and, on a first activation, given credentials that a browser may
take once; each is a commit of its own, and each may fail and be delivered again. The sweep
of `startup.py` lists lapsed accounts, looks for their worker, stops it and marks them in
four steps. A cancellation is for rows a provider bills (`billed`), asks the provider first
and marks the row and stops the worker afterwards. `worker` says what workers of the
account run: of this server (`own`), of the one before its restart (`former`), and
those that no registry entry names (`unlisted`). `is_running` sees the first two only: an
entry of another instance that is too old is removed, and so may a newer one be
(`EntryIsLost`). `stop_worker` ends a process it has a handle of; to any other it posts a
STOP, which is read late or never. `RevokedIsCutOff` is therefore about the workers the server
knows of. `raced`, `slipped` and the like record
that two requests overlapped at the place where the code has no protection, so that the
properties say exactly what is promised without it.

### RiskBudget, AutonomousSignals and the other services of an account

`RiskBudget` has the transactions of `set_equity` and `set_risk_tolerance_pct`, each a
SELECT, an UPDATE of the differing columns and an evaluation of its own; `RowWrites`
are the columns a request writes back. `AutonomousSignals` adds the post of a bar:
dedupe, gate and analysis (a free choice of the stop's width) in one step, several
awaits of sizing, and publication. `PositionSizing` counts cents and thousandths of a
percent. `PlanLimits` and `Withdrawals` have the statement-by-statement reads and
commits of two requests, `SignupCheckout` the Redis commands of three (WATCH and EXEC
included), a provider that may answer late or never, and the expiry of the session.

`AccountServices` puts them into one specification. They share no row, key or memory,
so every behaviour follows one of them (`focus`) and leaves the others in their
initial state: the product of their states would show nothing the parts do not.

### PlatformServices

The same holds for the fourteen services around the core. `ServerRequests` gives a
behaviour a set of request kinds (`arriving`); at most `Requests` of them are in progress
at once. Every module has a request record with the place it is at and what it has
read. `MC_PlatformServices` lists the mixes of kinds that race with each other.

* `Identity`: a request reads the user, checks a password or a code, and commits what
  differs. `confirmed` are the secrets a code was shown for.
* `ApiKeys`: issuing and revoking are transactions; rotation, `/mobile-key`, the forced
  administrator key and the start combine them with failures in between.
* `DemoSignup`: lookup, insert, count of keys and issue, against payments and presets.
* `CommunityChat`: ids are drawn at the insert and shown at the commit; pages and
  sockets read what is shown; names, threads, rates and reports. One sequence of ids stands
  for those of both message tables, whose ids are compared within a channel only.
* `Notifications`: a notice is inserted, sent and updated; the day's scan asks Redis for
  the mark, emits and marks; marks lapse and Redis fails.
* `ScreenAnalysis`: adding to the history and trimming it are two commands; bars come at
  their own pace; the verdict is a function of what was read.
* `RuleEngine`: the third engine's rules over its last frames, on rows of pixels, with the
  price's row, which may not have been found.
* `EngineFailover`: both engines with their parts broken or not, the breaker's record of
  the last evaluations, forced tiers, reloads.
* `ShortPosition`: the live manager's and the simulator's steps over the same bars.
* `PairRouting`: the router's and the registry's decisions over the tables of `Images`,
  which are extracts of `registry/v40` as it is, with a rulebook authorized, as the
  acceptance matrix expects them, with a pair good to trade but without a rulebook,
  without instruments, and empty. The emergency stop in front of a poll is in
  `ExecutionPipeline`; that `is_execution_authorized` filters a batch once more drops no
  pair the poll has let through, and is left out.
* `BrokerTerminal`: one job after the other at a broker that fills and closes whenever
  it likes. An answer to `order_send` is done, placed, an invalid filling mode, a refusal,
  a code that settles nothing (TIMEOUT, CONNECTION, ERROR), or none at all; `Fits` says what the
  broker may have done under each; `BrokerSessions`: vault and cache around `/connect`;
  `PositionMirror`: the in-memory lifecycle; `TradeCopier`: slaves, tiers and fan-out.

### One API server

Process memory (`ExecutionPipeline`, `AutonomousSignals`, `PositionMirror`, `EngineFailover`,
the sockets of `CommunityChat`, the cache of `BrokerSessions`) is that of one API process, and
`Subscription` and `Notifications` run one sweep and one reminder scan at a time. Each instance
would start loops of its own (`startup.py:153-155`), so this is the single instance that
`docs/DEPLOYMENT.md` describes; the replicas of `docs/ARCHITECTURE.md:70` are future work there.
`JobQueue` alone has several servers, and `Subscription` one that restarts.

## Runs

| Run | Instance | Shows |
|---|---|---|
| `queue_serial` | 3 signals, 1 slot, 1 publisher, 1 poll, fairness | `AbandonedRowsTurnUncertain`: if publications do not overlap, no offer waits for ever and an abandoned claim turns uncertain, and then keeps its slot until it is acknowledged |
| `queue_race` | 3 signals, 1 slot, 2 publishers, 2 polls, explicit claims | `OneActivePerSlot` and `NoStaleOffer`, with publications that raced another into the slot as the exception; `DeliveryRefined` without one |
| `lifecycle_books` | 3 signals of amounts 1, 2, 4, one unlabelled, one executed twice, fairness | `LedgerMatchesRows`, `LedgerRefined`, `ClosedRiskIsReleased` |
| `lifecycle_degraded` | 2 signals, the portfolio service may be missing | `OpenRiskIsNotUnderstated` |
| `pipeline_faults` | 1 signal, 2 acknowledgement requests, 2 filling modes, every failure | `TradedAtMostOnce`, `LifecycleRefined` |
| `pipeline_contention` | 2 signals of 1 slot, lost and late answers, wrong answers of the broker | `RowsTellTheTruth` |
| `fills_unpriced` | violation, no failure | a fill is acknowledged without its risk, since its publisher gave none |
| `job_calls` | 2 requests: on one server with crashes, Redis failures and refused connections; on two servers, one restarting; on a server with more accounts than workers; fairness | `CallRefined`, `OneProcessPerServer` (without the processes whose stop Redis broke off), `CallsEnd`, `GhostsVanish` |
| `webhooks` | of Stripe, one event delivered twice and one once, with reveal and expiry; of Paystack, two deliveries with the sweep, connect, a restart of the server and expiry; of Flutterwave, two deliveries with cancellation and connect, and two events about one charge with connect; fairness of the sweep | `AppliedOnce`, `RevealedTokenIsCurrent`, `RevokedIsCutOff`, `LapsedIsMarked` |
| `account_services` | one service at a time, 2 or 3 requests | `DrawdownHalts`, `BarFiresOnce`, `SizedToFit`, `LimitsAreKept`, `LedgerIsKept`, `OneCheckout` |
| `platform_services` | one service at a time, 2 requests of the kinds that race | one property for each service, two for the terminal and demos: see the table below |
| `trades_unreported` | violation, the terminal alone | a pending order, modification, close or cancellation that the broker executed is reported as failed |

| Property of `platform_services` | Module | In a sentence |
|---|---|---|
| `OldPasswordsEnd`, `FactorIsConfirmed` | `Identity` | a reset ends the old sessions but those of overlapping logins; a factor is on only with a confirmed secret unless requests about it overlapped |
| `KeysAreReplaced` | `ApiKeys` | one portal key but for overlaps; a rotation never takes a key without giving one |
| `PaidPlansStay` | `DemoSignup` | no demo is written over a plan that was paid meanwhile |
| `HandedPairsAreRouted` | `PairRouting` | of what is handed out, the router refuses only a pair without a rulebook, with the tables of today |
| `ReadersMissNothing` | `CommunityChat` | paging skips nothing but messages that commit after a later one of their channel |
| `RemindersAreKept` | `Notifications` | an announced end comes once, again only as often as something failed; what is marked is in the inbox |
| `NewestFramesAreKept` | `ScreenAnalysis` | the history keeps the latest frames by capture time, in whatever order they come |
| `SellingMirrorsBuying` | `RuleEngine` | each rule's selling side is its buying side turned upside down |
| `TripsOnlyInARow` | `EngineFailover` | the breaker trips on failures in a row only |
| `LiveFollowsSimulation` | `ShortPosition` | the live manager does, bar by bar, what its simulator did |
| `OneOrderOneDeal` | `BrokerTerminal` | no more orders at the broker than silent attempts and one; success is told only if there is one, a failure only if every one there is went unanswered or was answered with a code that leaves it open |
| `DisabledSecretsStay` | `BrokerSessions` | a password stored with execution disabled reaches no worker and no adapter |
| `MirrorAddsUp` | `PositionMirror` | the mirror's amounts are those of the recorded and unreleased signals |
| `SlavesStayWithinTier` | `TradeCopier` | the tier holds but for requests that counted at the same time |

A violation run checks one sentence of a document or a comment, quoted
under `findings` in `PROJECT.json`.

### Bounds

Queue. The behaviours of interest need two publications, a row before them and
a poll between them: three signals of one slot with two publishers contain every
such order, and two polls of it every race for a row. Slots meet only in a batch
poll, whose transaction goes through them one by one; the safety theorems below
hold for any number of slots, publishers and polls. Nothing else bounds the queue:
stamps and attempts are bounded by the number of signals.

Lifecycle. The signals interact through the sum alone; amounts 1, 2, 4 make every wrong
sum visible, and three signals let one reconciliation release, recover and link at once.
One of them is unlabelled and one executed more than once, so that its positions may end one by
one. At most one snapshot is on its way at a time (`TakeSnapshot`), since the terminal posts
and waits.

Pipeline. One signal with two requests has every overlap of an acknowledgement with its
repetition, and every failure may happen any number of times; two filling modes are enough for an
order to be sent again. Signals meet only in a slot of the queue and of memory, for which two of
them suffice, with one mode. No label survives in `pipeline_faults`, so the terminal
never recognises its own positions and nothing but the queue prevents a second delivery from
being traded. `LifecycleRefined` discharges what `PositionLifecycle` assumes of its callers: that
the queue's idempotence lets each signal through once, and with the broker's answer.
`AcceptedFillIsCounted` is a sentence of the Stage 2.5 document. One signal and no failure
refute it with the payloads the one publisher of the queue sends, which have no amount.

Jobs. A job's fate depends on its own request and worker, so one order is followed
(`Jobs = {j1}`); what it can meet is another request of its account, on its server or
another one, and another account when the pool is full. `MaxStops` bounds the STOP jobs in
one queue, `MaxRestarts` the restarts of servers.

Account services. Two equities around a halting drawdown, one tolerance that stands it and
one that does not, and two stored rows: never reported, and risen, fallen and with a
position open. Two bars, one restart and one overtaken post are every way in which a
bar may come again. The orders of `SizedToFit` quantify over all widths, instruments and
margins of the instance in each state. Profits: one that takes the cap to its ceiling,
one that does not, one loss that pauses. `MaxUses`, `MaxConfigured` and `MaxAttempts`
bound the uses of a token, the rows an account may get and the calls of the provider.

Platform services. Two requests are in progress at a time: no service locks, and each
of the properties is about a pair of reads and writes. Counts are bounded by what makes
the second of a thing possible: `MaxPasswords`, `MaxSessions`, `MaxSecrets`, `MaxKeys`,
`MaxLapses`, `MaxReports`, `MaxJobs`; histories by one more than what is kept (`MaxFrames`
1 of `MaxScreens` 2, `MaxMessages` 3 with pages of 1, `MaxFailures` 4 for a threshold of
3). Charts are rows 0 to 12 with levels 2, 6 and 10 and the frames that make each of the
rules fire, with and without the price's bands; prices around the entry, the stop and the trail; `MaxHold` 3 bars. Volumes 1
and 3 lie on both sides of the step, `Fillings` are the three filling modes.

`job_calls`, `webhooks`, `account_services` and `platform_services` have the larger state
spaces, up to several hundred thousand states.

### Fairness

Queue (`queue_serial`). A slot is polled again and again and
not every poll of it fails (strong fairness of `PollCheck` and `PollSelect` per
slot and of `PollClaim` per signal: `OnTimer` polls for as long as the terminal
runs, and a poll fails only with its database), time passes, and the
polls and publications the server started come to an end. The stop must be lifted
again and again; it is a hypothesis of the properties, not a fairness of the
operator. `AbandonedRowsTurnUncertain` is a promise of serial publication: after a race an
older PENDING row may lie behind a newer uncertain one, and polls look at the newest
active row only. Nothing is assumed of executors: an abandoned claim is found out by a poll,
and what is uncertain then waits for its acknowledgement, if need be for ever.

Lifecycle (`lifecycle_books`). Not every reconciliation is lost; the hypothesis of
`ClosedRiskIsReleased` is that terminals restart.

Jobs (`job_calls`). Strong fairness of each request's steps: an event loop runs what is
ready, `asyncio.Lock` wakes its waiters in order, and waits for Redis have timeouts. Weak
fairness of a worker's steps and of its idle timeout (BRPOP returns after its seconds) and
of the registry's time to live. `GhostsVanish` needs that the account is asked about again
and again, which clients do.

Sweep (`webhooks`). The loop wakes up every interval (weak fairness of `SweepLists`), and an
account that is listed again and again is not passed over for ever.

## Theorems

| Theorem | Hypotheses | Says |
|---|---|---|
| `QueueTyping`, `AtMostOneDelivery`, `TerminalRowsAreFinal`, `InFlightRowsEndByAck`, `QueueImplementsDelivery` | `QueueAssumption` | typing, and what `queue_race` shows, for any sets of signals, slots, publishers and polls |
| `OneLiveRowPerSlot`, `OffersAreNeverStale` | `QueueAssumption` | `OneActivePerSlot` and `NoStaleOffer`, for any number of publications and polls at once: only a row whose publication raced another into its slot is an exception |
| `PipelineImplementsQueue`, `AtMostOneOrder` | `PipelineAssumption` | the composition keeps the queue's specification, and no signal is traded by two deliveries, under any set of failures; orders beyond the first are those that one delivery's loop over the filling modes sent again |
| `PipelineInvariant`, `RowsFollowTheBroker`, `MemoryFollowsTheQueue` | the same | `RowsTellTheTruth` and `MemoryIsNeverAhead`: row, broker and process memory agree, under any set of failures |
| `PipelineImplementsLifecycle` | the same | `LifecycleRefined`: the queue, the requests and the terminal call the lifecycle as `PositionLifecycle` assumes |
| `SumDisjointUnion` | finite sets, values in Nat | sums over a disjoint union |
| `LifecycleTyping`, `AppliedRisksAreReleasable`, `ReleasedRowsAreFinal`, `OpenRiskCoversRows` | `LifecycleAssumption` | with or without the portfolio service |
| `LifecycleImplementsLedger`, `LedgerBalances` | also `Portfolio = {TRUE}` | the ledger is exact |
| `JobsInvariant`, `PoolsStayInBounds` | `JobQueueAssumption` | no server has two processes of one account or more than its limit (`OneProcessPerServer`), with crashes, restarts and Redis failing; a process whose stop Redis broke off is nobody's, and not counted |
| `JobsImplementRemoteCall` | `JobQueueAssumption` | `CallRefined`: an order is carried out at most once, never after a refusal, and an outcome is told only of an order that was taken up |
| `SubscriptionInvariant`, `RevokedAccountsAreCutOff`, `ShownTokensStayValid`, `EventsAreAppliedOnce` | `SubscriptionAssumption` | the safety properties of `webhooks`, for any webhooks, deliveries, browsers and workers, of which `RevokedIsCutOff` counts those that `is_running` sees |
| `AccountInvariant` | the assumptions of the five modules | the inductive invariant of the services of an account |
| `DrawdownIsHalted`, `BarsFireOnce`, `OrdersAreSizedToFit` | the same | `DrawdownHalts`, `BarFiresOnce`, `SizedToFit`, for any requests, equities, tolerances, posts, bars and instruments |
| `PlanIsKept`, `WithdrawalsAddUp`, `OneCheckoutIsCreated` | the same | `LimitsAreKept`, `LedgerIsKept`, `OneCheckout`, for any plans, gains, shares and requests |
| `PlatformInvariant` | the assumptions of the platform's modules | the inductive invariant of the fourteen services |
| `OldPasswordsAreEnded`, `FactorsAreConfirmed`, `RotatedKeysAreReplaced`, `PaidPlansAreKept` | the same | `OldPasswordsEnd`, `FactorIsConfirmed`, `KeysAreReplaced`, `PaidPlansStay` |
| `PagesMissNothing`, `PeersShareOneThread`, `RemindersAreCounted` | the same | `ReadersMissNothing`, `ThreadsAreShared`, `RemindersAreKept` |
| `HistoryHasTheNewest`, `CandidatesHaveAllFrames`, `EnginesTripInARow` | the same | `NewestFramesAreKept`, `CandidatesAreSynchronized`, `TripsOnlyInARow` |
| `SellingIsBuyingTurned` | also `OffTheLines`: no value lies exactly on a line | `SellingMirrorsBuying`, for any lines, frames and history |
| `LiveShortIsSimulated`, `StopsBoundTheLoss` | the assumptions of the platform's modules | `LiveFollowsSimulation`, `LossesAreBounded`, for any bars |
| `ExecutorsGetRoutedPairs` | the assumptions of the platform's modules | `HandedPairsAreRouted`, for all tables: the router refuses a pair that is handed out only for want of a rulebook |
| `OrdersAreDealtOnce`, `DisabledSecretsAreUnused`, `MirroredRiskAddsUp`, `SlavesFitTheTier` | the assumptions of the platform's modules | `OneOrderOneDeal`, `DisabledSecretsStay`, `MirrorAddsUp`, `SlavesStayWithinTier` |

Assumptions. Most say that a set of numbers is one, that a count is positive as its setting
must be, or that a value that stands for "none" is not one of the things it stands in for
(`NoSignal`, `None`, `NoAccount`, `STOP`, `Former`). Those that say more are

* `RiskBudgetAssumption`: the rows an account may have stored when the server starts are ones
  whose peak is not below the equity and that are halted if they are used up; it is what the
  theorem says of the rows a server leaves when nothing overlapped;
* `PositionAssumption`: ranges are multiples of 4 in the unit of prices, so that the multiples
  1.5 and 0.75 of the code are whole numbers, and positive, as the simulator requires;
* `OffTheLines` is a hypothesis of one theorem: a value exactly on a line counts as below it
  (`Side`), on the chart and turned upside down alike, so there the two sides may differ;
  none of the charts of the runs has such a value;
* `OneServiceArrives` and `ServicesAssumption` say that a behaviour follows one service.

Argument for the queue. That a signal is handed out once is not inductive: a
claim increments `attempts` of a PENDING row, so one must know that PENDING rows
were never handed out, and that the signals of publications in progress and the
fresh ones have no row. That invariant is preserved by every action and gives
the refinement as well, since each row takes one edge of `SignalDelivery` per
step. For what a slot holds, the invariant adds that the snapshot of a publication
which no other has overtaken still contains every active row of its slot when it commits,
and that its stamp is newer than theirs. A publication that commits notes the others of
its slot as raced, as they have not seen its row; their rows are the exception.

Argument for the pipeline. Each of its actions conjoins at most one action of the
queue, which gives `PipelineImplementsQueue`. A signal that was handed over is never
on offer again, so the set of signals without a delivery only shrinks; a signal
on offer or waiting in the terminal has no order yet, one waiting in the terminal
is no longer on offer, and the orders of a signal are one more than those sent again, if there
are any. That is inductive and gives `AtMostOneOrder` without any assumption about what the
terminal remembers. The prover does not carry
theorems over an INSTANCE, so the few facts about the queue are proved again there.

What the pipeline's parts say of one another rests on two more conjuncts. `TruthInv`: what the
terminal has to trade is in flight and not answered; what it answers says whether it has
taken an order for executed, which it misjudges only where the loop over the modes passed one over; only an acknowledgement ends a row, so requests and process memory know none
but ended rows. `BooksInv`: the broker has a position if and only if there is an order, and the first
answer to a signal is on its way in one request only, of which the lifecycle has not
heard. So every step of the pipeline is one of `PositionLifecycle`, or leaves the books alone.

Argument for the lifecycle. The row invariant says that an applied row has its
amount and its ticket and is POSITION_OPEN or RISK_RELEASED, and that a signal
not yet answered has no row; it is preserved by the three row functions `OnAck`,
`OnClose` and `ReconcileRow` in one lemma each. Every step then moves signals
between the uncounted, the counted and the released, and `SumFacts` carries the
sum over these moves: the total changes by the sums of what moved. Exactness
needs the portfolio service; without it a release may leave the total too high,
never too low.

Argument for the risk budget. That a used-up account is halted is true only once every
request has evaluated the row. The invariant says what a request still owes: the columns
it is going to write are of their type, the peak is at least the equity unless a lower
one was written over it, and a row that is used up and not halted has a request that will
evaluate it after the last write, or one of the two admitted exceptions has happened. It
is preserved by each of the transactions, with one lemma for those that write.

Argument for the other services of an account. Bars: how often a bar was published and is
being served is at most one if it was reached, plus the starts and the overtaken posts. Sizes:
what a post has read is a row of its type, and the size is compared with every smaller and
larger multiple of the step. Phones: whichever of the pending registrations commit, in
whatever order, the phones they leave and those to be inserted stay within the
limit and the overlaps; it quantifies over the subsets of the pending ones, since each deletes
what it decided on before. Quotas: the count, with what was overwritten, is what was granted.
Withdrawals: while no two requests overlapped, the row is what the ledger adds up to and will be
so after any one commit (sums by `SumFacts`). Checkout: at most one request holds the claim,
and as long as somebody may still ask the provider, no more checkouts were created than
answers were lost.

Argument for the jobs. The invariant has two parts. Of trips: an order waits in one place of one
queue, or one worker has popped it, or it was taken up, and each of these excludes the
others; so it is taken up once, and every step maps to one of `RemoteCall` or to none. Of
pools: a live process of the server's own is in the handle of its account, or it is the one that
the request with the lock took from its handle and is stopping; that request has room in the
pool, so the handles and that process together do not exceed `MAX_WORKERS`. A process
that outlived a restart, or whose stop Redis broke off, belongs to no server (`Former`) and
is not counted.

Argument for the subscription. A revoked account with a worker that `is_running` sees has
somebody who still is to stop it, unless the worker came up behind the look or a request died
(`slipped`); workers that became unlisted only leave that set. Unless two first
activations overlapped, whoever has read the row has read the token of the credentials that
are shown, or has read it before there was one.

Argument for the platform. A step of `PlatformNext` is a step of the service that is followed and
leaves the others alone (`StepOfAService`), so each service has its own invariant.

* Passwords: the sessions of old passwords, together with those a reset in progress has not
  read, are at most the logins that a change overtook. Second factor: while requests about it
  did not overlap, each of them knows what is stored.
* Keys: a key that a rotation has revoked, or is about to, has its replacement already.
  Whichever pending portal requests commit next, the keys they leave and insert are at most
  the requests that overlapped. Demos: the property is inductive with the types.
* Pairs: what was handed out is authorized by the tables, which do not change while the server
  runs, and of the router's refusals only that for want of a rulebook can hold of such a pair.
* Chat: ids are given out in a row, an inserted message below a shown one of its channel is noted as overtaken,
  and a reader is at a message that was shown and has what is listed before it.
* Reminders: notices of a period's end, with the one about to be inserted, are one more than the
  lapses at most, and no more than the lapses while the reminder may still be created; a mark
  outlives the day of its reminder.
* Screens: the latest of the frames received are in the history, which trimming keeps since the
  latest of a set that has them are among the latest of that set. A verdict with its request's end.
* Engines: the last evaluations recorded are failures, as many as the breaker counts.
* Rules: turned upside down, a chart has each line crossed the other way, touched as often,
  and peaks for troughs; so a rule sells there if it buys here. Turning twice changes
  nothing, which is the other direction, and the first of the rules that hold is the same.
* Short position: the two runs are equal until the simulator's data end, and the stop of an open
  position is at most the initial risk away, or at the entry once a close was a whole risk ahead.
* Terminal: while an order is still tried, the broker has no more orders of it than attempts
  went without an answer, since every other answer but a refused mode ends the loop. Sessions: the stored password came with the stored setting.
* Mirror: the amounts counted are those of the priced positions in the index. Slaves: those
  there are and those about to be inserted are at most the widest tier and the overlaps.

Model-checked only: `AbandonedRowsTurnUncertain` and the liveness properties
`ClosedRiskIsReleased`, `CallsEnd`, `GhostsVanish` and `LapsedIsMarked` (the prover has no fairness and no ENABLED), and the
runs that refute a document. Every other property of a passing run is a theorem. The sums are
those of the community module's fold, whose recursive definition `SumFacts` unfolds once for
all.

Stated without a run: `MemoryIsNeverAhead` (pipeline), `ThreadsAreShared` (chat),
`LossesAreBounded` (short positions) and `CandidatesAreSynchronized` (screens) hold on the
instances of the runs and are proved. `OnlyNewExcess`
(ratchet) is a sentence of a document that the code contradicts, see below.

## Where the code and its words part

Two disagreements are runs (`fills_unpriced`, `trades_unreported`). The others below were
met while modelling. The models contain them: the properties are stated around them, by a
count of overlaps or failures that the model keeps beside the code's state.

Trading core
* A stop set between a poll's check and its claim does not prevent the claim, and racing
  publications can leave two rows of a slot in flight. A row that is SUBMISSION_UNCERTAIN
  blocks its slot until it is acknowledged, which an executor that has forgotten it never does.
* The terminal sends an order again, with the next filling mode, after codes such as PLACED or
  ERROR under which the broker may have executed it, and may acknowledge it as failed
  (`AEGIS_Executor.mq5:727-813`). A terminal that restarts or gives up after a timeout may
  have an order whose signal stays uncertain.
* Process memory is the only source of a fill's amount, although the durable row carries the
  payload: another publication for the slot, or a poll between a late acknowledgement's
  delivery and its booking, takes the amount away there (`Publish`, `AnswerPoll`).
* A close that overtakes its acknowledgement leaves the risk counted
  (`executor_router.py:484` says "Broker-confirmed close → release open risk (idempotent)"); a stale
  snapshot releases the risk of an open position. A close or reconciliation without the
  portfolio service marks the row RISK_RELEASED and leaves `open_risk_usd` too high for ever.
* `/position-closed` for a signal id whose acknowledgement was never recorded releases an
  amount in the mirror that was not recorded there.
* What is left of the budget ignores signals that were sized and are not filled yet; no caller
  of the risk assessment passes the open symbols; the plan's and the broker's largest volumes
  are applied after rounding to the step; the tick value is converted twice.
* A later change of the tolerance never clears a halt (`docs/PORTFOLIO_RISK.md:17` and
  the comment at `portfolio_risk_service.py:139` say it may); equity at or below zero starts the account afresh.
* A late post of an older bar lets the later one fire again; the sides reported by the broker are
  cleared by a substring of the account id and kept after a close until the next report.

Workers and the broker
* A STOP job that its worker did not live to read stops the next one. An order whose client was
  told 504 may be carried out later. A result whose expiry fails is followed by a second, failed
  one.
* A market order that got no answer is sent again with another filling mode, and may deal twice.
  TIMEOUT and CONNECTION, which leave open what the broker did, are told as a rejection, and PLACED,
  which need not be filled, as a success (`mt5_adapter.py:145-177`).
* When Redis fails inside `stop_worker`, the handle is gone and the process lives: the next connect
  starts a second one for the account (`worker_pool_manager.py:140-159`). `is_running` answers
  False for a live worker of another instance once its registry entry is old, or was purged
  (`worker_pool_manager.py:215-223`), so that a cut-off passes it over.
* Overlapping connects pair one request's login with another's password; a disconnect takes out
  whichever session is cached.
* A mirrored order lacks its type and account, so every copy is refused; a master order that was
  rejected is mirrored as well ("Fan-out a master fill"); a downgrade keeps all slaves.

Accounts and payments
* A connect that overlaps the sweep keeps its worker: the suspended account is not listed
  again (`startup.py:72-76`). A late FAILED after CANCELED leaves an account past due, with access.
* A crash after the claim of a session keeps it claimed until it expires; a provider that
  times out can be asked for a second checkout.
* The ratchet credits the excess it already credited when another trade ends above the cap
  (`OnlyNewExcess`; `docs/AEGIS_HYBRID_RATCHET_WITHDRAWAL.md:62` says "100% of new excess above CAP"); two first
  configurations insert two rows, and a trade is unique by migration 0018 only.
* Paystack's and Flutterwave's events are known by the id of the charge or subscription they are
  about (`paystack_adapter.py:77`, `flutterwave_adapter.py:70`; `base.py:43` says "each provider gives a unique
  event/tx id"), so a later event about the same object is dismissed as processed. An
  event whose object carries no account is ignored; Stripe's checkout puts the account on the
  session alone (`stripe_adapter.py:94-95`), not on its invoices or the subscription.
* Stripe knows a price for `monthly` only, which no checkout's plan is normalized to
  (`stripe_adapter.py:84-87`), so its checkouts fail.
* A demo does not end: nothing reads its `current_period_end` (`subscription_router.py:331` says
  "wait until it expires"); overlapping signups of one address both pass; a demo of a first login
  has no contact address; a preset for an unknown account makes a row that no login repairs;
  `/mobile-key`'s call of `activate_demo` always raises; a key issued while it counts leaves two.
* A login that overlaps a reset keeps a session of the old password; overlapping requests about
  the second factor can leave it on with no secret.
* Two portal key requests leave two live keys, a crash between revocation and issue none; the
  rotation of a revoked key issues one; `FORCE_ADMIN_KEY_RESET` with the bootstrap key's row in
  place violates its unique hash and ends the start (`startup.py:219-229`); a revoked bootstrap
  key is active again after a restart, though line 191 leaves "existing admin keys alone".
* Billing reminders of lapsed accounts come again every 48 hours (`billing_reminder_service.py:94`
  promises one per milestone); a forced notice raises, because `prefs` is bound only for the
  others (`notification_service.py:114`, `docs/NOTIFICATIONS.md:27`).

Charts and pairs
* A worker's snapshot without closes hides a client's valid bars and is reported synchronized; one
  candle is a complete capture that waits for bars; a late replay is answered from the newest
  history. A screenshot is never published, whatever the settings say.
* A forced tier's health check ignores the neural layer; a reload arms the primary again; a chart
  without RSI raises in the rules, and three of them trip the breaker for everybody.
* The expansion rules conflict where values lie inside the bands; the higher-low pair is looked for
  among minima of pixels. At an ATR of zero the live short manager does not trail where the
  simulator `simulate_short` does.
* The acceptance matrix (`router_acceptance_router.py:11-20`) calls EURUSD, USDJPY, EURJPY and
  GBPJPY TRADING_DISABLED, the tables RESEARCH_ELIGIBLE, so `/acceptance` fails. USDJPY is routed
  although no poll can be authorized for it. A pair good to trade without a rulebook is handed
  out by polls and refused by the router (`router.py:240-248`). Without the instrument table the registry authorizes
  every rulebook's pair, the universe is empty and the router refuses. The production gate asks for
  the id of a rulebook only; controlled test signals are offered without asking the registry.

## Not modelled

* Of the terminal: saved close notices, position manager, local signal file, the remainder order
  of a partial fill.
* Of the queue's surroundings: presence and poll times; they decide no transaction.
* Of the pools: `stop_all` at shutdown, Redis failing in the read of `is_running` or in the LPUSH of
  a submission, which end the request and change nothing. Of signup: `consume` and `mark_checkout_created`, which
  no signup calls. Of payments: signature checks, plans and periods. Of withdrawals: rows per
  pair, which behave as the account's. The withdrawal module is off by default and modelled as on.
* Of sizing: currency conversion, prices, cost model, `upsert` of instrument specifications (whose
  columns two overlapping writers can mix). Of rulebooks: integrity and lineage flags, which no
  caller passes as false, the evaluators and the transfer, which are numeric.
* Of the chat: purging by age and the default rooms. Of images: every computation on pixels, the
  neural layer and the numbers of the first engine.
* The execution guard V42, which only tests call; rate limits; audit, uploads, clients, research
  data and the archives: see their notes in `PROJECT.json`.

## Plan

1. `ExecutionQueue`, `PositionLifecycle`, `ExecutionPipeline` with their abstractions and
   proofs: done.
2. `JobQueue` with `RemoteCall`, `Subscription`, `AccountServices`, `PlatformServices`: modelled,
   checked, and their safety proved.
3. Proofs: the safety of every module is proved. What is left are the steps that the liveness
   properties rest on: that a row, a request or a process that has to leave stays one that a
   named step removes.
