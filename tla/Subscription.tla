---------------------------- MODULE Subscription ----------------------------
(***************************************************************************)
(* The subscription of one account: payment webhooks, the sweep that cuts  *)
(* off lapsed accounts, the administrator's cancellation, the connection   *)
(* of the account's worker, and the one-time reveal of the credentials of  *)
(* a first activation.  Every await is a point where another request may   *)
(* step in; a database transaction takes effect when it commits, and the   *)
(* ORM writes only the columns that differ from what it has read.          *)
(*                                                                         *)
(* Of the worker pool (see JobQueue) there is here only what the API       *)
(* server knows of the account's workers; plans, periods and the           *)
(* provider's customer numbers are left out.                               *)
(***************************************************************************)
EXTENDS Naturals, FiniteSets

CONSTANTS Events,     \* the ids under which payment providers report
          Deliveries, \* webhook calls; an event may be delivered several times
          EventOf,    \* the id of each delivery
          Webhooks,   \* bound: what the providers send
          Browsers,   \* holders of the checkout's success URL
          Scenes,     \* bound: a provider, deliveries and Others that act together
          None

Types == {"SUCCEEDED", "FAILED", "CANCELED", "UNKNOWN"}

Providers == {"stripe", "paystack", "flutterwave"}

Others == {"sweep", "admin", "connect", "preset", "reveal", "expiry"}

\* What a webhook says: the name of its event, the state of the charge it is about, whether
\* the account comes back in its metadata, and whether it carries an id at all.
Webhook == [by : Providers, event : STRING, status : STRING, account : BOOLEAN, id : BOOLEAN]

ASSUME SubscriptionAssumption ==
    /\ Webhooks \subseteq Webhook
    /\ Scenes \subseteq SUBSET (Providers \cup Deliveries \cup Others)
    /\ EventOf \in [Deliveries -> Events]
    /\ None \notin Deliveries /\ "manual" \notin Deliveries

VARIABLES parties,  \* who takes part in this behavior, one of Scenes
          hook,     \* what each delivery says
          row,      \* the account's row of table subscriptions
          recorded, \* the rows of processed_payment_events
          dlv,      \* webhook requests: where each is, and the row it has read
          pending,  \* pending_credentials:{account}: whose credentials
          urlToken, \* whether reveal_token:{token} is still there
          browser,  \* reveal requests, and whose credentials they got
          sweep, admin, conn, \* the sweep, a cancellation, a connect request
          worker,   \* what kinds of worker of the account run, of Workers
          raced,    \* history: a first activation found another one's row
          slipped   \* history: a worker came up while access was being revoked,
                    \* or a request died before it had stopped the worker

constVars  == <<parties, hook>>
rowVars    == <<row, recorded>>
revealVars == <<pending, urlToken, browser>>
cutVars    == <<sweep, admin, conn, worker, slipped>>
vars == <<constVars, rowVars, dlv, revealVars, cutVars, raced>>

\* A worker of this server, with its handle and its entry in the registry; one that an
\* earlier server started, with a fresh entry; and one that has no entry (any more), or
\* one that is older than the registry trusts.
Workers == {"own", "former", "unlisted"}

Tokens == Deliveries \cup {"manual", None}
Row == [status : {"none", "active", "past_due", "suspended", "canceled", "demo"},
        grace  : {"none", "running", "over"},
        token  : Tokens,
        billed : BOOLEAN]     \* whether its provider is one of Providers
NoRow == [status |-> "none", grace |-> "none", token |-> None, billed |-> FALSE]

TypeOK ==
    /\ parties \in Scenes
    /\ hook \in [Deliveries -> Webhooks]
    /\ row \in Row
    /\ recorded \subseteq Events
    /\ dlv \in [Deliveries -> [at : {"idle", "fresh", "read", "issue", "record", "stash",
                                     "look", "ask", "stop", "done"}, seen : Row]]
    /\ pending \in Deliveries \cup {None}
    /\ urlToken \in BOOLEAN
    /\ browser \in [Browsers -> [at : {"idle", "matched"}, got : {None}]
                                   \cup [at : {"got", "half", "done"}, got : Deliveries]]
    /\ sweep \in {"idle", "listed", "stop", "mark"}
    /\ admin \in {"idle", "ask", "mark", "look", "stop"}
    /\ conn \in {"idle", "allowed"}
    /\ worker \subseteq Workers /\ raced \in BOOLEAN /\ slipped \in BOOLEAN

\* Stripe's ids are those of the events.  The others name the charge or the subscription
\* that an event is about, of which there may be several events.
SaidBy(d) ==
    /\ hook[d].by \in parties
    /\ hook[d].by = "stripe" =>
           \A e \in Deliveries \cap parties : EventOf[d] = EventOf[e] => hook[d] = hook[e]

\* The account is new and its owner has a checkout's success URL.
Init ==
    /\ parties \in Scenes
    /\ hook \in [Deliveries -> Webhooks]
    /\ \A d \in Deliveries :
          IF d \in parties THEN SaidBy(d) ELSE hook[d] = CHOOSE h \in Webhooks : TRUE
    /\ row = NoRow
    /\ recorded = {}
    /\ dlv = [d \in Deliveries |-> [at |-> "idle", seen |-> NoRow]]
    /\ pending = None
    /\ urlToken = TRUE
    /\ browser = [b \in Browsers |-> [at |-> "idle", got |-> None]]
    /\ sweep = "idle" /\ admin = "idle" /\ conn = "idle"
    /\ worker = {} /\ raced = FALSE /\ slipped = FALSE

-----------------------------------------------------------------------------
Exists(r)   == r.status # "none"
IsActive    == row.status = "active" \/ (row.status = "past_due" /\ row.grace = "running")
AllowsBrain == row.status \in {"active", "past_due", "demo"}
Lapsed      == row.status = "past_due" /\ row.grace = "over"

\* parse_webhook_event of the three adapters.
StripeType(h) ==
    CASE h.event \in {"checkout.session.completed", "invoice.paid"} -> "SUCCEEDED"
      [] h.event = "invoice.payment_failed"                         -> "FAILED"
      [] h.event = "customer.subscription.deleted"                  -> "CANCELED"
      [] OTHER                                                      -> "UNKNOWN"

PaystackType(h) ==
    CASE h.event \in {"charge.success", "subscription.create"} -> "SUCCEEDED"
      [] h.event = "invoice.payment_failed"                    -> "FAILED"
      [] h.event = "subscription.disable"                      -> "CANCELED"
      [] OTHER                                                 -> "UNKNOWN"

FlutterwaveType(h) ==
    CASE h.event = "charge.completed" /\ h.status = "successful" -> "SUCCEEDED"
      [] h.event = "charge.completed" /\ h.status \in {"failed", "cancelled"} -> "FAILED"
      [] h.event = "subscription.cancelled"                      -> "CANCELED"
      [] OTHER                                                   -> "UNKNOWN"

TypeOf(d) ==
    LET h == hook[d] IN
    CASE h.by = "stripe"   -> StripeType(h)
      [] h.by = "paystack" -> PaystackType(h)
      [] OTHER             -> FlutterwaveType(h)

\* A webhook without an id gets a fresh one whenever it is delivered.
IsNew(d) == ~hook[d].id \/ EventOf[d] \notin recorded

Recorded(d) == IF hook[d].id THEN recorded \cup {EventOf[d]} ELSE recorded

\* A column that the ORM writes only when it was read with another value.
Written(read, now, new) == IF read = new THEN now ELSE new

Goto(d, place) == dlv' = [dlv EXCEPT ![d] = [at |-> place, seen |-> NoRow]]

\* An exception: the provider sees a 500 and delivers the event again.
Fails(d) == Goto(d, "idle")

-----------------------------------------------------------------------------
(* receive_webhook and apply_event. *)

\* An event that names no account is ignored, and not recorded either.
Receive(d) ==
    /\ dlv[d].at = "idle"
    /\ Goto(d, IF IsNew(d) /\ hook[d].account THEN "fresh" ELSE "done")
    /\ UNCHANGED <<constVars, rowVars, revealVars, cutVars, raced>>

ReadRow(d) ==
    /\ dlv[d].at = "fresh"
    /\ dlv' = [dlv EXCEPT ![d] = [at |-> "read", seen |-> row]]
    /\ UNCHANGED <<constVars, rowVars, revealVars, cutVars, raced>>

IsFirstActivation(d) == TypeOf(d) = "SUCCEEDED" /\ ~Exists(dlv[d].seen)

\* INSERT ... ON CONFLICT DO UPDATE, committed before the API key is issued.
FirstActivation(d) ==
    /\ dlv[d].at = "read"
    /\ IsFirstActivation(d)
    /\ row' = [status |-> "active", grace |-> "none", token |-> d, billed |-> TRUE]
    /\ raced' = (raced \/ Exists(row))
    /\ Goto(d, "issue")
    /\ UNCHANGED <<constVars, recorded, revealVars, cutVars>>

IssueKey(d) ==
    /\ dlv[d].at = "issue"
    /\ Goto(d, "record")
    /\ UNCHANGED <<constVars, rowVars, revealVars, cutVars, raced>>

\* The event's primary key is the provider's event id: the second insert fails.
RecordEvent(d) ==
    /\ dlv[d].at = "record"
    /\ IF IsNew(d)
       THEN recorded' = Recorded(d) /\ Goto(d, "stash")
       ELSE Fails(d) /\ UNCHANGED recorded
    /\ UNCHANGED <<constVars, row, revealVars, cutVars, raced>>

StashCredentials(d) ==
    /\ dlv[d].at = "stash"
    /\ pending' = d
    /\ Goto(d, "done")
    /\ UNCHANGED <<constVars, rowVars, urlToken, browser, cutVars, raced>>

\* Mutation: a renewal makes a new portal token.
AppliedAfresh(d) == [status |-> "active", grace |-> "none", token |-> d, billed |-> TRUE]

Applied(d) ==
    LET seen == dlv[d].seen IN
    CASE TypeOf(d) = "SUCCEEDED" ->
            [status |-> "active", grace |-> "none",
             token |-> IF seen.token # None THEN seen.token ELSE d, billed |-> TRUE]
      [] TypeOf(d) = "FAILED" /\ Exists(seen) ->
            [row EXCEPT !.status = Written(seen.status, @, "past_due"), !.grace = "running"]
      [] TypeOf(d) = "CANCELED" /\ Exists(seen) ->
            [row EXCEPT !.status = Written(seen.status, @, "canceled")]
      [] OTHER -> row

\* Mutation: the change is committed although the event is known already.
CommitTwice(d) ==
    /\ dlv[d].at = "read" /\ ~IsFirstActivation(d)
    /\ row' = Applied(d)
    /\ recorded' = Recorded(d)
    /\ Goto(d, IF TypeOf(d) \in {"FAILED", "CANCELED"} THEN "look" ELSE "done")
    /\ UNCHANGED <<constVars, revealVars, cutVars, raced>>

\* Every other event changes the row and is recorded in one transaction.
Commit(d) ==
    /\ dlv[d].at = "read" /\ ~IsFirstActivation(d)
    /\ IF IsNew(d)
       THEN /\ row' = Applied(d)
            /\ recorded' = Recorded(d)
            /\ Goto(d, IF TypeOf(d) \in {"FAILED", "CANCELED"} THEN "look" ELSE "done")
       ELSE Fails(d) /\ UNCHANGED rowVars
    /\ UNCHANGED <<constVars, revealVars, cutVars, raced>>

\* is_running: the registry's entry is trusted if it is of this server and the process
\* lives, or of another one and not too old.
IsRunning == worker \cap {"own", "former"} # {}

\* The workers without an entry: the entries of others are removed or overwritten.
Unlisted == IF "former" \in worker THEN {"unlisted"} ELSE worker \cap {"unlisted"}

\* stop_worker ends the process it has a handle of, and takes the entry away.  Any
\* other worker is only sent a STOP, which it may read late or never: see WorkerEnds.
Stop == worker' = Unlisted

\* is_running, is_active and stop_worker, one await each.
LookForWorker(d) ==
    /\ dlv[d].at = "look"
    /\ Goto(d, IF IsRunning THEN "ask" ELSE "done")
    /\ UNCHANGED <<constVars, rowVars, revealVars, cutVars, raced>>

AskIfActive(d) ==
    /\ dlv[d].at = "ask"
    /\ Goto(d, IF IsActive THEN "done" ELSE "stop")
    /\ UNCHANGED <<constVars, rowVars, revealVars, cutVars, raced>>

CutOff(d) ==
    /\ dlv[d].at = "stop"
    /\ Stop
    /\ Goto(d, "done")
    /\ UNCHANGED <<constVars, rowVars, revealVars, sweep, admin, conn, slipped, raced>>

\* The database, Redis or the server fails; what was committed stays.
WebhookDies(d) ==
    /\ dlv[d].at \notin {"idle", "done"}
    /\ Fails(d)
    /\ slipped' = (slipped \/ dlv[d].at \in {"look", "ask", "stop"})
    /\ UNCHANGED <<constVars, rowVars, revealVars, sweep, admin, conn, worker, raced>>

-----------------------------------------------------------------------------
(* _subscription_sweep_loop: list, look, stop, mark. *)

SweepLists ==
    /\ sweep = "idle" /\ Lapsed
    /\ sweep' = "listed"
    /\ UNCHANGED <<constVars, rowVars, dlv, revealVars, admin, conn, worker, slipped, raced>>

\* Mutation: only the row is marked.
SweepLooksAway ==
    /\ sweep = "listed"
    /\ sweep' = "mark"
    /\ UNCHANGED <<constVars, rowVars, dlv, revealVars, admin, conn, worker, slipped, raced>>

SweepLooks ==
    /\ sweep = "listed"
    /\ sweep' = IF IsRunning THEN "stop" ELSE "mark"
    /\ UNCHANGED <<constVars, rowVars, dlv, revealVars, admin, conn, worker, slipped, raced>>

SweepStops ==
    /\ sweep = "stop"
    /\ Stop
    /\ sweep' = "mark"
    /\ UNCHANGED <<constVars, rowVars, dlv, revealVars, admin, conn, slipped, raced>>

\* Mutation: an account whose worker has just been stopped is left as it is.
MarkNobody == UNCHANGED row

\* mark_suspended writes whatever the status has become in the meantime.
MarkSuspended == row' = IF Exists(row) THEN [row EXCEPT !.status = "suspended"] ELSE row

SweepMarks ==
    /\ sweep = "mark"
    /\ MarkSuspended
    /\ sweep' = "idle"
    /\ UNCHANGED <<constVars, recorded, dlv, revealVars, admin, conn, worker, slipped, raced>>

\* An exception ends the iteration; the loop goes on after its pause.
SweepFails ==
    /\ sweep # "idle"
    /\ sweep' = "idle"
    /\ UNCHANGED <<constVars, rowVars, dlv, revealVars, admin, conn, worker, slipped, raced>>

-----------------------------------------------------------------------------
(* cancel_subscription, set_mode, and what else makes a row. *)

CancelBegins ==
    /\ admin = "idle" /\ row.billed
    /\ admin' = "ask"
    /\ UNCHANGED <<constVars, rowVars, dlv, revealVars, sweep, conn, worker, slipped, raced>>

\* The subscription is looked up at the provider, and canceled there by a second call.
ProviderCancels ==
    /\ admin = "ask"
    /\ admin' = "mark"
    /\ UNCHANGED <<constVars, rowVars, dlv, revealVars, sweep, conn, worker, slipped, raced>>

MarkCanceled ==
    /\ admin = "mark"
    /\ row' = [row EXCEPT !.status = "canceled"]
    /\ admin' = "look"
    /\ UNCHANGED <<constVars, recorded, dlv, revealVars, sweep, conn, worker, slipped, raced>>

CancelLooks ==
    /\ admin = "look"
    /\ admin' = IF IsRunning THEN "stop" ELSE "idle"
    /\ UNCHANGED <<constVars, rowVars, dlv, revealVars, sweep, conn, worker, slipped, raced>>

CancelStops ==
    /\ admin = "stop"
    /\ Stop
    /\ admin' = "idle"
    /\ UNCHANGED <<constVars, rowVars, dlv, revealVars, sweep, conn, slipped, raced>>

\* The provider does not confirm, or the request dies.
CancelFails ==
    /\ admin # "idle"
    /\ admin' = "idle"
    /\ slipped' = (slipped \/ admin \in {"look", "stop"})
    /\ UNCHANGED <<constVars, rowVars, dlv, revealVars, sweep, conn, worker, raced>>

\* set_mode of the administrator; activate_demo for a new account only.
SetMode ==
    /\ row' = IF Exists(row) THEN [row EXCEPT !.status = "active"]
                             ELSE [NoRow EXCEPT !.status = "active", !.token = "manual"]
    /\ UNCHANGED <<constVars, recorded, dlv, revealVars, cutVars, raced>>

\* set_risk_preset makes a minimal row, without a portal token.
SetRiskPreset ==
    /\ ~Exists(row)
    /\ row' = [NoRow EXCEPT !.status = "demo"]
    /\ UNCHANGED <<constVars, recorded, dlv, revealVars, cutVars, raced>>

-----------------------------------------------------------------------------
(* The endpoint "connect": the plan is checked, credentials are stored, and  *)
(* only then the worker is started.                                          *)

CheckPlan ==
    /\ conn = "idle" /\ AllowsBrain
    /\ conn' = "allowed"
    /\ UNCHANGED <<constVars, rowVars, dlv, revealVars, sweep, admin, worker, slipped, raced>>

Revoking == sweep # "idle" \/ admin # "idle"
               \/ \E d \in Deliveries : dlv[d].at \in {"look", "ask", "stop"}

\* ensure_worker leaves a worker of its own alone, also one whose entry was lost, and
\* starts one beside any other.
StartWorker ==
    /\ conn = "allowed"
    /\ \/ worker' = IF "own" \in worker THEN worker ELSE Unlisted \cup {"own"}
       \/ "unlisted" \in worker /\ UNCHANGED worker
    /\ conn' = "idle"
    /\ slipped' = (slipped \/ Revoking \/ ~AllowsBrain)
    /\ UNCHANGED <<constVars, rowVars, dlv, revealVars, sweep, admin, raced>>

ConnectFails ==
    /\ conn = "allowed"
    /\ conn' = "idle"
    /\ UNCHANGED <<constVars, rowVars, dlv, revealVars, sweep, admin, worker, slipped, raced>>

\* A worker is disconnected by its owner, is idle for too long, is dead, or reads a STOP.
WorkerEnds ==
    /\ \E w \in worker : worker' = worker \ {w}
    /\ UNCHANGED <<constVars, rowVars, dlv, revealVars, sweep, admin, conn, slipped, raced>>

\* A restarted server has no handles; the entries of the one before it are another's.
ServerRestarts ==
    /\ "own" \in worker
    /\ worker' = (worker \ {"own"}) \cup {"former"}
    /\ UNCHANGED <<constVars, rowVars, dlv, revealVars, sweep, admin, conn, slipped, raced>>

\* The entry becomes too old, is removed by a probe that had found an older one stale,
\* or loses its process when Redis fails inside stop_worker.
EntryIsLost ==
    /\ IsRunning
    /\ worker' = {"unlisted"}
    /\ UNCHANGED <<constVars, rowVars, dlv, revealVars, sweep, admin, conn, slipped, raced>>

-----------------------------------------------------------------------------
(* CredentialRevealService.reveal: GET, GET, DEL, DEL, then the answer. *)

MatchToken(b) ==
    /\ browser[b].at = "idle" /\ urlToken
    /\ browser' = [browser EXCEPT ![b].at = "matched"]
    /\ UNCHANGED <<constVars, rowVars, dlv, pending, urlToken, cutVars, raced>>

\* Mutation: what GET returns is used without a look.
ReadAnything(b) ==
    /\ browser[b].at = "matched"
    /\ browser' = [browser EXCEPT ![b] = [at |-> "got", got |-> pending]]
    /\ UNCHANGED <<constVars, rowVars, dlv, pending, urlToken, cutVars, raced>>

ReadPending(b) ==
    /\ browser[b].at = "matched"
    /\ browser' = [browser EXCEPT ![b] =
                      IF pending = None THEN [at |-> "idle", got |-> None]
                                        ELSE [at |-> "got", got |-> pending]]
    /\ UNCHANGED <<constVars, rowVars, dlv, pending, urlToken, cutVars, raced>>

DeleteToken(b) ==
    /\ browser[b].at = "got"
    /\ urlToken' = FALSE
    /\ browser' = [browser EXCEPT ![b].at = "half"]
    /\ UNCHANGED <<constVars, rowVars, dlv, pending, cutVars, raced>>

DeletePending(b) ==
    /\ browser[b].at = "half"
    /\ pending' = None
    /\ browser' = [browser EXCEPT ![b].at = "done"]
    /\ UNCHANGED <<constVars, rowVars, dlv, urlToken, cutVars, raced>>

RevealDies(b) ==
    /\ browser[b].at \in {"got", "half"}
    /\ browser' = [browser EXCEPT ![b] = [at |-> "idle", got |-> None]]
    /\ UNCHANGED <<constVars, rowVars, dlv, pending, urlToken, cutVars, raced>>

-----------------------------------------------------------------------------
(* Time passes. *)

GraceEnds ==
    /\ row.grace = "running"
    /\ row' = [row EXCEPT !.grace = "over"]
    /\ UNCHANGED <<constVars, recorded, dlv, revealVars, cutVars, raced>>

PendingExpires ==
    /\ pending # None
    /\ pending' = None
    /\ UNCHANGED <<constVars, rowVars, dlv, urlToken, browser, cutVars, raced>>

UrlTokenExpires ==
    /\ urlToken
    /\ urlToken' = FALSE
    /\ UNCHANGED <<constVars, rowVars, dlv, pending, browser, cutVars, raced>>

WebhookStep(d) ==
    \/ Receive(d) \/ ReadRow(d) \/ FirstActivation(d) \/ IssueKey(d) \/ RecordEvent(d)
    \/ StashCredentials(d) \/ Commit(d) \/ LookForWorker(d) \/ AskIfActive(d) \/ CutOff(d)

SweepStep  == SweepLists \/ SweepLooks \/ SweepStops \/ SweepMarks
CancelStep == CancelBegins \/ ProviderCancels \/ MarkCanceled \/ CancelLooks \/ CancelStops
RevealStep(b) == MatchToken(b) \/ ReadPending(b) \/ DeleteToken(b) \/ DeletePending(b)

Next ==
    \/ \E d \in Deliveries \cap parties : WebhookStep(d) \/ WebhookDies(d)
    \/ "sweep" \in parties /\ (SweepStep \/ SweepFails \/ GraceEnds)
    \/ "admin" \in parties /\ (CancelStep \/ CancelFails \/ SetMode)
    \/ "preset" \in parties /\ SetRiskPreset
    \/ "connect" \in parties /\ (CheckPlan \/ StartWorker \/ ConnectFails
                                \/ WorkerEnds \/ ServerRestarts \/ EntryIsLost)
    \/ "reveal" \in parties /\ \E b \in Browsers : RevealStep(b) \/ RevealDies(b)
    \/ "expiry" \in parties /\ (PendingExpires \/ UrlTokenExpires)

Spec == Init /\ [][Next]_vars

\* The sweep runs for as long as the server does, and not every iteration fails.
FairSpec ==
    /\ Spec
    /\ WF_vars(SweepLists)
    /\ SF_vars(SweepLooks) /\ SF_vars(SweepStops) /\ SF_vars(SweepMarks)

-----------------------------------------------------------------------------
\* Webhooks can be delivered more than once: after an id is recorded, another
\* delivery with it changes the row only as a first activation that was under way
\* when the event was recorded.
AppliedOnce ==
    [][\A d \in Deliveries :
          (~IsNew(d) /\ dlv'[d] # dlv[d] /\ row' # row) => IsFirstActivation(d)]_vars

\* The portal token a new subscriber was shown is the one of the account's row,
\* through renewals, failures and cancellations, unless two first activations
\* overlapped.
RevealedTokenIsCurrent ==
    \A b \in Browsers : browser[b].at = "done" => raced \/ browser[b].got = row.token

\* An account that is suspended or canceled has no worker that is_running knows of when
\* nothing that cuts it off is in progress, unless a connect overlapped the revocation
\* or the request that revoked it died half way.  The exceptions are the unlisted
\* workers: one whose entry was lost or had become too old before the look, and one of
\* a former server, which is sent a STOP and forgotten.
RevokedIsCutOff ==
    IsRunning /\ row.status \in {"suspended", "canceled"} => Revoking \/ slipped

\* An account whose grace period is over does not stay past due: the sweep reaches it.
LapsedIsMarked == Lapsed ~> ~Lapsed
=============================================================================
