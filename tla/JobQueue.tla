------------------------------ MODULE JobQueue ------------------------------
(***************************************************************************)
(* Orders that the API server hands to MT5 worker processes through Redis: *)
(* the trading endpoints, the job queue, the pools that start and stop the *)
(* workers, and the workers.  Each API instance is one event loop: its     *)
(* requests interleave at every await, and stop nowhere else; only Redis   *)
(* is shared between instances.                                            *)
(*                                                                         *)
(* A job is one order, submitted at most once (a fresh uuid4).  Before it  *)
(* is looked at here, the endpoint has checked the plan and charged the    *)
(* daily quota (module PlanLimits); either may refuse it.                  *)
(***************************************************************************)
EXTENDS Naturals, Sequences, FiniteSets

CONSTANTS Instances,  \* API server processes
          Calls,      \* requests that may be in progress at once
          Workers,    \* worker processes that may be known at once
          Accounts,
          Jobs,
          MaxWorkers, \* MAX_CONCURRENT_WORKERS, per instance
          MaxStops,   \* bound: STOP jobs in one queue
          MaxRestarts, \* bound: restarts of API servers
          Scenes,     \* what one behaviour is about, see Scene
          None

STOP == "STOP"

Former == "a former instance id"

Faults == {"crash", "redis", "connect", "restart"}
Ops    == {"order", "status", "connect", "disconnect"}

\* The server each request runs on, what it may ask for and for which account,
\* and what may go wrong.
Scene == [server : [Calls -> Instances], asks : [Calls -> SUBSET (Ops \X Accounts)],
          faults : SUBSET Faults]

ASSUME JobQueueAssumption ==
    /\ Scenes \subseteq Scene
    /\ MaxWorkers \in Nat \ {0}
    /\ MaxStops \in Nat /\ MaxRestarts \in Nat
    /\ None \notin Calls \cup Workers \cup Instances \cup Accounts \cup Jobs
    /\ STOP \notin Jobs /\ Former \notin Instances

VARIABLES scene,    \* never changes
          queue,    \* queue:account:{id}, oldest job first
          results,  \* result:{job_id}, newest result first
          creds,    \* the accounts with a worker_creds key
          registry, \* worker_registry: which instance, and whether its TTL is over
          handles,  \* _workers of each instance
          lock,     \* _lock of each instance
          call,     \* requests in progress
          worker,   \* worker processes, each with the server that is in charge of it
          restarts, \* how often an API server was restarted
          taken,    \* how often a worker called the execution service for each order
          told      \* what the client of each order has been told

redisVars == <<queue, results, creds, registry>>
vars == <<scene, queue, results, creds, registry, handles, lock, call, worker, restarts,
          taken, told>>

Entry   == [by : Instances \cup {Former, None}, old : BOOLEAN]
NoEntry == [by |-> None, old |-> FALSE]

IdleCall == [at |-> "free", op |-> "none", acct |-> None, job |-> None,
             proc |-> None, seen |-> NoEntry]
DeadWorker == [at |-> "dead", acct |-> None, by |-> None, job |-> None, outcome |-> "none"]

CallState ==
    [at : {"free", "look", "decide", "purge", "submit", "wait",
           "lock", "reap", "spawn", "register", "unregister", "post", "reaping"},
     op : {"none"} \cup Ops,
     acct : Accounts \cup {None}, job : Jobs \cup {None},
     proc : Workers \cup {None}, seen : Entry]
WorkerState ==
    [at : {"dead", "started", "connecting", "ready", "popped", "taken", "pushed"},
     acct : Accounts \cup {None}, by : Instances \cup {Former, None}, job : Jobs \cup {None},
     outcome : {"none", "ok", "failed"}]

R == INSTANCE RemoteCall

TypeOK ==
    /\ scene \in Scenes
    /\ queue \in [Accounts -> Seq(Jobs \cup {STOP})]
    /\ results \in [Jobs -> Seq({"ok", "failed"})]
    /\ creds \subseteq Accounts
    /\ registry \in [Accounts -> Entry]
    /\ handles \in [Instances -> [Accounts -> Workers \cup {None}]]
    /\ lock \in [Instances -> Calls \cup {None}]
    /\ call \in [Calls -> CallState]
    /\ worker \in [Workers -> WorkerState]
    /\ restarts \in 0..MaxRestarts
    /\ taken \in [Jobs -> Nat]
    /\ told \in [Jobs -> R!Told]

Init ==
    /\ scene \in Scenes
    /\ queue = [a \in Accounts |-> <<>>]
    /\ results = [j \in Jobs |-> <<>>]
    /\ creds = {}
    /\ registry = [a \in Accounts |-> NoEntry]
    /\ handles = [i \in Instances |-> [a \in Accounts |-> None]]
    /\ lock = [i \in Instances |-> None]
    /\ call = [c \in Calls |-> IdleCall]
    /\ worker = [w \in Workers |-> DeadWorker]
    /\ restarts = 0
    /\ R!Init

-----------------------------------------------------------------------------
Alive(w) == w # None /\ worker[w].at # "dead"

ServerOf(c) == scene.server[c]

\* The event loop of an instance runs, unless stop_worker sits in process.wait.
Awake(i) == \A c \in Calls : ServerOf(c) = i => call[c].at # "reaping"

At(c, place) == call[c].at = place /\ Awake(ServerOf(c))

\* The handle a request's instance holds for its account, and the same gone.
HandleOf(c) == handles[ServerOf(c)][call[c].acct]
WithoutHandle(c) == [handles EXCEPT ![ServerOf(c)][call[c].acct] = None]
HandleIsDead(c) == HandleOf(c) # None /\ ~Alive(HandleOf(c))

Goto(c, place) == call' = [call EXCEPT ![c].at = place]
Return(c)      == call' = [call EXCEPT ![c] = IdleCall]

\* Mutation: an early return leaves the lock taken.
ReleaseForgotten(c) == UNCHANGED lock

Release(c) == lock' = [lock EXCEPT ![ServerOf(c)] = None]

Stops(a) == Cardinality({n \in DOMAIN queue[a] : queue[a][n] = STOP})
               + Cardinality({c \in Calls : call[c].op = "disconnect" /\ call[c].acct = a
                                            /\ call[c].at # "reaping"})

\* A request arrives.  An order may be refused by the plan or the quota.
Begin(c, a, op) ==
    /\ At(c, "free")
    /\ op # "order" /\ <<op, a>> \in scene.asks[c]
    /\ op = "disconnect" => Stops(a) < MaxStops
    /\ call' = [call EXCEPT ![c] =
                   [IdleCall EXCEPT !.op = op, !.acct = a,
                                    !.at = IF op = "status" THEN "look" ELSE "lock"]]
    /\ UNCHANGED <<redisVars, handles, lock, worker, taken, told, restarts, scene>>

BeginOrder(c, a, j) ==
    /\ At(c, "free")
    /\ <<"order", a>> \in scene.asks[c]
    /\ told[j] = "nothing" /\ \A d \in Calls : call[d].job # j
    /\ call' = [call EXCEPT ![c] = [IdleCall EXCEPT !.op = "order", !.acct = a, !.job = j,
                                                    !.at = "look"]]
    /\ UNCHANGED <<redisVars, handles, lock, worker, taken, told, restarts, scene>>

RefuseOrder(j) ==
    /\ \A c \in Calls : call[c].job # j
    /\ R!Refuse(j)
    /\ UNCHANGED <<redisVars, handles, lock, call, worker, restarts, scene>>

-----------------------------------------------------------------------------
(* is_running, without the pool's lock: the local handle, the registry, and  *)
(* a removal of what was found stale.  An order goes on if the answer is yes *)
(* and is refused with 409 otherwise.                                        *)

SaysNo(c) ==
    /\ Return(c)
    /\ told' = IF call[c].op = "order" THEN [told EXCEPT ![call[c].job] = "refused"] ELSE told

\* No await lies between the look at the local handle and the request to Redis.
Look(c) ==
    /\ At(c, "look")
    /\ IF HandleIsDead(c)
       THEN handles' = WithoutHandle(c) /\ Goto(c, "purge")
       ELSE /\ call' = [call EXCEPT ![c].at = "decide", ![c].seen = registry[call[c].acct]]
            /\ UNCHANGED handles
    /\ UNCHANGED <<redisVars, lock, worker, taken, told, restarts, scene>>

\* Mutation: an entry of another instance is never too old.
IsStaleNever(c) == call[c].seen.by = ServerOf(c) /\ ~Alive(HandleOf(c))

IsStale(c) ==
    IF call[c].seen.by = ServerOf(c) THEN ~Alive(HandleOf(c)) ELSE call[c].seen.old

Decide(c) ==
    /\ At(c, "decide")
    /\ CASE call[c].seen.by = None ->
              SaysNo(c) /\ UNCHANGED handles
         [] call[c].seen.by # None /\ IsStale(c) ->
              /\ handles' = IF call[c].seen.by = ServerOf(c) THEN WithoutHandle(c) ELSE handles
              /\ Goto(c, "purge")
              /\ UNCHANGED told
         [] OTHER ->
              /\ IF call[c].op = "order" THEN Goto(c, "submit") ELSE Return(c)
              /\ UNCHANGED <<handles, told>>
    /\ UNCHANGED <<redisVars, lock, worker, taken, restarts, scene>>

Purge(c) ==
    /\ At(c, "purge")
    /\ registry' = [registry EXCEPT ![call[c].acct] = NoEntry]
    /\ SaysNo(c)
    /\ UNCHANGED <<queue, results, creds, handles, lock, worker, taken, restarts, scene>>

-----------------------------------------------------------------------------
(* submit_and_wait. *)

Submit(c) ==
    /\ At(c, "submit")
    /\ queue' = [queue EXCEPT ![call[c].acct] = Append(@, call[c].job)]
    /\ Goto(c, "wait")
    /\ R!Ask(call[c].job)
    /\ UNCHANGED <<results, creds, registry, handles, lock, worker, restarts, scene>>

Collect(c) ==
    /\ At(c, "wait")
    /\ results[call[c].job] # <<>>
    /\ results' = [results EXCEPT ![call[c].job] = Tail(@)]
    /\ told' = [told EXCEPT ![call[c].job] = Head(results[call[c].job])]
    /\ Return(c)
    /\ UNCHANGED <<queue, creds, registry, handles, lock, worker, taken, restarts, scene>>

\* BLPOP's timeout: the endpoint answers 504 and leaves the job where it is.
WaitTimesOut(c) ==
    /\ At(c, "wait")
    /\ results[call[c].job] = <<>>
    /\ told' = [told EXCEPT ![call[c].job] = "unknown"]
    /\ Return(c)
    /\ UNCHANGED <<redisVars, handles, lock, worker, taken, restarts, scene>>

-----------------------------------------------------------------------------
(* ensure_worker and stop_worker, under the instance's lock. *)

Handled(i) == {a \in Accounts : handles[i][a] # None}

Lock(c) == lock' = [lock EXCEPT ![ServerOf(c)] = c]

\* What ensure_worker does when there is no handle (any more) for the account.
SpawnOrRefuse(c) ==
    IF Cardinality(Handled(ServerOf(c))) >= MaxWorkers
    THEN Return(c) /\ Release(c)
    ELSE Goto(c, "spawn") /\ Lock(c)

LockIsFree(c) == lock[ServerOf(c)] = None

EnsureWorker(c) ==
    /\ At(c, "lock") /\ call[c].op = "connect" /\ LockIsFree(c)
    /\ CASE Alive(HandleOf(c)) ->
              Return(c) /\ UNCHANGED <<lock, handles>>
         [] HandleIsDead(c) ->
              handles' = WithoutHandle(c) /\ Lock(c) /\ Goto(c, "reap")
         [] OTHER ->
              SpawnOrRefuse(c) /\ UNCHANGED handles
    /\ UNCHANGED <<redisVars, worker, taken, told, restarts, scene>>

\* The entry of the dead worker is removed, whoever wrote it since; a failure of
\* Redis is only logged here.
Reap(c) ==
    /\ At(c, "reap")
    /\ \/ registry' = [registry EXCEPT ![call[c].acct] = NoEntry]
       \/ "redis" \in scene.faults /\ UNCHANGED registry
    /\ SpawnOrRefuse(c)
    /\ UNCHANGED <<queue, results, creds, handles, worker, taken, told, restarts, scene>>

\* A process that nobody knows any more gives its name to the new one.
Spare == {w \in Workers : ~Alive(w) /\ \A i \in Instances, a \in Accounts : handles[i][a] # w}
Unwatched == {w \in Spare : \A c \in Calls : call[c].proc # w}

Spawn(c) ==
    /\ At(c, "spawn")
    /\ \E w \in Unwatched :
          /\ worker' = [worker EXCEPT ![w] = [DeadWorker EXCEPT !.at = "started",
                                                 !.acct = call[c].acct, !.by = ServerOf(c)]]
          /\ handles' = [handles EXCEPT ![ServerOf(c)][call[c].acct] = w]
    /\ creds' = creds \cup {call[c].acct}
    /\ Goto(c, "register")
    /\ UNCHANGED <<queue, results, registry, lock, taken, told, restarts, scene>>

Register(c) ==
    /\ At(c, "register")
    /\ registry' = [registry EXCEPT ![call[c].acct] = [by |-> ServerOf(c), old |-> FALSE]]
    /\ Return(c) /\ Release(c)
    /\ UNCHANGED <<queue, results, creds, handles, worker, taken, told, restarts, scene>>

StopWorker(c) ==
    /\ At(c, "lock") /\ call[c].op = "disconnect" /\ LockIsFree(c)
    /\ Lock(c)
    /\ call' = [call EXCEPT ![c].at = "unregister", ![c].proc = HandleOf(c)]
    /\ handles' = WithoutHandle(c)
    /\ UNCHANGED <<redisVars, worker, taken, told, restarts, scene>>

Unregister(c) ==
    /\ At(c, "unregister")
    /\ registry' = [registry EXCEPT ![call[c].acct] = NoEntry]
    /\ Goto(c, "post")
    /\ UNCHANGED <<queue, results, creds, handles, lock, worker, taken, told, restarts, scene>>

\* Without a process handle the STOP job is all that can be done.
PostStop(c) ==
    /\ At(c, "post")
    /\ queue' = [queue EXCEPT ![call[c].acct] = Append(@, STOP)]
    /\ IF call[c].proc = None
       THEN Return(c) /\ Release(c)
       ELSE Goto(c, "reaping") /\ UNCHANGED lock
    /\ UNCHANGED <<results, creds, registry, handles, worker, taken, told, restarts, scene>>

\* process.wait(timeout=5) blocks the loop; then the process is killed.
\* Mutations: a process that does not exit in time is left alone; it is killed,
\* but nobody takes note of its end.
KilledNever(c)   == worker
KilledUnreaped(c) == [worker EXCEPT ![call[c].proc].at = "killed"]

Killed(c) == [worker EXCEPT ![call[c].proc] = DeadWorker]

ProcessGone(c) ==
    /\ call[c].at = "reaping"
    /\ worker' = IF Alive(call[c].proc) THEN Killed(c) ELSE worker
    /\ Return(c) /\ Release(c)
    /\ UNCHANGED <<redisVars, handles, taken, told, restarts, scene>>

\* Redis raises while a request has the lock, which "async with" gives back.  The
\* process of a stop has left its handle before: it lives on, and no server has a
\* handle of it any more.
Orphaned(c) == [worker EXCEPT ![call[c].proc].by = None]

RedisFails(c) ==
    /\ "redis" \in scene.faults
    /\ \/ (At(c, "spawn") \/ At(c, "register")) /\ UNCHANGED worker
       \/ /\ At(c, "unregister") \/ At(c, "post")
          /\ worker' = IF Alive(call[c].proc) THEN Orphaned(c) ELSE worker
    /\ Return(c) /\ Release(c)
    /\ UNCHANGED <<redisVars, handles, taken, told, restarts, scene>>

-----------------------------------------------------------------------------
(* run_worker and handle_job. *)

Exit(w) == worker' = [worker EXCEPT ![w] = DeadWorker]

\* GET and DELETE are two commands: two workers may get the same credentials.
FetchCredentials(w) ==
    /\ worker[w].at = "started"
    /\ IF worker[w].acct \in creds
       THEN worker' = [worker EXCEPT ![w].at = "connecting"]
       ELSE Exit(w)
    /\ UNCHANGED <<redisVars, handles, lock, call, taken, told, restarts, scene>>

\* The key is deleted, and the terminal connects or not.
Connect(w, connected) ==
    /\ worker[w].at = "connecting"
    /\ connected \/ "connect" \in scene.faults
    /\ creds' = creds \ {worker[w].acct}
    /\ IF connected THEN worker' = [worker EXCEPT ![w].at = "ready"] ELSE Exit(w)
    /\ UNCHANGED <<queue, results, registry, handles, lock, call, taken, told, restarts, scene>>

\* Mutation: the job stays in the list until its result is there.
RestOfKept(a) == queue[a]

RestOf(a) == Tail(queue[a])

PopJob(w) ==
    LET a == worker[w].acct IN
    /\ worker[w].at = "ready"
    /\ queue[a] # <<>>
    /\ queue' = [queue EXCEPT ![a] = RestOf(a)]
    /\ IF Head(queue[a]) = STOP
       THEN Exit(w)
       ELSE worker' = [worker EXCEPT ![w].at = "popped", ![w].job = Head(queue[a])]
    /\ UNCHANGED <<results, creds, registry, handles, lock, call, taken, told, restarts, scene>>

\* WORKER_IDLE_TIMEOUT_SECONDS without a job; the registry keeps the entry.
IdleOut(w) ==
    /\ worker[w].at = "ready"
    /\ queue[worker[w].acct] = <<>>
    /\ Exit(w)
    /\ UNCHANGED <<redisVars, handles, lock, call, taken, told, restarts, scene>>

\* The execution service is called; whatever it raises becomes a failure.
Execute(w, outcome) ==
    /\ worker[w].at = "popped"
    /\ worker' = [worker EXCEPT ![w].at = "taken", ![w].outcome = outcome]
    /\ taken' = [taken EXCEPT ![worker[w].job] = @ + 1]
    /\ UNCHANGED <<redisVars, handles, lock, call, told, restarts, scene>>

Back(w) == worker' = [worker EXCEPT ![w] = [@ EXCEPT !.at = "ready", !.job = None, !.outcome = "none"]]

Push(w, outcome) == results' = [results EXCEPT ![worker[w].job] = <<outcome>> \o @]

\* push_result is an LPUSH and an EXPIRE.
PushResult(w) ==
    /\ worker[w].at = "taken"
    /\ Push(w, worker[w].outcome)
    /\ worker' = [worker EXCEPT ![w].at = "pushed"]
    /\ UNCHANGED <<queue, creds, registry, handles, lock, call, taken, told, restarts, scene>>

ExpireIsSet(w) ==
    /\ worker[w].at = "pushed"
    /\ Back(w)
    /\ UNCHANGED <<redisVars, handles, lock, call, taken, told, restarts, scene>>

\* A success whose EXPIRE raises is followed by a failure for the same job.
ExpireFails(w) ==
    /\ "redis" \in scene.faults
    /\ worker[w].at = "pushed"
    /\ IF worker[w].outcome = "ok"
       THEN Push(w, "failed") /\ Back(w)
       ELSE Exit(w) /\ UNCHANGED results
    /\ UNCHANGED <<queue, creds, registry, handles, lock, call, taken, told, restarts, scene>>

\* Redis or the process fails between two steps; the job is in no list.
WorkerCrashes(w) ==
    /\ "crash" \in scene.faults
    /\ Alive(w)
    /\ Exit(w)
    /\ UNCHANGED <<redisVars, handles, lock, call, taken, told, restarts, scene>>

-----------------------------------------------------------------------------
(* Time passes, and an API server may be restarted; its workers live on. *)

CredentialsExpire(a) ==
    /\ a \in creds
    /\ creds' = creds \ {a}
    /\ UNCHANGED <<queue, results, registry, handles, lock, call, worker, taken, told, restarts, scene>>

ResultExpires(j) ==
    /\ results[j] # <<>>
    /\ results' = [results EXCEPT ![j] = <<>>]
    /\ UNCHANGED <<queue, creds, registry, handles, lock, call, worker, taken, told, restarts, scene>>

RegistryAges(a) ==
    /\ registry[a].by # None /\ ~registry[a].old
    /\ registry' = [registry EXCEPT ![a].old = TRUE]
    /\ UNCHANGED <<queue, results, creds, handles, lock, call, worker, taken, told, restarts, scene>>

\* The server's process is killed and started again, under a new instance id.
ServerRestarts(i) ==
    /\ "restart" \in scene.faults /\ restarts < MaxRestarts
    /\ restarts' = restarts + 1
    /\ registry' = [a \in Accounts |-> IF registry[a].by = i THEN [registry[a] EXCEPT !.by = Former]
                                                            ELSE registry[a]]
    /\ worker' = [w \in Workers |-> IF worker[w].by = i THEN [worker[w] EXCEPT !.by = Former]
                                                        ELSE worker[w]]
    /\ handles' = [handles EXCEPT ![i] = [a \in Accounts |-> None]]
    /\ lock' = [lock EXCEPT ![i] = None]
    /\ call' = [c \in Calls |-> IF ServerOf(c) = i THEN IdleCall ELSE call[c]]
    /\ told' = [j \in Jobs |-> IF \E c \in Calls : ServerOf(c) = i /\ call[c].job = j
                                                   /\ told[j] = "waiting"
                               THEN "unknown" ELSE told[j]]
    /\ UNCHANGED <<queue, results, creds, taken, scene>>

-----------------------------------------------------------------------------
CallStep(c) ==
    \/ Look(c) \/ Decide(c) \/ Purge(c)
    \/ Submit(c) \/ Collect(c) \/ WaitTimesOut(c)
    \/ EnsureWorker(c) \/ Reap(c) \/ Spawn(c) \/ Register(c)
    \/ StopWorker(c) \/ Unregister(c) \/ PostStop(c) \/ ProcessGone(c)

WorkerStep(w) ==
    \/ FetchCredentials(w) \/ Connect(w, TRUE) \/ PopJob(w)
    \/ \E outcome \in {"ok", "failed"} : Execute(w, outcome)
    \/ PushResult(w) \/ ExpireIsSet(w)

Next ==
    \/ \E c \in Calls, a \in Accounts :
          \/ \E op \in Ops : Begin(c, a, op)
          \/ \E j \in Jobs : BeginOrder(c, a, j)
    \/ \E j \in Jobs : RefuseOrder(j) \/ ResultExpires(j)
    \/ \E c \in Calls : CallStep(c) \/ RedisFails(c)
    \/ \E w \in Workers : WorkerStep(w) \/ Connect(w, FALSE) \/ IdleOut(w)
                          \/ ExpireFails(w) \/ WorkerCrashes(w)
    \/ \E a \in Accounts : CredentialsExpire(a) \/ RegistryAges(a)
    \/ \E i \in Instances : ServerRestarts(i)

Spec == Init /\ [][Next]_vars

(* Fairness.  The event loop runs its tasks, and an asyncio.Lock is handed   *)
(* over, in the order of arrival, so a request that can go on now and then   *)
(* goes on; BLPOP and BRPOP time out, a worker that lives does its work,     *)
(* clients ask for the state of their account again and again, time passes.  *)
Asked(a) == \E c \in Calls : Begin(c, a, "status")

Fairness ==
    /\ \A c \in Calls : SF_vars(CallStep(c))
    /\ \A w \in Workers : WF_vars(WorkerStep(w) \/ IdleOut(w))
    /\ \A a \in Accounts : SF_vars(Asked(a)) /\ WF_vars(RegistryAges(a))

FairSpec == Spec /\ Fairness

-----------------------------------------------------------------------------
CallRefined == R!Spec

Serves(w, a) == Alive(w) /\ worker[w].acct = a

\* A request never waits forever: the lock of the pool is always given back and
\* no wait for Redis or for a process is without end.
CallsEnd == \A c \in Calls : (call[c].at # "free") ~> (call[c].at = "free")

\* is_running's promise that crashed workers cannot leave a permanent "running"
\* ghost: an entry without a live worker goes, or gets a worker.
GhostsVanish ==
    \A a \in Accounts :
        (registry[a].by # None /\ \A w \in Workers : ~Serves(w, a))
            ~> (registry[a].by = None \/ \E w \in Workers : Serves(w, a))

\* However connects, disconnects and probes of one server interleave, it is never in
\* charge of two live processes for one account, nor of more than its limit.  The
\* exception is named: when Redis fails inside stop_worker, after the handle was
\* dropped, the process that was to be stopped is nobody's, and a connect starts
\* another one beside it.
OneProcessPerServer ==
    \A i \in Instances :
        LET own == {w \in Workers : Alive(w) /\ worker[w].by = i} IN
        /\ \A v, w \in own : worker[v].acct = worker[w].acct => v = w
        /\ Cardinality(own) <= MaxWorkers
=============================================================================
