-------------------------- MODULE JobQueue_proofs --------------------------
(***************************************************************************)
(* Proofs about JobQueue, for any servers, requests, workers, accounts and *)
(* orders, and under every failure the module knows.  The invariant has    *)
(* two parts that do not need each other: where an order may be on its way *)
(* (TripsOK), from which follows that the module implements RemoteCall,    *)
(* and what the pools know of their processes (PoolsOK).                   *)
(***************************************************************************)
EXTENDS JobQueue, FiniteSetTheorems, TLAPS

-----------------------------------------------------------------------------
(* The inductive invariants. *)

Busy == {"look", "decide", "purge", "submit", "wait", "lock", "reap", "spawn", "register",
         "unregister", "post", "reaping"}

CallOK(c) ==
    /\ call[c].at \in {"submit", "wait"} => call[c].op = "order"
    /\ call[c].op = "order" <=> call[c].job # None
    /\ call[c].job # None =>
          \/ call[c].at \in {"look", "decide", "purge", "submit"} /\ told[call[c].job] = "nothing"
          \/ call[c].at = "wait" /\ told[call[c].job] = "waiting"

WorkerOK(w) ==
    /\ worker[w].at \in {"popped", "taken", "pushed"} <=> worker[w].job # None
    /\ worker[w].at = "popped" =>
          taken[worker[w].job] = 0 /\ told[worker[w].job] \in {"waiting", "unknown"}
    /\ worker[w].at \in {"taken", "pushed"} =>
          taken[worker[w].job] = 1 /\ worker[w].outcome \in {"ok", "failed"}

\* An order waits in one place of one queue, or one worker has it; then nobody has
\* taken it up before, and its client has not been told an outcome.
Queued(j) == \E a \in Accounts : \E n \in 1..Len(queue[a]) : queue[a][n] = j

TripsOK ==
    /\ \A c \in Calls : CallOK(c)
    /\ \A c, d \in Calls : call[c].job # None /\ call[c].job = call[d].job => c = d
    /\ \A w \in Workers : WorkerOK(w)
    /\ \A v, w \in Workers : worker[v].at = "popped" /\ worker[w].at = "popped"
                                /\ worker[v].job = worker[w].job => v = w
    /\ \A a, b \in Accounts : \A m \in 1..Len(queue[a]), n \in 1..Len(queue[b]) :
          queue[a][m] # STOP /\ queue[a][m] = queue[b][n] => a = b /\ m = n
    /\ \A j \in Jobs :
          /\ taken[j] \in {0, 1}
          /\ told[j] \in {"nothing", "refused"} => taken[j] = 0
          /\ results[j] # <<>> => taken[j] = 1
          /\ Queued(j) => /\ taken[j] = 0 /\ told[j] \in {"waiting", "unknown"}
                          /\ \A w \in Workers : worker[w].job # j

Locked == {"reap", "spawn", "register", "unregister", "post", "reaping"}

\* A request that is stopping a process, which is in no handle any more.
Stopping(c) == call[c].at \in {"unregister", "post", "reaping"} /\ call[c].proc # None

\* A request that has room in the pool of its server, for the process it starts or
\* has not ended yet.
Claims(c) == call[c].at = "spawn" \/ Stopping(c)

PoolsOK ==
    /\ \A c \in Calls : call[c].at # "free" => call[c].acct \in Accounts
    /\ \A c \in Calls : call[c].at \in Locked => lock[ServerOf(c)] = c
    /\ \A c \in Calls : call[c].at \in Locked \ {"register"} =>
          HandleOf(c) = None
    /\ \A i \in Instances, a \in Accounts :
          Alive(handles[i][a]) => worker[handles[i][a]].acct = a /\ worker[handles[i][a]].by = i
    /\ \A c \in Calls : Stopping(c) /\ Alive(call[c].proc) =>
          worker[call[c].proc].acct = call[c].acct /\ worker[call[c].proc].by = ServerOf(c)
    /\ \A w \in Workers : Alive(w) => worker[w].acct \in Accounts
    /\ \A w \in Workers : Alive(w) /\ worker[w].by \in Instances =>
          \/ handles[worker[w].by][worker[w].acct] = w
          \/ \E c \in Calls : ServerOf(c) = worker[w].by /\ Stopping(c) /\ call[c].proc = w
    /\ \A i \in Instances :
          /\ IsFiniteSet(Handled(i))
          /\ Cardinality(Handled(i)) <= MaxWorkers
          /\ \A c \in Calls : ServerOf(c) = i /\ Claims(c) => Cardinality(Handled(i)) < MaxWorkers

JobInv == TypeOK /\ TripsOK /\ PoolsOK

-----------------------------------------------------------------------------
(* Requests and workers as records. *)

\* What the proofs use of the constants.
LEMMA JobFacts == /\ None \notin Calls /\ None \notin Workers /\ None \notin Instances /\ None \notin Accounts
                  /\ None \notin Jobs /\ STOP \notin Jobs /\ Former \notin Instances
                  /\ MaxWorkers \in Nat \ {0} /\ MaxRestarts \in Nat
  BY JobQueueAssumption

\* A request that is over and a worker that is dead are what their types say.
LEMMA IdleCallType == IdleCall \in CallState /\ DeadWorker \in WorkerState
  BY DEF IdleCall, DeadWorker, CallState, WorkerState, NoEntry, Entry

\* A request goes to another place, or returns.
LEMMA GotoCall ==
    ASSUME call \in [Calls -> CallState], NEW c \in Calls, NEW place \in Busy, Goto(c, place)
    PROVE  /\ call' \in [Calls -> CallState]
           /\ call'[c].at = place /\ call'[c].op = call[c].op /\ call'[c].acct = call[c].acct
           /\ call'[c].job = call[c].job /\ call'[c].proc = call[c].proc
           /\ \A d \in Calls : d # c => call'[d] = call[d]
  <1> DEFINE new == [call[c] EXCEPT !.at = place]
  <1>1. call[c] \in CallState
    OBVIOUS
  <1>2. /\ new \in CallState
        /\ new.at = place /\ new.op = call[c].op /\ new.acct = call[c].acct
        /\ new.job = call[c].job /\ new.proc = call[c].proc
    BY <1>1 DEF CallState, Busy
  <1>3. call' = [call EXCEPT ![c] = new]
    BY DEF Goto
  <1> HIDE DEF new
  <1> QED BY <1>2, <1>3

\* A request returns.
LEMMA ReturnCall ==
    ASSUME call \in [Calls -> CallState], NEW c \in Calls, Return(c)
    PROVE  /\ call' \in [Calls -> CallState]
           /\ call'[c] = IdleCall
           /\ \A d \in Calls : d # c => call'[d] = call[d]
  BY IdleCallType DEF Return

-----------------------------------------------------------------------------
(* Steps that leave the queues alone: nothing new is on its way. *)

\* What a worker may do without taking up an order or losing track of one.
WorkerGoesOn(w) ==
    \/ /\ worker'[w].job = worker[w].job /\ worker'[w].acct = worker[w].acct
       /\ worker'[w].outcome = worker[w].outcome
       /\ worker'[w].at = worker[w].at \/ (worker[w].at = "taken" /\ worker'[w].at = "pushed")
    \/ /\ worker'[w].job = None /\ worker'[w].at \notin {"popped", "taken", "pushed"}

\* What a client may be told.
ToldInOrder(j) ==
    \/ told'[j] = told[j]
    \/ told[j] = "nothing" /\ told'[j] = "refused"
    \/ told[j] = "waiting" /\ told'[j] = "unknown"
    \/ told[j] = "waiting" /\ taken[j] = 1 /\ told'[j] \in {"ok", "failed"}

\* A worker that goes on so has the order it had, which is as it was, or none.
LEMMA WorkerKept ==
    ASSUME NEW w \in Workers, WorkerOK(w), WorkerGoesOn(w), worker[w].job \in Jobs \cup {None},
           taken' = taken, \A j \in Jobs : ToldInOrder(j)
    PROVE  WorkerOK(w)'
  <1>0. None \notin Jobs
    BY JobFacts
  <1>1. CASE worker'[w].job = None /\ worker'[w].at \notin {"popped", "taken", "pushed"}
    BY <1>1 DEF WorkerOK
  <1>2. CASE /\ worker'[w].job = worker[w].job /\ worker'[w].acct = worker[w].acct
             /\ worker'[w].outcome = worker[w].outcome
             /\ worker'[w].at = worker[w].at \/ (worker[w].at = "taken" /\ worker'[w].at = "pushed")
    <2>1. CASE worker[w].job = None
      BY <1>2, <2>1 DEF WorkerOK
    <2>2. CASE worker[w].job \in Jobs
      <3>1. ToldInOrder(worker[w].job)
        BY <2>2
      <3> QED BY <1>2, <2>2, <3>1 DEF WorkerOK, ToldInOrder
    <2> QED BY <2>1, <2>2
  <1> QED BY <1>1, <1>2 DEF WorkerGoesOn

\* Then every order is on its way where it was before, if at all.
LEMMA TripsKept ==
    ASSUME TypeOK, TripsOK, queue' = queue, taken' = taken,
           \A j \in Jobs : results'[j] # <<>> => taken[j] = 1,
           \A j \in Jobs : ToldInOrder(j),
           \A c \in Calls : CallOK(c)' /\ call'[c].job \in {call[c].job, None},
           \A w \in Workers : WorkerGoesOn(w)
    PROVE  TripsOK'
  <1>1. \A w \in Workers : worker[w].job \in Jobs \cup {None}
    BY DEF TypeOK, WorkerState
  <1>2. \A w \in Workers : WorkerOK(w)'
    BY <1>1, WorkerKept DEF TripsOK
  <1>3. \A c, d \in Calls : call'[c].job # None /\ call'[c].job = call'[d].job => c = d
    BY DEF TripsOK
  <1>4. ASSUME NEW v \in Workers, NEW w \in Workers, worker'[v].at = "popped",
               worker'[w].at = "popped", worker'[v].job = worker'[w].job
        PROVE  v = w
    <2>1. worker[v].at = "popped" /\ worker[w].at = "popped" /\ worker[v].job = worker[w].job
      BY <1>4 DEF WorkerGoesOn
    <2> QED BY <2>1 DEF TripsOK
  <1>5. ASSUME NEW j \in Jobs
        PROVE  /\ taken'[j] \in {0, 1}
               /\ told'[j] \in {"nothing", "refused"} => taken'[j] = 0
               /\ results'[j] # <<>> => taken'[j] = 1
               /\ Queued(j)' => /\ taken'[j] = 0 /\ told'[j] \in {"waiting", "unknown"}
                                /\ \A w \in Workers : worker'[w].job # j
    <2>1. /\ taken[j] \in {0, 1}
          /\ told[j] \in {"nothing", "refused"} => taken[j] = 0
          /\ Queued(j) => /\ taken[j] = 0 /\ told[j] \in {"waiting", "unknown"}
                          /\ \A w \in Workers : worker[w].job # j
      BY DEF TripsOK
    <2>2. ToldInOrder(j)
      OBVIOUS
    <2>3. Queued(j)' => Queued(j)
      BY DEF Queued
    <2>4. j # None
      BY JobFacts
    <2>5. Queued(j) => \A w \in Workers : worker'[w].job # j
      BY <2>1, <2>4 DEF WorkerGoesOn
    <2> QED BY <2>1, <2>2, <2>3, <2>5 DEF ToldInOrder
  <1>6. (\A a, b \in Accounts : \A m \in 1..Len(queue[a]), n \in 1..Len(queue[b]) :
            queue[a][m] # STOP /\ queue[a][m] = queue[b][n] => a = b /\ m = n)'
    BY DEF TripsOK
  <1> HIDE DEF CallOK, WorkerOK, ToldInOrder
  <1>7. \A c \in Calls : CallOK(c)'
    OBVIOUS
  <1> QED BY <1>2, <1>3, <1>4, <1>5, <1>6, <1>7 DEF TripsOK

\* A request that does not move is as before if its client has heard nothing.
LEMMA CallSame ==
    ASSUME NEW c \in Calls, CallOK(c), call'[c] = call[c],
           call[c].job # None => told'[call[c].job] = told[call[c].job]
    PROVE  CallOK(c)'
  BY DEF CallOK

\* A request that has returned carries no order.
LEMMA CallIdle ==
    ASSUME NEW c \in Calls, call'[c] = IdleCall
    PROVE  CallOK(c)'
  BY DEF CallOK, IdleCall

-----------------------------------------------------------------------------
(* Steps in which no process is started, and none leaves its handle alive. *)

\* A process that no server is in charge of any more: it is in no handle, and nobody
\* is stopping it.
Abandoned(w) ==
    /\ worker'[w].by \notin Instances
    /\ \A i \in Instances, a \in Accounts : handles[i][a] # w
    /\ \A c \in Calls : Stopping(c)' => call'[c].proc # w

\* Then the pools know of every process what they knew, and have room as before.
LEMMA PoolsKept ==
    ASSUME PoolsOK, TypeOK, scene' = scene,
           handles' \in [Instances -> [Accounts -> Workers \cup {None}]],
           call' \in [Calls -> CallState],
           \A i \in Instances, a \in Accounts :
              \/ handles'[i][a] = handles[i][a]
              \/ handles'[i][a] = None /\ ~Alive(handles[i][a]),
           \A c \in Calls : call'[c].at # "free" => call'[c].acct \in Accounts,
           \A c \in Calls : call'[c].at \in Locked => lock'[ServerOf(c)] = c,
           \A c \in Calls : call'[c].at \in Locked \ {"register"} =>
              handles'[ServerOf(c)][call'[c].acct] = None,
           \A c \in Calls : Stopping(c)' =>
              Stopping(c) /\ call'[c].acct = call[c].acct /\ call'[c].proc = call[c].proc,
           \A c \in Calls : Stopping(c) /\ worker'[call[c].proc].at # "dead"
                               /\ worker'[call[c].proc].by \in Instances =>
              Stopping(c)' /\ call'[c].proc = call[c].proc,
           \A c \in Calls : Claims(c)' =>
              Claims(c) \/ Cardinality(Handled(ServerOf(c))) < MaxWorkers,
           \A w \in Workers : worker'[w].at # "dead" =>
              /\ worker[w].at # "dead" /\ worker'[w].acct = worker[w].acct
              /\ worker'[w].by = worker[w].by \/ Abandoned(w)
    PROVE  PoolsOK'
  <1>0. None \notin Workers
    BY JobFacts
  <1>1. \A c \in Calls : ServerOf(c)' = ServerOf(c)
    BY DEF ServerOf
  <1>2. (\A c \in Calls : call[c].at \in Locked => lock[ServerOf(c)] = c)'
    BY <1>1
  <1>3. (\A c \in Calls : call[c].at \in Locked \ {"register"} => HandleOf(c) = None)'
    BY <1>1 DEF HandleOf
  <1>4. ASSUME NEW i \in Instances, NEW a \in Accounts, Alive(handles[i][a])'
        PROVE  worker'[handles'[i][a]].acct = a /\ worker'[handles'[i][a]].by = i
    <2> DEFINE w == handles'[i][a]
    <2>1. w \in Workers /\ worker'[w].at # "dead"
      BY <1>4 DEF Alive
    <2>2. w = handles[i][a] /\ worker[w].at # "dead" /\ worker'[w].acct = worker[w].acct
          /\ worker'[w].by = worker[w].by
      BY <1>0, <2>1 DEF Abandoned
    <2>3. Alive(handles[i][a])
      BY <1>0, <2>1, <2>2 DEF Alive
    <2>4. worker[handles[i][a]].acct = a /\ worker[handles[i][a]].by = i
      BY <2>3 DEF PoolsOK
    <2> QED BY <2>2, <2>4
  <1>5. ASSUME NEW c \in Calls, Stopping(c)', Alive(call[c].proc)'
        PROVE  worker'[call'[c].proc].acct = call'[c].acct /\ worker'[call'[c].proc].by = ServerOf(c)'
    <2>1. Stopping(c) /\ call'[c].acct = call[c].acct /\ call'[c].proc = call[c].proc
      BY <1>5
    <2>2. call[c].proc \in Workers /\ worker'[call[c].proc].at # "dead"
      BY <1>5, <2>1 DEF Alive, TypeOK, CallState
    <2>3. worker[call[c].proc].at # "dead" /\ worker'[call[c].proc].acct = worker[call[c].proc].acct
          /\ worker'[call[c].proc].by = worker[call[c].proc].by
      BY <1>5, <2>1, <2>2 DEF Abandoned
    <2>4. worker[call[c].proc].acct = call[c].acct /\ worker[call[c].proc].by = ServerOf(c)
      BY <1>0, <2>1, <2>2, <2>3 DEF PoolsOK, Alive
    <2> QED BY <1>1, <2>1, <2>3, <2>4
  <1>6. ASSUME NEW w \in Workers, Alive(w)', worker'[w].by \in Instances
        PROVE  \/ handles'[worker'[w].by][worker'[w].acct] = w
               \/ \E c \in Calls : ServerOf(c)' = worker'[w].by /\ Stopping(c)' /\ call'[c].proc = w
    <2>1. worker'[w].at # "dead" /\ Alive(w) /\ worker'[w].acct = worker[w].acct
          /\ worker'[w].by = worker[w].by /\ worker[w].by \in Instances
      BY <1>0, <1>6 DEF Alive, Abandoned
    <2>2. CASE handles[worker[w].by][worker[w].acct] = w
      <3>1. worker[w].acct \in Accounts
        BY <2>1 DEF PoolsOK
      <3> QED BY <2>1, <2>2, <3>1
    <2>3. CASE \E c \in Calls : ServerOf(c) = worker[w].by /\ Stopping(c) /\ call[c].proc = w
      BY <1>1, <2>1, <2>3
    <2> QED BY <2>1, <2>2, <2>3 DEF PoolsOK
  <1>7. ASSUME NEW w \in Workers, Alive(w)'
        PROVE  worker'[w].acct \in Accounts
    BY <1>0, <1>7 DEF PoolsOK, Alive
  <1>8. ASSUME NEW i \in Instances
        PROVE  /\ IsFiniteSet(Handled(i)')
               /\ Cardinality(Handled(i)') <= MaxWorkers
               /\ \A c \in Calls : ServerOf(c)' = i /\ Claims(c)' => Cardinality(Handled(i)') < MaxWorkers
    <2>1. /\ IsFiniteSet(Handled(i)) /\ Cardinality(Handled(i)) <= MaxWorkers
          /\ \A c \in Calls : ServerOf(c) = i /\ Claims(c) => Cardinality(Handled(i)) < MaxWorkers
      BY DEF PoolsOK
    <2>2. Handled(i)' \in SUBSET Handled(i)
      BY DEF Handled
    <2>3. IsFiniteSet(Handled(i)') /\ Cardinality(Handled(i)') <= Cardinality(Handled(i))
      BY <2>1, <2>2, FS_Subset
    <2>4. Cardinality(Handled(i)') \in Nat /\ Cardinality(Handled(i)) \in Nat /\ MaxWorkers \in Nat
      BY <2>1, <2>3, FS_CardinalityType, JobFacts
    <2>5. ASSUME NEW c \in Calls, ServerOf(c)' = i, Claims(c)'
          PROVE  Cardinality(Handled(i)') < MaxWorkers
      <3>1. ServerOf(c) = i
        BY <1>1, <2>5
      <3>2. Cardinality(Handled(i)) < MaxWorkers
        BY <2>1, <2>5, <3>1
      <3> QED BY ONLY <2>3, <2>4, <3>2
    <2>6. Cardinality(Handled(i)') <= MaxWorkers
      BY ONLY <2>1, <2>3, <2>4
    <2> QED BY <2>3, <2>5, <2>6
  <1>9. (\A i \in Instances, a \in Accounts : Alive(handles[i][a]) =>
            worker[handles[i][a]].acct = a /\ worker[handles[i][a]].by = i)'
    BY <1>4
  <1>10. (\A i \in Instances :
          /\ IsFiniteSet(Handled(i))
          /\ Cardinality(Handled(i)) <= MaxWorkers
          /\ \A c \in Calls : ServerOf(c) = i /\ Claims(c) => Cardinality(Handled(i)) < MaxWorkers)'
    BY <1>8
  <1>11. (\A c \in Calls : call[c].at # "free" => call[c].acct \in Accounts)'
    OBVIOUS
  <1> QED BY <1>2, <1>3, <1>5, <1>6, <1>7, <1>9, <1>10, <1>11 DEF PoolsOK

\* One request moves and nothing else that the orders depend on.
LEMMA TripsCall ==
    ASSUME TypeOK, TripsOK, NEW c \in Calls, UNCHANGED <<queue, results, taken, told, worker>>,
           \A d \in Calls : d # c => call'[d] = call[d],
           CallOK(c)', call'[c].job \in {call[c].job, None}
    PROVE  TripsOK'
  <1>1. \A j \in Jobs : ToldInOrder(j)
    BY DEF ToldInOrder
  <1>2. \A w \in Workers : WorkerGoesOn(w)
    BY DEF WorkerGoesOn
  <1>3. ASSUME NEW d \in Calls
        PROVE  CallOK(d)' /\ call'[d].job \in {call[d].job, None}
    <2>1. CASE d # c
      BY <2>1, CallSame DEF TripsOK
    <2> QED BY <2>1
  <1>4. \A j \in Jobs : results'[j] # <<>> => taken[j] = 1
    BY DEF TripsOK
  <1> HIDE DEF TripsOK, CallOK, ToldInOrder, WorkerGoesOn
  <1> QED BY <1>1, <1>2, <1>3, <1>4, TripsKept

\* One request moves without the lock, and takes a dead process out of its handle
\* at most.
LEMMA PoolsCall ==
    ASSUME TypeOK, PoolsOK, NEW c \in Calls, UNCHANGED <<scene, lock, worker>>,
           handles' \in [Instances -> [Accounts -> Workers \cup {None}]],
           \A i \in Instances, a \in Accounts :
              \/ handles'[i][a] = handles[i][a]
              \/ handles'[i][a] = None /\ ~Alive(handles[i][a]),
           call' \in [Calls -> CallState],
           \A d \in Calls : d # c => call'[d] = call[d],
           call[c].at \notin Locked, call'[c].at \notin Locked,
           call'[c].at # "free" => call'[c].acct \in Accounts
    PROVE  PoolsOK'
  <1>0. \A d \in Calls : ServerOf(d) \in Instances
    BY JobQueueAssumption DEF TypeOK, ServerOf, Scene
  <1>1. \A d \in Calls : call'[d].at \in Locked => lock'[ServerOf(d)] = d
    BY DEF PoolsOK
  <1>2. ASSUME NEW d \in Calls, call'[d].at \in Locked \ {"register"}
        PROVE  handles'[ServerOf(d)][call'[d].acct] = None
    <2>1. d # c /\ call'[d] = call[d] /\ call[d].at \in Locked \ {"register"}
      BY <1>2
    <2>2. handles[ServerOf(d)][call[d].acct] = None
      BY <2>1 DEF PoolsOK, HandleOf
    <2>3. call[d].acct \in Accounts
      BY <2>1 DEF Locked, PoolsOK
    <2> QED BY <1>0, <2>1, <2>2, <2>3
  <1>3. ~Stopping(c) /\ ~Stopping(c)' /\ ~Claims(c)'
    BY DEF Stopping, Claims, Locked
  <1>4. \A d \in Calls : d # c => (Stopping(d)' <=> Stopping(d)) /\ (Claims(d)' <=> Claims(d))
    BY DEF Stopping, Claims
  <1>5. \A w \in Workers : worker'[w] = worker[w]
    OBVIOUS
  <1>6. \A d \in Calls : Stopping(d)' => Stopping(d) /\ call'[d].acct = call[d].acct /\ call'[d].proc = call[d].proc
    BY <1>3, <1>4
  <1>7. \A d \in Calls : Stopping(d) => Stopping(d)' /\ call'[d].proc = call[d].proc
    BY <1>3, <1>4
  <1>8. \A d \in Calls : Claims(d)' => Claims(d)
    BY <1>3, <1>4
  <1>9. \A d \in Calls : call'[d].at # "free" => call'[d].acct \in Accounts
    BY DEF PoolsOK
  <1> HIDE DEF PoolsOK, Stopping, Claims
  <1> QED BY <1>1, <1>2, <1>5, <1>6, <1>9, <1>7, <1>8, PoolsKept

\* Workers change their place or end, and nothing else that the pools know of.
LEMMA PoolsWorker ==
    ASSUME TypeOK, PoolsOK, UNCHANGED <<scene, lock, handles>>,
           \A c \in Calls : /\ call'[c].at = call[c].at /\ call'[c].acct = call[c].acct
                            /\ call'[c].proc = call[c].proc,
           call' \in [Calls -> CallState],
           \A w \in Workers : worker'[w].at # "dead" =>
              worker[w].at # "dead" /\ worker'[w].acct = worker[w].acct /\ worker'[w].by = worker[w].by
    PROVE  PoolsOK'
  <1>1. \A d \in Calls : call'[d].at \in Locked => lock'[ServerOf(d)] = d
    BY DEF PoolsOK
  <1>2. \A d \in Calls : call'[d].at \in Locked \ {"register"} =>
              handles'[ServerOf(d)][call'[d].acct] = None
    BY DEF PoolsOK, HandleOf
  <1>3. \A d \in Calls : (Stopping(d)' <=> Stopping(d)) /\ (Claims(d)' <=> Claims(d))
    BY DEF Stopping, Claims
  <1>4. handles' \in [Instances -> [Accounts -> Workers \cup {None}]]
    BY DEF TypeOK
  <1>5. \A d \in Calls : call'[d].at # "free" => call'[d].acct \in Accounts
    BY DEF PoolsOK
  <1> HIDE DEF PoolsOK, Stopping, Claims
  <1> QED BY <1>1, <1>2, <1>3, <1>4, <1>5, PoolsKept

-----------------------------------------------------------------------------
(* Requests: their beginning, the probe, and orders. *)

\* Every request runs on a server.
LEMMA ServerType == TypeOK => \A c \in Calls : ServerOf(c) \in Instances
  BY JobQueueAssumption DEF TypeOK, ServerOf, Scene

\* The handles of a server without that of one account.
LEMMA WithoutHandleType ==
    ASSUME handles \in [Instances -> [Accounts -> Workers \cup {None}]], NEW c \in Calls,
           ServerOf(c) \in Instances, call[c].acct \in Accounts
    PROVE  /\ WithoutHandle(c) \in [Instances -> [Accounts -> Workers \cup {None}]]
           /\ WithoutHandle(c)[ServerOf(c)][call[c].acct] = None
           /\ \A i \in Instances, a \in Accounts :
                 <<i, a>> # <<ServerOf(c), call[c].acct>> => WithoutHandle(c)[i][a] = handles[i][a]
  BY DEF WithoutHandle

\* A connect, a disconnect or a probe arrives: without an order and without the lock.
LEMMA BeginHolds ==
    ASSUME JobInv, NEW c \in Calls, NEW a \in Accounts, NEW op \in Ops, Begin(c, a, op)
    PROVE  JobInv'
  <1> USE DEF JobInv
  <1> DEFINE new == [IdleCall EXCEPT !.op = op, !.acct = a, !.at = IF op = "status" THEN "look" ELSE "lock"]
  <1>1. op # "order" /\ call[c].at = "free" /\ call' = [call EXCEPT ![c] = new]
    BY DEF Begin, At
  <1>2. new \in CallState /\ new.at \in {"look", "lock"} /\ new.op = op /\ new.acct = a
        /\ new.job = None /\ new.proc = None
    BY DEF IdleCall, CallState, Ops, NoEntry, Entry
  <1> HIDE DEF new
  <1>3. call \in [Calls -> CallState]
    BY DEF TypeOK
  <1>4. /\ call' \in [Calls -> CallState] /\ call'[c] = new
        /\ \A d \in Calls : d # c => call'[d] = call[d]
    BY <1>1, <1>2, <1>3
  <1>5. UNCHANGED <<redisVars, handles, lock, worker, taken, told, restarts, scene>>
    BY DEF Begin
  <1>6. CallOK(c)'
    BY <1>1, <1>2, <1>4 DEF CallOK
  <1>7. TripsOK'
    BY <1>2, <1>4, <1>5, <1>6, TripsCall DEF redisVars
  <1>8. call[c].at \notin Locked /\ call'[c].at \notin Locked
    BY <1>1, <1>2, <1>4 DEF Locked
  <1>9. PoolsOK'
    <2>1. handles' \in [Instances -> [Accounts -> Workers \cup {None}]]
      BY <1>5 DEF TypeOK
    <2> QED BY <1>2, <1>4, <1>5, <1>8, <2>1, PoolsCall
  <1>10. TypeOK'
    BY <1>4, <1>5 DEF TypeOK, redisVars
  <1> QED BY <1>7, <1>9, <1>10

\* A new order arrives, which no other request carries.
LEMMA BeginOrderHolds ==
    ASSUME JobInv, NEW c \in Calls, NEW a \in Accounts, NEW j \in Jobs, BeginOrder(c, a, j)
    PROVE  JobInv'
  <1> USE DEF JobInv
  <1> DEFINE new == [IdleCall EXCEPT !.op = "order", !.acct = a, !.job = j, !.at = "look"]
  <1>1. /\ call[c].at = "free" /\ call' = [call EXCEPT ![c] = new]
        /\ told[j] = "nothing" /\ \A d \in Calls : call[d].job # j
    BY DEF BeginOrder, At
  <1>2. new \in CallState /\ new.at = "look" /\ new.op = "order" /\ new.acct = a
        /\ new.job = j /\ new.proc = None
    BY DEF IdleCall, CallState, Ops, NoEntry, Entry
  <1> HIDE DEF new
  <1>3. call \in [Calls -> CallState]
    BY DEF TypeOK
  <1>4. /\ call' \in [Calls -> CallState] /\ call'[c] = new
        /\ \A d \in Calls : d # c => call'[d] = call[d]
    BY <1>1, <1>2, <1>3
  <1>5. UNCHANGED <<redisVars, handles, lock, worker, taken, told, restarts, scene>>
    BY DEF BeginOrder
  <1>6. CallOK(c)'
    BY <1>1, <1>2, <1>4, <1>5, JobFacts DEF CallOK
  <1>7. TripsOK'
    <2>1. ASSUME NEW d \in Calls PROVE CallOK(d)'
      <3>1. CASE d # c
        BY <1>4, <1>5, <3>1, CallSame DEF TripsOK
      <3> QED BY <1>6, <3>1
    <2>2. ASSUME NEW d \in Calls, NEW e \in Calls, call'[d].job # None, call'[d].job = call'[e].job
          PROVE  d = e
      <3>1. CASE d # c /\ e # c
        BY <1>4, <2>2, <3>1 DEF TripsOK
      <3>2. CASE d = c /\ e # c
        BY <1>1, <1>2, <1>4, <2>2, <3>2
      <3>3. CASE d # c /\ e = c
        BY <1>1, <1>2, <1>4, <2>2, <3>3
      <3> QED BY <3>1, <3>2, <3>3
    <2> QED BY <1>5, <2>1, <2>2 DEF TripsOK, redisVars, Queued, WorkerOK
  <1>8. call[c].at \notin Locked /\ call'[c].at \notin Locked
    BY <1>1, <1>2, <1>4 DEF Locked
  <1>9. PoolsOK'
    <2>1. handles' \in [Instances -> [Accounts -> Workers \cup {None}]]
      BY <1>5 DEF TypeOK
    <2> QED BY <1>2, <1>4, <1>5, <1>8, <2>1, PoolsCall
  <1>10. TypeOK'
    BY <1>4, <1>5 DEF TypeOK, redisVars
  <1> QED BY <1>7, <1>9, <1>10

\* What nobody but clients sees.
LEMMA RefuseHolds ==
    ASSUME JobInv, NEW j \in Jobs, RefuseOrder(j)
    PROVE  JobInv'
  <1> USE DEF JobInv
  <1>1. /\ told[j] = "nothing" /\ told' = [told EXCEPT ![j] = "refused"] /\ taken' = taken
        /\ \A c \in Calls : call[c].job # j
        /\ UNCHANGED <<redisVars, handles, lock, call, worker, restarts, scene>>
    BY DEF RefuseOrder, R!Refuse, R!Tell
  <1>2. told \in [Jobs -> R!Told] /\ \A c \in Calls : call[c].job \in Jobs \cup {None}
    BY DEF TypeOK, CallState
  <1>3. \A k \in Jobs : told'[k] = IF k = j THEN "refused" ELSE told[k]
    BY <1>1, <1>2
  <1>4. TypeOK'
    BY <1>1, <1>2 DEF TypeOK, redisVars, R!Told
  <1>5. PoolsOK'
    BY <1>1, PoolsWorker DEF TypeOK
  <1>6. TripsOK'
    <2>1. \A k \in Jobs : ToldInOrder(k)
      BY <1>1, <1>3 DEF ToldInOrder
    <2>2. ASSUME NEW c \in Calls PROVE CallOK(c)' /\ call'[c].job \in {call[c].job, None}
      <3>1. call[c].job # None => told'[call[c].job] = told[call[c].job]
        BY <1>1, <1>2, <1>3
      <3> QED BY <1>1, <3>1, CallSame DEF TripsOK
    <2>3. \A w \in Workers : WorkerGoesOn(w)
      BY <1>1 DEF WorkerGoesOn
    <2>4. \A k \in Jobs : results'[k] # <<>> => taken[k] = 1
      BY <1>1 DEF TripsOK, redisVars
    <2> HIDE DEF TripsOK, CallOK, ToldInOrder, WorkerGoesOn
    <2> QED BY <1>1, <2>1, <2>2, <2>3, <2>4, TripsKept DEF redisVars
  <1> QED BY <1>4, <1>5, <1>6

\* The probe forgets a dead process, or reads the registry.
LEMMA LookHolds ==
    ASSUME JobInv, NEW c \in Calls, Look(c)
    PROVE  JobInv'
  <1> USE DEF JobInv
  <1>0. /\ call \in [Calls -> CallState] /\ ServerOf(c) \in Instances
        /\ handles \in [Instances -> [Accounts -> Workers \cup {None}]]
        /\ registry \in [Accounts -> Entry]
    BY ServerType DEF TypeOK
  <1>1. call[c].at = "look" /\ call[c].acct \in Accounts /\ call[c] \in CallState
    BY <1>0 DEF Look, At, PoolsOK
  <1>2. UNCHANGED <<redisVars, lock, worker, taken, told, restarts, scene>>
    BY DEF Look
  <1>3. /\ call' \in [Calls -> CallState] /\ call'[c].at \in {"purge", "decide"}
        /\ call'[c].op = call[c].op /\ call'[c].acct = call[c].acct /\ call'[c].job = call[c].job
        /\ \A d \in Calls : d # c => call'[d] = call[d]
    <2>1. CASE HandleIsDead(c)
      BY <1>0, <2>1, GotoCall DEF Look, Busy
    <2>2. CASE ~HandleIsDead(c)
      <3> DEFINE new == [call[c] EXCEPT !.at = "decide", !.seen = registry[call[c].acct]]
      <3>1. call' = [call EXCEPT ![c] = new]
        BY <2>2 DEF Look
      <3>2. new \in CallState /\ new.at = "decide" /\ new.op = call[c].op /\ new.acct = call[c].acct
            /\ new.job = call[c].job
        BY <1>0, <1>1 DEF CallState
      <3> HIDE DEF new
      <3> QED BY <1>0, <3>1, <3>2
    <2> QED BY <2>1, <2>2
  <1>4. /\ handles' \in [Instances -> [Accounts -> Workers \cup {None}]]
        /\ \A i \in Instances, a \in Accounts :
              \/ handles'[i][a] = handles[i][a]
              \/ handles'[i][a] = None /\ ~Alive(handles[i][a])
    <2>1. CASE HandleIsDead(c)
      <3>1. handles' = WithoutHandle(c) /\ ~Alive(handles[ServerOf(c)][call[c].acct])
        BY <2>1 DEF Look, HandleIsDead, HandleOf
      <3>2. /\ WithoutHandle(c) \in [Instances -> [Accounts -> Workers \cup {None}]]
            /\ WithoutHandle(c)[ServerOf(c)][call[c].acct] = None
            /\ \A i \in Instances, a \in Accounts :
                 <<i, a>> # <<ServerOf(c), call[c].acct>> => WithoutHandle(c)[i][a] = handles[i][a]
        BY <1>0, <1>1, WithoutHandleType
      <3> QED BY <3>1, <3>2
    <2>2. CASE ~HandleIsDead(c)
      BY <1>0, <2>2 DEF Look
    <2> QED BY <2>1, <2>2
  <1>5. TypeOK'
    BY <1>2, <1>3, <1>4 DEF TypeOK, redisVars
  <1>6. CallOK(c)'
    BY <1>1, <1>2, <1>3 DEF CallOK, TripsOK
  <1>7. TripsOK'
    BY <1>2, <1>3, <1>6, TripsCall DEF redisVars
  <1>8. call[c].at \notin Locked /\ call'[c].at \notin Locked
    BY <1>1, <1>3 DEF Locked
  <1>9. PoolsOK'
    BY <1>1, <1>2, <1>3, <1>4, <1>8, PoolsCall
  <1> QED BY <1>5, <1>7, <1>9

\* A request returns and its client hears of the order.
LEMMA AnswerTrips ==
    ASSUME TypeOK, TripsOK, NEW c \in Calls, NEW j \in Jobs, call[c].job = j, Return(c),
           NEW answer \in R!Told, told' = [told EXCEPT ![j] = answer],
           \/ told[j] = "nothing" /\ answer = "refused"
           \/ told[j] = "waiting" /\ answer = "unknown"
           \/ told[j] = "waiting" /\ taken[j] = 1 /\ answer \in {"ok", "failed"},
           UNCHANGED <<queue, taken, worker>>,
           \A k \in Jobs : results'[k] # <<>> => taken[k] = 1
    PROVE  TripsOK' /\ told' \in [Jobs -> R!Told]
  <1>1. told \in [Jobs -> R!Told] /\ call \in [Calls -> CallState]
        /\ \A d \in Calls : call[d].job \in Jobs \cup {None}
    BY DEF TypeOK, CallState
  <1>2. told' \in [Jobs -> R!Told] /\ \A k \in Jobs : told'[k] = IF k = j THEN answer ELSE told[k]
    BY <1>1
  <1>3. call'[c] = IdleCall /\ \A d \in Calls : d # c => call'[d] = call[d]
    BY <1>1, ReturnCall
  <1>4. \A k \in Jobs : ToldInOrder(k)
    BY <1>2 DEF ToldInOrder
  <1>5. j # None
    BY JobFacts
  <1>6. ASSUME NEW d \in Calls PROVE CallOK(d)' /\ call'[d].job \in {call[d].job, None}
    <2>1. CASE d # c
      <3>1. call[d].job # j
        BY <1>5, <2>1 DEF TripsOK
      <3>2. call[d].job # None => told'[call[d].job] = told[call[d].job]
        BY <1>1, <1>2, <3>1
      <3> QED BY <1>3, <2>1, <3>2, CallSame DEF TripsOK
    <2>2. CASE d = c
      BY <1>3, <2>2, CallIdle DEF IdleCall
    <2> QED BY <2>1, <2>2
  <1>7. \A w \in Workers : WorkerGoesOn(w)
    BY DEF WorkerGoesOn
  <1> HIDE DEF TripsOK, CallOK, ToldInOrder, WorkerGoesOn
  <1>8. TripsOK'
    BY <1>4, <1>6, <1>7, TripsKept
  <1> QED BY <1>2, <1>8

\* An order is refused with 409, or a probe is answered with no.
LEMMA SaysNoTrips ==
    ASSUME TypeOK, TripsOK, NEW c \in Calls, call[c].at \in {"decide", "purge"}, SaysNo(c),
           UNCHANGED <<queue, results, taken, worker>>
    PROVE  TripsOK' /\ told' \in [Jobs -> R!Told]
  <1>1. CallOK(c) /\ call[c].job \in Jobs \cup {None} /\ call \in [Calls -> CallState]
    BY DEF TypeOK, TripsOK, CallState
  <1>2. CASE call[c].op = "order"
    <2>1. call[c].job \in Jobs /\ told[call[c].job] = "nothing"
      BY <1>1, <1>2 DEF CallOK
    <2>2. told' = [told EXCEPT ![call[c].job] = "refused"] /\ Return(c)
      BY <1>2 DEF SaysNo
    <2>3. "refused" \in R!Told
      BY DEF R!Told
    <2>4. \A k \in Jobs : results'[k] # <<>> => taken[k] = 1
      BY DEF TripsOK
    <2> HIDE DEF TripsOK, TypeOK
    <2> QED BY <2>1, <2>2, <2>3, <2>4, AnswerTrips
  <1>3. CASE call[c].op # "order"
    <2>1. told' = told /\ Return(c)
      BY <1>3 DEF SaysNo
    <2>2. call'[c] = IdleCall /\ \A d \in Calls : d # c => call'[d] = call[d]
      BY <1>1, <2>1, ReturnCall
    <2>3. CallOK(c)'
      BY <2>2, CallIdle
    <2>4. TripsOK'
      BY <2>1, <2>2, <2>3, TripsCall DEF IdleCall
    <2> QED BY <2>1, <2>4 DEF TypeOK
  <1> QED BY <1>2, <1>3

\* The probe believes the registry, or purges a stale entry.
LEMMA DecideHolds ==
    ASSUME JobInv, NEW c \in Calls, Decide(c)
    PROVE  JobInv'
  <1> USE DEF JobInv
  <1>0. /\ call \in [Calls -> CallState] /\ ServerOf(c) \in Instances
        /\ handles \in [Instances -> [Accounts -> Workers \cup {None}]]
        /\ told \in [Jobs -> R!Told]
    BY ServerType DEF TypeOK
  <1>1. call[c].at = "decide" /\ call[c].acct \in Accounts /\ CallOK(c)
    BY <1>0 DEF Decide, At, PoolsOK, TripsOK
  <1>2. UNCHANGED <<redisVars, lock, worker, taken, restarts, scene>>
    BY DEF Decide
  <1>3. \/ SaysNo(c) /\ handles' = handles
        \/ /\ IsStale(c) /\ Goto(c, "purge") /\ told' = told
           /\ handles' = IF call[c].seen.by = ServerOf(c) THEN WithoutHandle(c) ELSE handles
        \/ call[c].op = "order" /\ Goto(c, "submit") /\ handles' = handles /\ told' = told
        \/ call[c].op # "order" /\ Return(c) /\ handles' = handles /\ told' = told
    BY DEF Decide
  <1>4. /\ handles' \in [Instances -> [Accounts -> Workers \cup {None}]]
        /\ \A i \in Instances, a \in Accounts :
              \/ handles'[i][a] = handles[i][a]
              \/ handles'[i][a] = None /\ ~Alive(handles[i][a])
    <2>1. CASE IsStale(c) /\ call[c].seen.by = ServerOf(c) /\ handles' = WithoutHandle(c)
      <3>1. ~Alive(handles[ServerOf(c)][call[c].acct])
        BY <2>1 DEF IsStale, HandleOf
      <3>2. /\ WithoutHandle(c) \in [Instances -> [Accounts -> Workers \cup {None}]]
            /\ WithoutHandle(c)[ServerOf(c)][call[c].acct] = None
            /\ \A i \in Instances, a \in Accounts :
                 <<i, a>> # <<ServerOf(c), call[c].acct>> => WithoutHandle(c)[i][a] = handles[i][a]
        BY <1>0, <1>1, WithoutHandleType
      <3> QED BY <2>1, <3>1, <3>2
    <2>2. CASE handles' = handles
      BY <1>0, <2>2
    <2> QED BY <1>3, <2>1, <2>2
  <1>5. /\ call' \in [Calls -> CallState]
        /\ \A d \in Calls : d # c => call'[d] = call[d]
        /\ call'[c].at \notin Locked /\ (call'[c].at # "free" => call'[c].acct \in Accounts)
    <2>1. CASE Return(c)
      BY <1>0, <2>1, ReturnCall DEF IdleCall, Locked
    <2>2. CASE Goto(c, "purge") \/ Goto(c, "submit")
      BY <1>0, <1>1, <2>2, GotoCall DEF Locked, Busy
    <2> QED BY <1>3, <2>1, <2>2 DEF SaysNo
  <1>6. TripsOK' /\ told' \in [Jobs -> R!Told]
    <2>1. CASE SaysNo(c)
      BY <1>1, <1>2, <2>1, SaysNoTrips DEF redisVars
    <2>2. CASE Goto(c, "purge") /\ told' = told
      <3>1. CallOK(c)' /\ call'[c].job = call[c].job
        BY <1>0, <1>1, <2>2, GotoCall DEF CallOK, Busy
      <3> QED BY <1>0, <1>2, <1>5, <2>2, <3>1, TripsCall DEF redisVars
    <2>3. CASE call[c].op = "order" /\ Goto(c, "submit") /\ told' = told
      <3>1. CallOK(c)' /\ call'[c].job = call[c].job
        BY <1>0, <1>1, <2>3, GotoCall DEF CallOK, Busy
      <3> QED BY <1>0, <1>2, <1>5, <2>3, <3>1, TripsCall DEF redisVars
    <2>4. CASE Return(c) /\ told' = told
      <3>1. call'[c] = IdleCall
        BY <1>0, <2>4, ReturnCall
      <3>2. CallOK(c)' /\ call'[c].job = None
        BY <3>1, CallIdle DEF IdleCall
      <3> QED BY <1>0, <1>2, <1>5, <2>4, <3>2, TripsCall DEF redisVars
    <2> QED BY <1>3, <2>1, <2>2, <2>3, <2>4
  <1>7. TypeOK'
    BY <1>2, <1>4, <1>5, <1>6 DEF TypeOK, redisVars
  <1>8. call[c].at \notin Locked
    BY <1>1 DEF Locked
  <1>9. PoolsOK'
    BY <1>2, <1>4, <1>5, <1>8, PoolsCall
  <1> QED BY <1>6, <1>7, <1>9

\* The stale entry is removed; the answer is no.
LEMMA PurgeHolds ==
    ASSUME JobInv, NEW c \in Calls, Purge(c)
    PROVE  JobInv'
  <1> USE DEF JobInv
  <1>1. /\ call[c].at = "purge" /\ SaysNo(c) /\ call \in [Calls -> CallState]
        /\ registry' = [registry EXCEPT ![call[c].acct] = NoEntry]
        /\ UNCHANGED <<queue, results, creds, handles, lock, worker, taken, restarts, scene>>
    BY DEF Purge, At, TypeOK
  <1>2. call' \in [Calls -> CallState] /\ call'[c] = IdleCall
        /\ \A d \in Calls : d # c => call'[d] = call[d]
    BY <1>1, ReturnCall DEF SaysNo
  <1>3. TripsOK' /\ told' \in [Jobs -> R!Told]
    BY <1>1, SaysNoTrips
  <1>4. TypeOK'
    BY <1>1, <1>2, <1>3 DEF TypeOK, NoEntry, Entry
  <1>5. call[c].at \notin Locked /\ call'[c].at \notin Locked /\ call'[c].at = "free"
    BY <1>1, <1>2 DEF Locked, IdleCall
  <1>6. PoolsOK'
    <2>1. handles' \in [Instances -> [Accounts -> Workers \cup {None}]]
      BY <1>1 DEF TypeOK
    <2> QED BY <1>1, <1>2, <1>5, <2>1, PoolsCall
  <1> QED BY <1>3, <1>4, <1>6

\* What is pushed to a queue is its last element.
LEMMA Appended ==
    ASSUME NEW X, queue \in [Accounts -> Seq(X)], NEW a \in Accounts, NEW x \in X,
           queue' = [queue EXCEPT ![a] = Append(@, x)]
    PROVE  /\ queue' \in [Accounts -> Seq(X)]
           /\ \A b \in Accounts : b # a => queue'[b] = queue[b]
           /\ Len(queue[a]) \in Nat /\ Len(queue'[a]) = Len(queue[a]) + 1
           /\ \A n \in 1..Len(queue[a]) : queue'[a][n] = queue[a][n]
           /\ queue'[a][Len(queue[a]) + 1] = x
  <1>1. queue[a] \in Seq(X) /\ queue'[a] = Append(queue[a], x)
    OBVIOUS
  <1> QED BY <1>1

\* The elements of the queues after a push are the old ones in their places and the
\* new one.
LEMMA AppendedElements ==
    ASSUME NEW X, queue \in [Accounts -> Seq(X)], NEW a \in Accounts, NEW x \in X,
           queue' = [queue EXCEPT ![a] = Append(@, x)],
           NEW b \in Accounts, NEW n \in 1..Len(queue'[b])
    PROVE  \/ n \in 1..Len(queue[b]) /\ queue'[b][n] = queue[b][n]
           \/ b = a /\ n = Len(queue[a]) + 1 /\ queue'[b][n] = x
  <1>1. CASE b # a
    BY <1>1, Appended
  <1>2. CASE b = a
    <2>1. Len(queue[a]) \in Nat /\ Len(queue'[a]) = Len(queue[a]) + 1
          /\ (\A m \in 1..Len(queue[a]) : queue'[a][m] = queue[a][m])
          /\ queue'[a][Len(queue[a]) + 1] = x
      BY Appended
    <2>2. n \in 1..Len(queue[a]) \/ n = Len(queue[a]) + 1
      BY <1>2, <2>1
    <2> QED BY <1>2, <2>1, <2>2
  <1> QED BY <1>1, <1>2

\* A push of something that is in no queue, or of a STOP job, keeps orders apart.
LEMMA AppendedApart ==
    ASSUME NEW X, queue \in [Accounts -> Seq(X)], NEW a \in Accounts, NEW x \in X,
           queue' = [queue EXCEPT ![a] = Append(@, x)],
           x = STOP \/ ~Queued(x),
           \A b, c \in Accounts : \A m \in 1..Len(queue[b]), n \in 1..Len(queue[c]) :
              queue[b][m] # STOP /\ queue[b][m] = queue[c][n] => b = c /\ m = n
    PROVE  /\ \A b, c \in Accounts : \A m \in 1..Len(queue'[b]), n \in 1..Len(queue'[c]) :
                 queue'[b][m] # STOP /\ queue'[b][m] = queue'[c][n] => b = c /\ m = n
           /\ \A j \in X : Queued(j)' => Queued(j) \/ j = x
  <1>1. ASSUME NEW b \in Accounts, NEW c \in Accounts, NEW m \in 1..Len(queue'[b]), NEW n \in 1..Len(queue'[c]),
               queue'[b][m] # STOP, queue'[b][m] = queue'[c][n]
        PROVE  b = c /\ m = n
    <2>1. \/ m \in 1..Len(queue[b]) /\ queue'[b][m] = queue[b][m]
          \/ b = a /\ m = Len(queue[a]) + 1 /\ queue'[b][m] = x
      BY AppendedElements
    <2>2. \/ n \in 1..Len(queue[c]) /\ queue'[c][n] = queue[c][n]
          \/ c = a /\ n = Len(queue[a]) + 1 /\ queue'[c][n] = x
      BY AppendedElements
    <2>3. CASE /\ m \in 1..Len(queue[b]) /\ queue'[b][m] = queue[b][m]
               /\ n \in 1..Len(queue[c]) /\ queue'[c][n] = queue[c][n]
      BY <1>1, <2>3
    <2>4. CASE m \in 1..Len(queue[b]) /\ queue'[b][m] = queue[b][m] /\ queue'[c][n] = x
      BY <1>1, <2>4 DEF Queued
    <2>5. CASE queue'[b][m] = x /\ n \in 1..Len(queue[c]) /\ queue'[c][n] = queue[c][n]
      BY <1>1, <2>5 DEF Queued
    <2> QED BY <2>1, <2>2, <2>3, <2>4, <2>5
  <1>2. ASSUME NEW j \in X, Queued(j)'
        PROVE  Queued(j) \/ j = x
    <2>0. PICK b \in Accounts : \E n \in 1..Len(queue'[b]) : queue'[b][n] = j
      BY <1>2 DEF Queued
    <2>1. PICK n \in 1..Len(queue'[b]) : queue'[b][n] = j
      BY <2>0
    <2>2. \/ n \in 1..Len(queue[b]) /\ queue'[b][n] = queue[b][n]
          \/ b = a /\ n = Len(queue[a]) + 1 /\ queue'[b][n] = x
      BY AppendedElements
    <2> QED BY <2>1, <2>2 DEF Queued
  <1> QED BY <1>1, <1>2

\* An order that was in no place enters a queue; its client waits.
LEMMA SubmitHolds ==
    ASSUME JobInv, NEW c \in Calls, Submit(c)
    PROVE  JobInv'
  <1> USE DEF JobInv
  <1> DEFINE j == call[c].job
             a == call[c].acct
             X == Jobs \cup {STOP}
  <1>0. /\ call \in [Calls -> CallState] /\ queue \in [Accounts -> Seq(X)]
        /\ told \in [Jobs -> R!Told] /\ \A d \in Calls : call[d].job \in Jobs \cup {None}
    BY DEF TypeOK, CallState
  <1>1. /\ call[c].at = "submit" /\ a \in Accounts /\ CallOK(c)
        /\ queue' = [queue EXCEPT ![a] = Append(@, j)] /\ Goto(c, "wait")
        /\ told' = [told EXCEPT ![j] = "waiting"] /\ taken' = taken
        /\ UNCHANGED <<results, creds, registry, handles, lock, worker, restarts, scene>>
    BY DEF Submit, At, R!Ask, R!Tell, PoolsOK, TripsOK
  <1>2. j \in Jobs /\ j # STOP /\ j # None /\ told[j] = "nothing"
    BY <1>0, <1>1, JobFacts DEF CallOK
  <1>3. /\ call' \in [Calls -> CallState]
        /\ call'[c].at = "wait" /\ call'[c].op = call[c].op /\ call'[c].acct = a
        /\ call'[c].job = j /\ call'[c].proc = call[c].proc
        /\ \A d \in Calls : d # c => call'[d] = call[d]
    BY <1>0, <1>1, GotoCall DEF Busy
  <1>4. told' \in [Jobs -> R!Told] /\ \A k \in Jobs : told'[k] = IF k = j THEN "waiting" ELSE told[k]
    BY <1>0, <1>1, <1>2 DEF R!Told
  <1>5. queue' \in [Accounts -> Seq(X)]
    BY <1>0, <1>1, <1>2, Appended
  <1>6. TypeOK'
    BY <1>1, <1>3, <1>4, <1>5 DEF TypeOK
  <1>7. PoolsOK'
    <2>1. handles' \in [Instances -> [Accounts -> Workers \cup {None}]]
      BY <1>1 DEF TypeOK
    <2>2. call[c].at \notin Locked /\ call'[c].at \notin Locked
      BY <1>1, <1>3 DEF Locked
    <2> QED BY <1>1, <1>3, <2>1, <2>2, PoolsCall
  <1>8. taken[j] = 0 /\ \A w \in Workers : worker[w].job # j
    <2>1. taken[j] = 0
      BY <1>2 DEF TripsOK
    <2>2. ASSUME NEW w \in Workers, worker[w].job = j PROVE FALSE
      BY <1>2, <2>1, <2>2 DEF TripsOK, WorkerOK
    <2> QED BY <2>1, <2>2
  <1>9. ~Queued(j)
    BY <1>2 DEF TripsOK
  <1>10. /\ \A b, d \in Accounts : \A m \in 1..Len(queue'[b]), n \in 1..Len(queue'[d]) :
                 queue'[b][m] # STOP /\ queue'[b][m] = queue'[d][n] => b = d /\ m = n
         /\ \A k \in X : Queued(k)' => Queued(k) \/ k = j
    <2>1. \A b, d \in Accounts : \A m \in 1..Len(queue[b]), n \in 1..Len(queue[d]) :
              queue[b][m] # STOP /\ queue[b][m] = queue[d][n] => b = d /\ m = n
      BY DEF TripsOK
    <2>2. j \in X
      BY <1>2
    <2> HIDE DEF j, a, X
    <2> QED BY <1>0, <1>1, <1>9, <2>1, <2>2, AppendedApart
  <1>11. ASSUME NEW d \in Calls PROVE CallOK(d)'
    <2>1. CASE d # c
      <3>1. call[d].job # j
        BY <1>2, <2>1 DEF TripsOK
      <3>2. call[d].job # None => told'[call[d].job] = told[call[d].job]
        BY <1>0, <1>4, <3>1
      <3> QED BY <1>3, <2>1, <3>2, CallSame DEF TripsOK
    <2>2. CASE d = c
      BY <1>1, <1>2, <1>3, <1>4, <2>2 DEF CallOK
    <2> QED BY <2>1, <2>2
  <1>12. ASSUME NEW d \in Calls, NEW e \in Calls, call'[d].job # None, call'[d].job = call'[e].job
         PROVE  d = e
    <2>1. call'[d].job = call[d].job /\ call'[e].job = call[e].job
      BY <1>3
    <2> QED BY <1>12, <2>1 DEF TripsOK
  <1>13. ASSUME NEW w \in Workers PROVE WorkerOK(w)'
    <2>1. worker[w].job # j /\ worker[w].job \in Jobs \cup {None}
      BY <1>8 DEF TypeOK, WorkerState
    <2> QED BY <1>1, <1>4, <2>1 DEF TripsOK, WorkerOK
  <1>14. ASSUME NEW k \in Jobs
         PROVE  /\ taken'[k] \in {0, 1}
                /\ told'[k] \in {"nothing", "refused"} => taken'[k] = 0
                /\ results'[k] # <<>> => taken'[k] = 1
                /\ Queued(k)' => /\ taken'[k] = 0 /\ told'[k] \in {"waiting", "unknown"}
                                 /\ \A w \in Workers : worker'[w].job # k
    BY <1>1, <1>4, <1>8, <1>10 DEF TripsOK
  <1>15. \A v, w \in Workers : worker'[v].at = "popped" /\ worker'[w].at = "popped"
                                /\ worker'[v].job = worker'[w].job => v = w
    BY <1>1 DEF TripsOK
  <1> HIDE DEF CallOK, WorkerOK, Queued, X, j, a
  <1>16. TripsOK'
    BY <1>10, <1>11, <1>12, <1>13, <1>14, <1>15 DEF TripsOK
  <1> QED BY <1>6, <1>7, <1>16

\* A client hears the newest result, or gives up.
LEMMA CollectHolds ==
    ASSUME JobInv, NEW c \in Calls, Collect(c) \/ WaitTimesOut(c)
    PROVE  JobInv'
  <1> USE DEF JobInv
  <1> DEFINE j == call[c].job
  <1>0. /\ call \in [Calls -> CallState] /\ results \in [Jobs -> Seq({"ok", "failed"})]
        /\ call[c].at = "wait" /\ CallOK(c)
    BY DEF TypeOK, Collect, WaitTimesOut, At, TripsOK
  <1>1. j \in Jobs /\ told[j] = "waiting"
    BY <1>0 DEF CallOK, CallState
  <1>2. /\ Return(c)
        /\ UNCHANGED <<queue, creds, registry, handles, lock, worker, taken, restarts, scene>>
    BY DEF Collect, WaitTimesOut, redisVars
  <1>3. /\ results' \in [Jobs -> Seq({"ok", "failed"})]
        /\ \A k \in Jobs : results'[k] # <<>> => taken[k] = 1
        /\ \E answer \in R!Told :
              /\ told' = [told EXCEPT ![j] = answer]
              /\ \/ told[j] = "waiting" /\ answer = "unknown"
                 \/ told[j] = "waiting" /\ taken[j] = 1 /\ answer \in {"ok", "failed"}
    <2>1. CASE Collect(c)
      <3>1. results[j] # <<>> /\ results' = [results EXCEPT ![j] = Tail(@)]
            /\ told' = [told EXCEPT ![j] = Head(results[j])]
        BY <2>1 DEF Collect
      <3>2. results[j] \in Seq({"ok", "failed"})
        BY <1>0, <1>1
      <3>3. Tail(results[j]) \in Seq({"ok", "failed"}) /\ Head(results[j]) \in {"ok", "failed"}
        BY <3>1, <3>2
      <3>4. taken[j] = 1
        BY <1>1, <3>1 DEF TripsOK
      <3>5. \A k \in Jobs : results'[k] # <<>> => taken[k] = 1
        BY <1>0, <1>1, <3>1, <3>4 DEF TripsOK
      <3>6. results' \in [Jobs -> Seq({"ok", "failed"})]
        BY <1>0, <1>1, <3>1, <3>3
      <3> QED BY <1>1, <3>1, <3>3, <3>4, <3>5, <3>6 DEF R!Told
    <2>2. CASE WaitTimesOut(c)
      BY <1>0, <1>1, <2>2 DEF WaitTimesOut, redisVars, R!Told, TripsOK
    <2> QED BY <2>1, <2>2
  <1>4. TripsOK' /\ told' \in [Jobs -> R!Told]
    <2>1. PICK answer \in R!Told :
              /\ told' = [told EXCEPT ![j] = answer]
              /\ \/ told[j] = "waiting" /\ answer = "unknown"
                 \/ told[j] = "waiting" /\ taken[j] = 1 /\ answer \in {"ok", "failed"}
      BY <1>3
    <2>2. TypeOK /\ TripsOK
      OBVIOUS
    <2> HIDE DEF TypeOK, TripsOK, CallOK
    <2> QED BY <1>1, <1>2, <1>3, <2>1, <2>2, AnswerTrips
  <1>5. call' \in [Calls -> CallState] /\ call'[c] = IdleCall
        /\ \A d \in Calls : d # c => call'[d] = call[d]
    BY <1>0, <1>2, ReturnCall
  <1>6. TypeOK'
    BY <1>2, <1>3, <1>4, <1>5 DEF TypeOK
  <1>7. PoolsOK'
    <2>1. handles' \in [Instances -> [Accounts -> Workers \cup {None}]]
      BY <1>2 DEF TypeOK
    <2>2. call[c].at \notin Locked /\ call'[c].at \notin Locked /\ call'[c].at = "free"
      BY <1>0, <1>5 DEF Locked, IdleCall
    <2> QED BY <1>2, <1>5, <2>1, <2>2, PoolsCall
  <1> QED BY <1>4, <1>6, <1>7

-----------------------------------------------------------------------------
(* The pools. *)

\* A request about the pool carries no order.
LEMMA PoolTrips ==
    ASSUME TypeOK, TripsOK, NEW c \in Calls, call[c].at \in {"lock"} \cup Locked,
           UNCHANGED <<queue, results, taken, told>>,
           \A w \in Workers : WorkerGoesOn(w),
           \A d \in Calls : d # c => call'[d] = call[d],
           \/ call'[c] = IdleCall
           \/ /\ call'[c].op = call[c].op /\ call'[c].job = call[c].job
              /\ call'[c].at \in Locked
    PROVE  TripsOK'
  <1>1. CallOK(c)
    BY DEF TripsOK
  <1>2. call[c].job = None /\ call[c].op # "order"
    BY <1>1 DEF CallOK, Locked
  <1>3. CallOK(c)' /\ call'[c].job = None
    BY <1>2 DEF CallOK, IdleCall, Locked
  <1>4. \A j \in Jobs : ToldInOrder(j)
    BY DEF ToldInOrder
  <1>5. ASSUME NEW d \in Calls
        PROVE  CallOK(d)' /\ call'[d].job \in {call[d].job, None}
    <2>1. CASE d # c
      BY <2>1, CallSame DEF TripsOK
    <2> QED BY <1>3, <2>1
  <1>6. \A j \in Jobs : results'[j] # <<>> => taken[j] = 1
    BY DEF TripsOK
  <1> HIDE DEF TripsOK, CallOK, ToldInOrder, WorkerGoesOn
  <1> QED BY <1>4, <1>5, <1>6, TripsKept

\* Nobody else is busy with the pool whose lock is free, or one's own.
LEMMA Alone ==
    ASSUME PoolsOK, NEW c \in Calls, LockIsFree(c) \/ call[c].at \in Locked,
           NEW d \in Calls, d # c, ServerOf(d) = ServerOf(c)
    PROVE  call[d].at \notin Locked
  BY JobFacts DEF PoolsOK, LockIsFree

\* A request takes, keeps or gives back the lock that nobody else has; it starts no
\* process and takes none that lives out of its handle.
LEMMA PoolsLock ==
    ASSUME TypeOK, PoolsOK, NEW c \in Calls, scene' = scene,
           LockIsFree(c) \/ call[c].at \in Locked,
           NEW x \in Calls \cup {None}, lock' = [lock EXCEPT ![ServerOf(c)] = x],
           handles' \in [Instances -> [Accounts -> Workers \cup {None}]],
           \A i \in Instances, a \in Accounts :
              \/ handles'[i][a] = handles[i][a]
              \/ handles'[i][a] = None /\ ~Alive(handles[i][a]),
           call' \in [Calls -> CallState],
           \A d \in Calls : d # c => call'[d] = call[d],
           call'[c].at \in Locked => x = c,
           call'[c].at \in Locked \ {"register"} => handles'[ServerOf(c)][call'[c].acct] = None,
           call'[c].at # "free" => call'[c].acct \in Accounts,
           Stopping(c)' => Stopping(c) /\ call'[c].acct = call[c].acct /\ call'[c].proc = call[c].proc,
           Stopping(c) /\ worker'[call[c].proc].at # "dead" /\ worker'[call[c].proc].by \in Instances =>
              Stopping(c)' /\ call'[c].proc = call[c].proc,
           Claims(c)' => Claims(c) \/ Cardinality(Handled(ServerOf(c))) < MaxWorkers,
           \A w \in Workers : worker'[w].at # "dead" =>
              /\ worker[w].at # "dead" /\ worker'[w].acct = worker[w].acct
              /\ worker'[w].by = worker[w].by \/ Abandoned(w)
    PROVE  PoolsOK'
  <1>0. lock \in [Instances -> Calls \cup {None}] /\ \A d \in Calls : ServerOf(d) \in Instances
    BY ServerType DEF TypeOK
  <1>1. ASSUME NEW d \in Calls, call'[d].at \in Locked
        PROVE  lock'[ServerOf(d)] = d
    <2>1. CASE d = c
      BY <1>0, <1>1, <2>1
    <2>2. CASE d # c
      <3>1. call[d].at \in Locked
        BY <1>1, <2>2
      <3>2. ServerOf(d) # ServerOf(c)
        BY <2>2, <3>1, Alone
      <3>3. lock[ServerOf(d)] = d
        BY <3>1 DEF PoolsOK
      <3> QED BY <1>0, <3>2, <3>3
    <2> QED BY <2>1, <2>2
  <1>2. ASSUME NEW d \in Calls, call'[d].at \in Locked \ {"register"}
        PROVE  handles'[ServerOf(d)][call'[d].acct] = None
    <2>1. CASE d = c
      BY <1>2, <2>1
    <2>2. CASE d # c
      <3>1. call'[d] = call[d] /\ call[d].at \in Locked \ {"register"}
        BY <1>2, <2>2
      <3>2. handles[ServerOf(d)][call[d].acct] = None
        BY <3>1 DEF PoolsOK, HandleOf
      <3>3. call[d].acct \in Accounts
        BY <3>1 DEF Locked, PoolsOK
      <3> QED BY <1>0, <3>1, <3>2, <3>3
    <2> QED BY <2>1, <2>2
  <1>3. \A d \in Calls : d # c => (Stopping(d)' <=> Stopping(d)) /\ (Claims(d)' <=> Claims(d))
    BY DEF Stopping, Claims
  <1>4. \A d \in Calls : Stopping(d)' => Stopping(d) /\ call'[d].acct = call[d].acct /\ call'[d].proc = call[d].proc
    BY <1>3
  <1>5. \A d \in Calls : Stopping(d) /\ worker'[call[d].proc].at # "dead"
                           /\ worker'[call[d].proc].by \in Instances =>
            Stopping(d)' /\ call'[d].proc = call[d].proc
    BY <1>3
  <1>6. \A d \in Calls : Claims(d)' => Claims(d) \/ Cardinality(Handled(ServerOf(d))) < MaxWorkers
    BY <1>3
  <1>7. \A d \in Calls : call'[d].at # "free" => call'[d].acct \in Accounts
    BY DEF PoolsOK
  <1> HIDE DEF PoolsOK, Stopping, Claims
  <1> QED BY <1>1, <1>2, <1>4, <1>5, <1>6, <1>7, PoolsKept

\* A connect finds its worker alive, finds it dead and takes the lock, or claims room.
LEMMA EnsureHolds ==
    ASSUME JobInv, NEW c \in Calls, EnsureWorker(c)
    PROVE  JobInv'
  <1> USE DEF JobInv
  <1> DEFINE i == ServerOf(c)
  <1>0. /\ call \in [Calls -> CallState] /\ i \in Instances
        /\ handles \in [Instances -> [Accounts -> Workers \cup {None}]]
        /\ lock \in [Instances -> Calls \cup {None}]
    BY ServerType DEF TypeOK
  <1>1. /\ call[c].at = "lock" /\ call[c].acct \in Accounts /\ LockIsFree(c)
        /\ UNCHANGED <<redisVars, worker, taken, told, restarts, scene>>
    BY DEF EnsureWorker, At, PoolsOK
  <1>2. \A w \in Workers : WorkerGoesOn(w)
    BY <1>1 DEF WorkerGoesOn
  <1>3. \A w \in Workers : worker'[w] = worker[w]
    BY <1>1
  <1>4. ~Stopping(c) /\ ~Claims(c)
    BY <1>1 DEF Stopping, Claims
  <1>5. CASE Return(c) /\ UNCHANGED <<lock, handles>>
    <2>1. call' \in [Calls -> CallState] /\ call'[c] = IdleCall
          /\ \A d \in Calls : d # c => call'[d] = call[d]
      BY <1>0, <1>5, ReturnCall
    <2>2. TripsOK'
      BY <1>1, <1>2, <2>1, PoolTrips DEF redisVars
    <2>3. call[c].at \notin Locked /\ call'[c].at \notin Locked /\ call'[c].at = "free"
      BY <1>1, <2>1 DEF Locked, IdleCall
    <2>4. PoolsOK'
      BY <1>0, <1>1, <1>5, <2>1, <2>3, PoolsCall
    <2>5. TypeOK'
      BY <1>1, <1>5, <2>1 DEF TypeOK, redisVars
    <2> QED BY <2>2, <2>4, <2>5
  <1>6. CASE HandleIsDead(c) /\ handles' = WithoutHandle(c) /\ Lock(c) /\ Goto(c, "reap")
    <2>1. /\ call' \in [Calls -> CallState] /\ call'[c].at = "reap" /\ call'[c].op = call[c].op
          /\ call'[c].acct = call[c].acct /\ call'[c].job = call[c].job
          /\ \A d \in Calls : d # c => call'[d] = call[d]
      BY <1>0, <1>6, GotoCall DEF Busy
    <2>2. TripsOK'
      BY <1>1, <1>2, <2>1, PoolTrips DEF redisVars, Locked
    <2>3. lock' = [lock EXCEPT ![i] = c]
      BY <1>6 DEF Lock
    <2>4. /\ handles' \in [Instances -> [Accounts -> Workers \cup {None}]]
          /\ handles'[i][call[c].acct] = None
          /\ \A k \in Instances, a \in Accounts :
                 <<k, a>> # <<i, call[c].acct>> => handles'[k][a] = handles[k][a]
      BY <1>0, <1>1, <1>6, WithoutHandleType
    <2>5. ~Alive(handles[i][call[c].acct])
      BY <1>6 DEF HandleIsDead, HandleOf
    <2>6. \A k \in Instances, a \in Accounts :
              \/ handles'[k][a] = handles[k][a]
              \/ handles'[k][a] = None /\ ~Alive(handles[k][a])
      BY <2>4, <2>5
    <2>7. ~Stopping(c)' /\ ~Claims(c)'
      BY <2>1 DEF Stopping, Claims
    <2>8. call[c].at # "free"
      BY <1>1
    <2>9. TypeOK'
      BY <1>0, <1>1, <2>1, <2>3, <2>4 DEF TypeOK, redisVars
    <2>10. TypeOK /\ PoolsOK
      OBVIOUS
    <2> HIDE DEF PoolsOK, TypeOK, Stopping, Claims
    <2>11. PoolsOK'
      BY <1>1, <1>3, <1>4, <2>1, <2>3, <2>4, <2>6, <2>7, <2>10, PoolsLock
    <2> QED BY <2>2, <2>9, <2>11
  <1>7. CASE ~Alive(HandleOf(c)) /\ ~HandleIsDead(c) /\ SpawnOrRefuse(c) /\ handles' = handles
    <2>1. HandleOf(c) = None
      BY <1>7 DEF HandleIsDead
    <2>2. \/ Return(c) /\ lock' = [lock EXCEPT ![i] = None]
          \/ /\ Goto(c, "spawn") /\ lock' = [lock EXCEPT ![i] = c]
             /\ ~(Cardinality(Handled(i)) >= MaxWorkers)
      BY <1>7 DEF SpawnOrRefuse, Release, Lock
    <2>3. CASE Return(c) /\ lock' = [lock EXCEPT ![i] = None]
      <3>1. call' \in [Calls -> CallState] /\ call'[c] = IdleCall
            /\ \A d \in Calls : d # c => call'[d] = call[d]
        BY <1>0, <2>3, ReturnCall
      <3>2. TripsOK'
        BY <1>1, <1>2, <3>1, PoolTrips DEF redisVars
      <3>3. call'[c].at = "free" /\ ~Stopping(c)' /\ ~Claims(c)' /\ call'[c].at \notin Locked
        BY <3>1 DEF Stopping, Claims, IdleCall, Locked
      <3>4. TypeOK'
        BY <1>0, <1>1, <1>7, <2>3, <3>1 DEF TypeOK, redisVars
      <3>5. TypeOK /\ PoolsOK
        OBVIOUS
      <3> HIDE DEF PoolsOK, TypeOK, Stopping, Claims
      <3>6. PoolsOK'
        BY <1>0, <1>1, <1>3, <1>4, <1>7, <2>3, <3>1, <3>3, <3>5, PoolsLock
      <3> QED BY <3>2, <3>4, <3>6
    <2>4. CASE /\ Goto(c, "spawn") /\ lock' = [lock EXCEPT ![i] = c]
               /\ ~(Cardinality(Handled(i)) >= MaxWorkers)
      <3>1. /\ call' \in [Calls -> CallState] /\ call'[c].at = "spawn" /\ call'[c].op = call[c].op
            /\ call'[c].acct = call[c].acct /\ call'[c].job = call[c].job
            /\ \A d \in Calls : d # c => call'[d] = call[d]
        BY <1>0, <2>4, GotoCall DEF Busy
      <3>2. TripsOK'
        BY <1>1, <1>2, <3>1, PoolTrips DEF redisVars, Locked
      <3>3. ~Stopping(c)'
        BY <3>1 DEF Stopping
      <3>4. Cardinality(Handled(i)) < MaxWorkers
        <4>1. Cardinality(Handled(i)) \in Nat /\ MaxWorkers \in Nat
          BY <1>0, FS_CardinalityType, JobFacts DEF PoolsOK
        <4> QED BY ONLY <2>4, <4>1
      <3>5. handles'[i][call'[c].acct] = None
        BY <1>7, <2>1, <3>1 DEF HandleOf
      <3>6. TypeOK'
        BY <1>0, <1>1, <1>7, <2>4, <3>1 DEF TypeOK, redisVars
      <3>7. TypeOK /\ PoolsOK
        OBVIOUS
      <3> HIDE DEF PoolsOK, TypeOK, Stopping, Claims
      <3>8. PoolsOK'
        BY <1>0, <1>1, <1>3, <1>4, <1>7, <2>4, <3>1, <3>3, <3>4, <3>5, <3>7, PoolsLock
      <3> QED BY <3>2, <3>6, <3>8
    <2> QED BY <2>2, <2>3, <2>4
  <1> QED BY <1>5, <1>6, <1>7 DEF EnsureWorker

\* The steps of a request that has the lock and stays with its handles and workers.
LEMMA LockedHolds ==
    ASSUME JobInv, NEW c \in Calls, Reap(c) \/ Register(c) \/ Unregister(c)
    PROVE  JobInv'
  <1> USE DEF JobInv
  <1> DEFINE i == ServerOf(c)
  <1>0. /\ call \in [Calls -> CallState] /\ i \in Instances
        /\ handles \in [Instances -> [Accounts -> Workers \cup {None}]]
        /\ lock \in [Instances -> Calls \cup {None}] /\ registry \in [Accounts -> Entry]
    BY ServerType DEF TypeOK
  <1>1. /\ call[c].at \in {"reap", "register", "unregister"} /\ call[c].at \in Locked
        /\ call[c].acct \in Accounts
        /\ UNCHANGED <<queue, results, creds, handles, worker, taken, told, restarts, scene>>
        /\ registry' \in [Accounts -> Entry]
    <2>1. call[c].at \in {"reap", "register", "unregister"}
      BY DEF Reap, Register, Unregister, At
    <2>2. call[c].acct \in Accounts
      BY <2>1 DEF PoolsOK
    <2>3. NoEntry \in Entry /\ [by |-> i, old |-> FALSE] \in Entry
      BY <1>0 DEF NoEntry, Entry
    <2>4. registry' \in [Accounts -> Entry]
      BY <1>0, <2>3 DEF Reap, Register, Unregister
    <2> QED BY <2>1, <2>2, <2>4 DEF Reap, Register, Unregister, Locked
  <1>2. \A w \in Workers : WorkerGoesOn(w)
    BY <1>1 DEF WorkerGoesOn
  <1>3. \A w \in Workers : worker'[w] = worker[w]
    BY <1>1
  <1>4. \/ Return(c) /\ lock' = [lock EXCEPT ![i] = None]
        \/ /\ call[c].at = "reap" /\ Goto(c, "spawn") /\ lock' = [lock EXCEPT ![i] = c]
           /\ ~(Cardinality(Handled(i)) >= MaxWorkers)
        \/ call[c].at = "unregister" /\ Goto(c, "post") /\ lock' = lock
    BY DEF Reap, Register, Unregister, SpawnOrRefuse, Release, Lock, At
  <1>5. call[c].at # "register" => handles[i][call[c].acct] = None
    BY <1>1 DEF PoolsOK, HandleOf
  <1>6. lock[i] = c
    BY <1>1 DEF PoolsOK
  <1>7. TypeOK /\ PoolsOK
    OBVIOUS
  <1>8. CASE Return(c) /\ lock' = [lock EXCEPT ![i] = None] /\ call[c].at # "unregister"
    <2>1. call' \in [Calls -> CallState] /\ call'[c] = IdleCall
          /\ \A d \in Calls : d # c => call'[d] = call[d]
      BY <1>0, <1>8, ReturnCall
    <2>2. TripsOK'
      BY <1>1, <1>2, <2>1, PoolTrips
    <2>3. call'[c].at = "free" /\ ~Stopping(c)' /\ ~Claims(c)' /\ call'[c].at \notin Locked /\ ~Stopping(c)
      BY <1>1, <1>8, <2>1 DEF Stopping, Claims, IdleCall, Locked
    <2>4. TypeOK'
      BY <1>0, <1>1, <1>8, <2>1 DEF TypeOK
    <2> HIDE DEF PoolsOK, TypeOK, Stopping, Claims
    <2>5. PoolsOK'
      BY <1>0, <1>1, <1>3, <1>7, <1>8, <2>1, <2>3, PoolsLock
    <2> QED BY <2>2, <2>4, <2>5
  <1>9. CASE /\ call[c].at = "reap" /\ Goto(c, "spawn") /\ lock' = [lock EXCEPT ![i] = c]
             /\ ~(Cardinality(Handled(i)) >= MaxWorkers)
    <2>1. /\ call' \in [Calls -> CallState] /\ call'[c].at = "spawn" /\ call'[c].op = call[c].op
          /\ call'[c].acct = call[c].acct /\ call'[c].job = call[c].job
          /\ \A d \in Calls : d # c => call'[d] = call[d]
      BY <1>0, <1>9, GotoCall DEF Busy
    <2>2. TripsOK'
      BY <1>1, <1>2, <2>1, PoolTrips DEF Locked
    <2>3. ~Stopping(c)' /\ ~Stopping(c)
      BY <1>9, <2>1 DEF Stopping
    <2>4. Cardinality(Handled(i)) < MaxWorkers
      <3>1. Cardinality(Handled(i)) \in Nat /\ MaxWorkers \in Nat
        BY <1>0, FS_CardinalityType, JobFacts DEF PoolsOK
      <3> QED BY ONLY <1>9, <3>1
    <2>5. handles'[i][call'[c].acct] = None
      BY <1>1, <1>5, <1>9, <2>1
    <2>6. TypeOK'
      BY <1>0, <1>1, <1>9, <2>1 DEF TypeOK
    <2> HIDE DEF PoolsOK, TypeOK, Stopping, Claims
    <2>7. PoolsOK'
      BY <1>0, <1>1, <1>3, <1>7, <1>9, <2>1, <2>3, <2>4, <2>5, PoolsLock
    <2> QED BY <2>2, <2>6, <2>7
  <1>10. CASE call[c].at = "unregister" /\ Goto(c, "post") /\ lock' = lock
    <2>1. /\ call' \in [Calls -> CallState] /\ call'[c].at = "post" /\ call'[c].op = call[c].op
          /\ call'[c].acct = call[c].acct /\ call'[c].job = call[c].job /\ call'[c].proc = call[c].proc
          /\ \A d \in Calls : d # c => call'[d] = call[d]
      BY <1>0, <1>10, GotoCall DEF Busy
    <2>2. TripsOK'
      BY <1>1, <1>2, <2>1, PoolTrips DEF Locked
    <2>3. /\ (Stopping(c)' <=> Stopping(c)) /\ (Claims(c)' => Claims(c))
      BY <1>10, <2>1 DEF Stopping, Claims
    <2>4. handles'[i][call'[c].acct] = None
      BY <1>1, <1>5, <1>10, <2>1
    <2>5. lock' = [lock EXCEPT ![i] = c]
      BY <1>0, <1>6, <1>10
    <2>6. TypeOK'
      BY <1>0, <1>1, <1>10, <2>1 DEF TypeOK
    <2> HIDE DEF PoolsOK, TypeOK, Stopping, Claims
    <2>7. PoolsOK'
      BY <1>0, <1>1, <1>3, <1>7, <2>1, <2>3, <2>4, <2>5, PoolsLock
    <2> QED BY <2>2, <2>6, <2>7
  <1>11. Return(c) /\ lock' = [lock EXCEPT ![i] = None] /\ call[c].at = "unregister" => FALSE
    <2> SUFFICES ASSUME Return(c), call[c].at = "unregister" PROVE FALSE
      OBVIOUS
    <2>1. Goto(c, "post")
      BY DEF Reap, Register, Unregister, At
    <2>2. call'[c].at = "post" /\ call'[c].at = "free"
      BY <1>0, <2>1, GotoCall, ReturnCall DEF IdleCall, Busy
    <2> QED BY <2>2
  <1> QED BY <1>4, <1>8, <1>9, <1>10, <1>11

\* The process of a disconnected account is gone before the lock is given back.
LEMMA GoneHolds ==
    ASSUME JobInv, NEW c \in Calls, ProcessGone(c)
    PROVE  JobInv'
  <1> USE DEF JobInv
  <1> DEFINE i == ServerOf(c)
             p == call[c].proc
  <1>0. /\ call \in [Calls -> CallState] /\ i \in Instances
        /\ handles \in [Instances -> [Accounts -> Workers \cup {None}]]
        /\ lock \in [Instances -> Calls \cup {None}] /\ worker \in [Workers -> WorkerState]
        /\ p \in Workers \cup {None}
    BY ServerType DEF TypeOK, CallState
  <1>1. /\ call[c].at = "reaping" /\ Return(c) /\ lock' = [lock EXCEPT ![i] = None]
        /\ worker' = IF Alive(p) THEN [worker EXCEPT ![p] = DeadWorker] ELSE worker
        /\ UNCHANGED <<redisVars, handles, taken, told, restarts, scene>>
    BY DEF ProcessGone, Release, Killed
  <1>2. /\ worker' \in [Workers -> WorkerState]
        /\ \A w \in Workers : worker'[w] \in {worker[w], DeadWorker}
        /\ p \in Workers => worker'[p].at = "dead"
    <2>1. DeadWorker \in WorkerState /\ DeadWorker.at = "dead"
      BY IdleCallType DEF DeadWorker
    <2>2. CASE Alive(p)
      <3>1. p \in Workers /\ worker' = [worker EXCEPT ![p] = DeadWorker]
        BY <1>0, <1>1, <2>2 DEF Alive
      <3> HIDE DEF p
      <3> QED BY ONLY <1>0, <2>1, <3>1
    <2>3. CASE ~Alive(p)
      <3>1. worker' = worker /\ (p \in Workers => worker[p].at = "dead")
        BY <1>1, <2>3, JobFacts DEF Alive
      <3> QED BY <1>0, <3>1
    <2> QED BY <2>2, <2>3
  <1>3. call' \in [Calls -> CallState] /\ call'[c] = IdleCall
        /\ \A d \in Calls : d # c => call'[d] = call[d]
    BY <1>0, <1>1, ReturnCall
  <1>4. \A w \in Workers : WorkerGoesOn(w)
    BY <1>2 DEF WorkerGoesOn, DeadWorker
  <1>5. call[c].at \in Locked
    BY <1>1 DEF Locked
  <1>6. TripsOK'
    BY <1>1, <1>3, <1>4, <1>5, PoolTrips DEF redisVars
  <1>7. TypeOK'
    BY <1>0, <1>1, <1>2, <1>3 DEF TypeOK, redisVars
  <1>8. call'[c].at = "free" /\ ~Stopping(c)' /\ ~Claims(c)' /\ call'[c].at \notin Locked
    BY <1>3 DEF Stopping, Claims, IdleCall, Locked
  <1>9. \A w \in Workers : worker'[w].at # "dead" => worker'[w] = worker[w]
    BY <1>2 DEF DeadWorker
  <1>10. Stopping(c) => worker'[p].at = "dead"
    BY <1>0, <1>2 DEF Stopping
  <1>11. TypeOK /\ PoolsOK
    OBVIOUS
  <1> HIDE DEF PoolsOK, TypeOK, Stopping, Claims
  <1>12. PoolsOK'
    BY <1>0, <1>1, <1>3, <1>5, <1>8, <1>9, <1>10, <1>11, PoolsLock
  <1> QED BY <1>6, <1>7, <1>12

\* Redis fails under the lock: the process of a stop, if it lives, is nobody's from now
\* on, and the handle that it has left stays empty.
LEMMA FailsHolds ==
    ASSUME JobInv, NEW c \in Calls, RedisFails(c)
    PROVE  JobInv'
  <1> USE DEF JobInv
  <1> DEFINE i == ServerOf(c)
             p == call[c].proc
             Lost == call[c].at \in {"unregister", "post"} /\ Alive(p)
  <1>0. /\ call \in [Calls -> CallState] /\ i \in Instances
        /\ handles \in [Instances -> [Accounts -> Workers \cup {None}]]
        /\ lock \in [Instances -> Calls \cup {None}] /\ worker \in [Workers -> WorkerState]
        /\ p \in Workers \cup {None} /\ None \notin Instances
    BY ServerType, JobFacts DEF TypeOK, CallState
  <1>1. /\ call[c].at \in {"spawn", "register", "unregister", "post"}
        /\ Return(c) /\ lock' = [lock EXCEPT ![i] = None]
        /\ worker' = IF Lost THEN [worker EXCEPT ![p].by = None] ELSE worker
        /\ UNCHANGED <<redisVars, handles, taken, told, restarts, scene>>
    BY DEF RedisFails, Release, Orphaned, At
  <1>2. /\ worker' \in [Workers -> WorkerState]
        /\ \A w \in Workers :
              /\ worker'[w].at = worker[w].at /\ worker'[w].acct = worker[w].acct
              /\ worker'[w].job = worker[w].job /\ worker'[w].outcome = worker[w].outcome
              /\ (w # p \/ ~Lost) => worker'[w].by = worker[w].by
        /\ Lost => worker'[p].by = None
    <2>1. CASE Lost
      <3> DEFINE new == [worker[p] EXCEPT !.by = None]
      <3>1. p \in Workers /\ worker[p] \in WorkerState
        BY <1>0, <2>1 DEF Alive
      <3>2. /\ new \in WorkerState /\ new.by = None /\ new.at = worker[p].at
            /\ new.acct = worker[p].acct /\ new.job = worker[p].job /\ new.outcome = worker[p].outcome
        BY <3>1 DEF WorkerState
      <3>3. worker' = [worker EXCEPT ![p] = new]
        BY <1>1, <2>1
      <3> HIDE DEF new, p, Lost
      <3> QED BY <1>0, <2>1, <3>1, <3>2, <3>3
    <2>2. CASE ~Lost
      BY <1>0, <1>1, <2>2
    <2> QED BY <2>1, <2>2
  <1>3. call' \in [Calls -> CallState] /\ call'[c] = IdleCall
        /\ \A d \in Calls : d # c => call'[d] = call[d]
    BY <1>0, <1>1, ReturnCall
  <1>4. \A w \in Workers : WorkerGoesOn(w)
    <2> HIDE DEF p, Lost, JobInv
    <2> QED BY ONLY <1>2 DEF WorkerGoesOn
  <1>5. call[c].at \in Locked
    BY <1>1 DEF Locked
  <1>6. TripsOK'
    BY <1>1, <1>3, <1>4, <1>5, PoolTrips DEF redisVars
  <1>7. TypeOK'
    BY <1>0, <1>1, <1>2, <1>3 DEF TypeOK, redisVars
  <1>8. call'[c].at = "free" /\ ~Stopping(c)' /\ ~Claims(c)' /\ call'[c].at \notin Locked
    BY <1>3 DEF Stopping, Claims, IdleCall, Locked
  <1>9. TypeOK /\ PoolsOK
    OBVIOUS
  <1>10. ASSUME Lost, Stopping(c)
         PROVE  Abandoned(p)
    <2>1. worker[p].acct = call[c].acct /\ worker[p].by = i /\ handles[i][call[c].acct] = None
          /\ p # None
      BY <1>1, <1>5, <1>10 DEF PoolsOK, HandleOf, Stopping, Locked, Alive
    <2>2. \A k \in Instances, a \in Accounts : handles[k][a] # p
      BY <1>10, <2>1 DEF PoolsOK
    <2>3. ASSUME NEW d \in Calls, Stopping(d)', call'[d].proc = p PROVE FALSE
      <3>1. d # c /\ call'[d] = call[d]
        BY <1>3, <1>8, <2>3
      <3>2. Stopping(d) /\ call[d].proc = p /\ call[d].at \in Locked
        BY <2>3, <3>1 DEF Stopping, Locked
      <3>3. ServerOf(d) = i
        BY <1>10, <2>1, <3>2 DEF PoolsOK
      <3> QED BY <1>5, <1>9, <3>1, <3>2, <3>3, Alone
    <2> QED BY <1>0, <1>2, <1>10, <2>1, <2>2, <2>3 DEF Abandoned
  <1>11. ASSUME NEW w \in Workers, worker'[w].at # "dead"
         PROVE  /\ worker[w].at # "dead" /\ worker'[w].acct = worker[w].acct
                /\ worker'[w].by = worker[w].by \/ Abandoned(w)
    <2>1. CASE w = p /\ Lost
      <3>1. Alive(p) /\ Stopping(c)
        BY <2>1 DEF Stopping, Alive
      <3> HIDE DEF p, Lost, JobInv
      <3> QED BY ONLY <1>2, <1>10, <1>11, <2>1, <3>1
    <2>2. CASE ~(w = p /\ Lost)
      <3> HIDE DEF p, Lost, JobInv
      <3> QED BY ONLY <1>2, <1>11, <2>2
    <2> QED BY <2>1, <2>2
  <1>12. Stopping(c) /\ worker'[p].at # "dead" => worker'[p].by \notin Instances
    <2>0. SUFFICES ASSUME Stopping(c), worker'[p].at # "dead" PROVE worker'[p].by \notin Instances
      OBVIOUS
    <2>1. call[c].at \in {"unregister", "post"} /\ p \in Workers /\ p # None
      BY <1>0, <1>1, <2>0 DEF Stopping
    <2>2. worker[p].at # "dead"
      <3> HIDE DEF p, Lost, JobInv
      <3> QED BY ONLY <1>2, <2>0, <2>1
    <2>3. Lost
      BY <2>1, <2>2 DEF Alive
    <2> QED BY <1>0, <1>2, <2>3
  <1> HIDE DEF PoolsOK, TypeOK, Stopping, Claims, Abandoned
  <1>13. PoolsOK'
    BY <1>0, <1>1, <1>3, <1>5, <1>8, <1>9, <1>11, <1>12, PoolsLock
  <1> QED BY <1>6, <1>7, <1>13

\* Stopping begins: the process, dead or alive, leaves its handle and is this
\* request's from now on.
LEMMA StopHolds ==
    ASSUME JobInv, NEW c \in Calls, StopWorker(c)
    PROVE  JobInv'
  <1> USE DEF JobInv
  <1> DEFINE i == ServerOf(c)
             a == call[c].acct
             p == HandleOf(c)
             new == [call[c] EXCEPT !.at = "unregister", !.proc = p]
  <1>0. /\ call \in [Calls -> CallState] /\ i \in Instances /\ call[c] \in CallState
        /\ handles \in [Instances -> [Accounts -> Workers \cup {None}]]
        /\ lock \in [Instances -> Calls \cup {None}]
        /\ \A d \in Calls : ServerOf(d) \in Instances
    BY ServerType DEF TypeOK
  <1>1. /\ call[c].at = "lock" /\ a \in Accounts /\ LockIsFree(c)
        /\ lock' = [lock EXCEPT ![i] = c] /\ handles' = WithoutHandle(c)
        /\ call' = [call EXCEPT ![c] = new]
        /\ UNCHANGED <<redisVars, worker, taken, told, restarts, scene>>
    BY DEF StopWorker, At, PoolsOK, Lock
  <1>2. p \in Workers \cup {None} /\ p = handles[i][a]
    BY <1>0, <1>1 DEF HandleOf
  <1>3. new \in CallState /\ new.at = "unregister" /\ new.proc = p /\ new.acct = a
        /\ new.op = call[c].op /\ new.job = call[c].job
    <2> HIDE DEF p
    <2> QED BY <1>0, <1>2 DEF CallState
  <1> HIDE DEF new
  <1>4. /\ call' \in [Calls -> CallState] /\ call'[c] = new
        /\ \A d \in Calls : d # c => call'[d] = call[d]
    BY <1>0, <1>1, <1>3
  <1>5. /\ handles' \in [Instances -> [Accounts -> Workers \cup {None}]]
        /\ handles'[i][a] = None
        /\ \A k \in Instances, b \in Accounts : <<k, b>> # <<i, a>> => handles'[k][b] = handles[k][b]
    BY <1>0, <1>1, WithoutHandleType
  <1>6. lock'[i] = c /\ \A k \in Instances : k # i => lock'[k] = lock[k]
    BY <1>0, <1>1
  <1>7. TypeOK'
    BY <1>0, <1>1, <1>4, <1>5 DEF TypeOK, redisVars
  <1>8. TripsOK'
    <2>1. \A w \in Workers : WorkerGoesOn(w)
      BY <1>1 DEF WorkerGoesOn
    <2> QED BY <1>1, <1>3, <1>4, <2>1, PoolTrips DEF redisVars, Locked
  <1>9. \A d \in Calls : d # c /\ call[d].at \in Locked => ServerOf(d) # i
    BY <1>1, Alone
  <1>10. \A d \in Calls : ServerOf(d)' = ServerOf(d)
    BY <1>1 DEF ServerOf
  <1>11. (\A d \in Calls : call[d].at \in Locked => lock[ServerOf(d)] = d)'
    BY <1>0, <1>4, <1>6, <1>9, <1>10 DEF PoolsOK
  <1>12. ASSUME NEW d \in Calls, call'[d].at \in Locked \ {"register"}
         PROVE  handles'[ServerOf(d)][call'[d].acct] = None
    <2>1. CASE d = c
      BY <1>3, <1>4, <1>5, <2>1
    <2>2. CASE d # c
      <3>1. call'[d] = call[d] /\ handles[ServerOf(d)][call[d].acct] = None /\ call[d].acct \in Accounts
        BY <1>4, <1>12, <2>2 DEF PoolsOK, HandleOf, Locked
      <3>2. ServerOf(d) # i
        BY <1>9, <1>12, <2>2, <3>1
      <3> QED BY <1>0, <1>5, <3>1, <3>2
    <2> QED BY <2>1, <2>2
  <1>13. ASSUME NEW k \in Instances, NEW b \in Accounts, Alive(handles[k][b])'
         PROVE  worker'[handles'[k][b]].acct = b /\ worker'[handles'[k][b]].by = k
    <2>1. handles'[k][b] = handles[k][b]
      BY <1>5, <1>13 DEF Alive
    <2> QED BY <1>1, <1>13, <2>1 DEF PoolsOK, Alive
  <1>14. ASSUME NEW d \in Calls, Stopping(d)', Alive(call[d].proc)'
         PROVE  worker'[call'[d].proc].acct = call'[d].acct /\ worker'[call'[d].proc].by = ServerOf(d)
    <2>1. CASE d = c
      <3>1. call'[c].proc = handles[i][a] /\ Alive(handles[i][a]) /\ call'[c].acct = a
        BY <1>1, <1>2, <1>3, <1>4, <1>14, <2>1 DEF Alive
      <3>2. worker[handles[i][a]].acct = a /\ worker[handles[i][a]].by = i
        BY <1>0, <1>1, <3>1 DEF PoolsOK
      <3> QED BY <1>1, <2>1, <3>1, <3>2
    <2>2. CASE d # c
      <3>1. call'[d] = call[d] /\ Stopping(d) /\ Alive(call[d].proc)
        BY <1>1, <1>4, <1>14, <2>2 DEF Stopping, Alive
      <3> QED BY <1>1, <3>1 DEF PoolsOK
    <2> QED BY <2>1, <2>2
  <1>15. ASSUME NEW w \in Workers, Alive(w)', worker'[w].by \in Instances
         PROVE  \/ handles'[worker'[w].by][worker'[w].acct] = w
                \/ \E d \in Calls : ServerOf(d)' = worker'[w].by /\ Stopping(d)' /\ call'[d].proc = w
    <2>1. Alive(w) /\ worker[w].by \in Instances /\ worker[w].acct \in Accounts
      BY <1>1, <1>15 DEF Alive, PoolsOK
    <2>2. CASE handles[worker[w].by][worker[w].acct] = w
      <3>1. CASE <<worker[w].by, worker[w].acct>> = <<i, a>>
        <4>1. p = w /\ w # None /\ worker[w].by = i
          BY <1>2, <2>1, <2>2, <3>1 DEF Alive
        <4>2. Stopping(c)' /\ call'[c].proc = w
          BY <1>3, <1>4, <4>1 DEF Stopping
        <4> QED BY <1>1, <1>10, <4>1, <4>2
      <3>2. CASE <<worker[w].by, worker[w].acct>> # <<i, a>>
        BY <1>1, <1>5, <2>1, <2>2, <3>2
      <3> QED BY <3>1, <3>2
    <2>3. CASE \E d \in Calls : ServerOf(d) = worker[w].by /\ Stopping(d) /\ call[d].proc = w
      <3>1. PICK d \in Calls : ServerOf(d) = worker[w].by /\ Stopping(d) /\ call[d].proc = w
        BY <2>3
      <3>2. d # c
        BY <1>1, <3>1 DEF Stopping
      <3>3. call'[d] = call[d]
        BY <1>4, <3>2
      <3>4. Stopping(d)' /\ call'[d].proc = w /\ ServerOf(d)' = worker'[w].by
        BY <1>1, <1>10, <3>1, <3>3 DEF Stopping
      <3> QED BY <3>4
    <2> QED BY <2>1, <2>2, <2>3 DEF PoolsOK
  <1>16. (\A w \in Workers : Alive(w) => worker[w].acct \in Accounts)'
    BY <1>1 DEF PoolsOK, Alive
  <1>17. (\A d \in Calls : call[d].at # "free" => call[d].acct \in Accounts)'
    BY <1>1, <1>3, <1>4 DEF PoolsOK
  <1>18. ASSUME NEW k \in Instances
         PROVE  /\ IsFiniteSet(Handled(k)')
                /\ Cardinality(Handled(k)') <= MaxWorkers
                /\ \A d \in Calls : ServerOf(d)' = k /\ Claims(d)' => Cardinality(Handled(k)') < MaxWorkers
    <2>1. /\ IsFiniteSet(Handled(k)) /\ Cardinality(Handled(k)) <= MaxWorkers
          /\ \A d \in Calls : ServerOf(d) = k /\ Claims(d) => Cardinality(Handled(k)) < MaxWorkers
      BY DEF PoolsOK
    <2>2. CASE k # i
      <3>1. Handled(k)' = Handled(k)
        BY <1>5, <2>2 DEF Handled
      <3>2. \A d \in Calls : ServerOf(d)' = k /\ Claims(d)' => Claims(d) /\ ServerOf(d) = k
        BY <1>4, <1>10, <2>2 DEF Claims, Stopping
      <3> QED BY <2>1, <3>1, <3>2
    <2>3. CASE k = i
      <3>1. Handled(k)' = Handled(k) \ {a}
        <4>1. \A b \in Accounts : handles'[k][b] # None <=> handles[k][b] # None /\ b # a
          BY <1>5, <2>3
        <4>2. Handled(k)' = {b \in Accounts : handles'[k][b] # None}
          BY DEF Handled
        <4>3. Handled(k) = {b \in Accounts : handles[k][b] # None}
          BY DEF Handled
        <4> HIDE DEF a
        <4> QED BY ONLY <4>1, <4>2, <4>3
      <3>2. /\ IsFiniteSet(Handled(k) \ {a})
            /\ Cardinality(Handled(k) \ {a}) =
                  IF a \in Handled(k) THEN Cardinality(Handled(k)) - 1 ELSE Cardinality(Handled(k))
        BY <2>1, FS_RemoveElement
      <3>3. Cardinality(Handled(k)) \in Nat /\ MaxWorkers \in Nat \ {0}
        BY <2>1, FS_CardinalityType, JobFacts
      <3>4. Cardinality(Handled(k)) <= MaxWorkers
        BY <2>1
      <3>5. Cardinality(Handled(k) \ {a}) <= MaxWorkers
            /\ (a \in Handled(k) => Cardinality(Handled(k) \ {a}) < MaxWorkers)
        BY ONLY <3>2, <3>3, <3>4
      <3>6. ASSUME NEW d \in Calls, ServerOf(d)' = k, Claims(d)'
            PROVE  a \in Handled(k)
        <4>1. CASE d # c
          <5>1. call[d].at \in Locked
            BY <1>4, <3>6, <4>1 DEF Claims, Stopping, Locked
          <5> QED BY <1>9, <1>10, <2>3, <3>6, <4>1, <5>1
        <4>2. CASE d = c
          <5>1. p # None
            BY <1>3, <1>4, <3>6, <4>2 DEF Claims, Stopping
          <5> QED BY <1>1, <1>2, <2>3, <5>1 DEF Handled
        <4> QED BY <4>1, <4>2
      <3>7. \A d \in Calls : ServerOf(d)' = k /\ Claims(d)' => Cardinality(Handled(k)') < MaxWorkers
        BY <3>1, <3>5, <3>6
      <3> QED BY <3>1, <3>2, <3>5, <3>7
    <2> QED BY <2>2, <2>3
  <1>19. PoolsOK'
    <2>1. (\A d \in Calls : call[d].at \in Locked \ {"register"} => HandleOf(d) = None)'
      BY <1>10, <1>12 DEF HandleOf
    <2>2. (\A k \in Instances, b \in Accounts :
              Alive(handles[k][b]) => worker[handles[k][b]].acct = b /\ worker[handles[k][b]].by = k)'
      BY <1>13
    <2>3. (\A k \in Instances :
              /\ IsFiniteSet(Handled(k))
              /\ Cardinality(Handled(k)) <= MaxWorkers
              /\ \A d \in Calls : ServerOf(d) = k /\ Claims(d) => Cardinality(Handled(k)) < MaxWorkers)'
      BY <1>18
    <2> QED BY <1>10, <1>11, <1>14, <1>15, <1>16, <1>17, <2>1, <2>2, <2>3 DEF PoolsOK
  <1> QED BY <1>7, <1>8, <1>19

\* A STOP job in a queue is no order.
LEMMA PostTrips ==
    ASSUME JobInv, NEW c \in Calls, call[c].at = "post", NEW a \in Accounts,
           queue' = [queue EXCEPT ![a] = Append(@, STOP)],
           UNCHANGED <<results, taken, told, worker>>,
           \A d \in Calls : d # c => call'[d] = call[d],
           CallOK(c)', call'[c].job = None
    PROVE  TripsOK'
  <1> USE DEF JobInv
  <1> DEFINE X == Jobs \cup {STOP}
  <1>0. queue \in [Accounts -> Seq(X)] /\ STOP \in X
    BY DEF TypeOK
  <1>1. /\ \A b, d \in Accounts : \A m \in 1..Len(queue'[b]), n \in 1..Len(queue'[d]) :
                 queue'[b][m] # STOP /\ queue'[b][m] = queue'[d][n] => b = d /\ m = n
        /\ \A k \in X : Queued(k)' => Queued(k) \/ k = STOP
    <2>1. \A b, d \in Accounts : \A m \in 1..Len(queue[b]), n \in 1..Len(queue[d]) :
              queue[b][m] # STOP /\ queue[b][m] = queue[d][n] => b = d /\ m = n
      BY DEF TripsOK
    <2> HIDE DEF X
    <2> QED BY <1>0, <2>1, AppendedApart
  <1>2. \A k \in Jobs : Queued(k)' => Queued(k)
    BY <1>1, JobFacts
  <1>3. ASSUME NEW d \in Calls PROVE CallOK(d)'
    <2>1. CASE d # c
      BY <2>1, CallSame DEF TripsOK
    <2> QED BY <2>1
  <1>4. ASSUME NEW d \in Calls, NEW e \in Calls, call'[d].job # None, call'[d].job = call'[e].job
        PROVE  d = e
    <2>1. d # c /\ e # c
      BY <1>4
    <2>2. call'[d] = call[d] /\ call'[e] = call[e]
      BY <2>1
    <2> QED BY <1>4, <2>2 DEF TripsOK
  <1>5. ASSUME NEW w \in Workers PROVE WorkerOK(w)'
    BY DEF TripsOK, WorkerOK
  <1>6. ASSUME NEW k \in Jobs
        PROVE  /\ taken'[k] \in {0, 1}
               /\ told'[k] \in {"nothing", "refused"} => taken'[k] = 0
               /\ results'[k] # <<>> => taken'[k] = 1
               /\ Queued(k)' => /\ taken'[k] = 0 /\ told'[k] \in {"waiting", "unknown"}
                                /\ \A w \in Workers : worker'[w].job # k
    BY <1>2 DEF TripsOK
  <1>7. \A v, w \in Workers : worker'[v].at = "popped" /\ worker'[w].at = "popped"
                                /\ worker'[v].job = worker'[w].job => v = w
    BY DEF TripsOK
  <1> HIDE DEF CallOK, WorkerOK, Queued, X
  <1> QED BY <1>1, <1>3, <1>4, <1>5, <1>6, <1>7 DEF TripsOK

\* A STOP job is posted; a process is waited for with the lock, or the lock is given back.
LEMMA PostHolds ==
    ASSUME JobInv, NEW c \in Calls, PostStop(c)
    PROVE  JobInv'
  <1> USE DEF JobInv
  <1> DEFINE i == ServerOf(c)
             a == call[c].acct
             X == Jobs \cup {STOP}
  <1>0. /\ call \in [Calls -> CallState] /\ i \in Instances
        /\ handles \in [Instances -> [Accounts -> Workers \cup {None}]]
        /\ lock \in [Instances -> Calls \cup {None}] /\ queue \in [Accounts -> Seq(X)]
    BY ServerType DEF TypeOK
  <1>1. /\ call[c].at = "post" /\ call[c].at \in Locked /\ a \in Accounts /\ lock[i] = c
        /\ handles[i][a] = None
        /\ queue' = [queue EXCEPT ![a] = Append(@, STOP)]
        /\ UNCHANGED <<results, creds, registry, handles, worker, taken, told, restarts, scene>>
    BY DEF PostStop, At, PoolsOK, Locked, HandleOf
  <1>2. CallOK(c) /\ call[c].job = None /\ call[c].op # "order"
    BY <1>1 DEF TripsOK, CallOK
  <1>3. \/ Return(c) /\ lock' = [lock EXCEPT ![i] = None] /\ call[c].proc = None
        \/ Goto(c, "reaping") /\ lock' = lock
    BY DEF PostStop, Release
  <1>4. queue' \in [Accounts -> Seq(X)]
    BY <1>0, <1>1, Appended
  <1>5. \A w \in Workers : worker'[w] = worker[w]
    BY <1>1
  <1>6. TypeOK /\ PoolsOK
    OBVIOUS
  <1>7. CASE Return(c) /\ lock' = [lock EXCEPT ![i] = None] /\ call[c].proc = None
    <2>1. call' \in [Calls -> CallState] /\ call'[c] = IdleCall
          /\ \A d \in Calls : d # c => call'[d] = call[d]
      BY <1>0, <1>7, ReturnCall
    <2>2. CallOK(c)' /\ call'[c].job = None
      BY <2>1, CallIdle DEF IdleCall
    <2>3. TripsOK'
      BY <1>1, <2>1, <2>2, PostTrips
    <2>4. TypeOK'
      BY <1>0, <1>1, <1>4, <1>7, <2>1 DEF TypeOK
    <2>5. call'[c].at = "free" /\ ~Stopping(c)' /\ ~Claims(c)' /\ call'[c].at \notin Locked /\ ~Stopping(c)
      BY <1>1, <1>7, <2>1 DEF Stopping, Claims, IdleCall, Locked
    <2> HIDE DEF PoolsOK, TypeOK, Stopping, Claims
    <2>6. PoolsOK'
      BY <1>0, <1>1, <1>5, <1>6, <1>7, <2>1, <2>5, PoolsLock
    <2> QED BY <2>3, <2>4, <2>6
  <1>8. CASE Goto(c, "reaping") /\ lock' = lock
    <2>1. /\ call' \in [Calls -> CallState] /\ call'[c].at = "reaping" /\ call'[c].op = call[c].op
          /\ call'[c].acct = a /\ call'[c].job = call[c].job /\ call'[c].proc = call[c].proc
          /\ \A d \in Calls : d # c => call'[d] = call[d]
      BY <1>0, <1>8, GotoCall DEF Busy
    <2>2. CallOK(c)' /\ call'[c].job = None
      BY <1>2, <2>1 DEF CallOK
    <2>3. TripsOK'
      BY <1>1, <2>1, <2>2, PostTrips
    <2>4. TypeOK'
      BY <1>0, <1>1, <1>4, <1>8, <2>1 DEF TypeOK
    <2>5. /\ (Stopping(c)' <=> Stopping(c)) /\ (Claims(c)' => Claims(c))
      BY <1>1, <2>1 DEF Stopping, Claims
    <2>6. handles'[i][call'[c].acct] = None
      BY <1>1, <2>1
    <2>7. lock' = [lock EXCEPT ![i] = c]
      BY <1>0, <1>1, <1>8
    <2> HIDE DEF PoolsOK, TypeOK, Stopping, Claims
    <2>8. PoolsOK'
      BY <1>0, <1>1, <1>5, <1>6, <2>1, <2>5, <2>6, <2>7, PoolsLock
    <2> QED BY <2>3, <2>4, <2>8
  <1> QED BY <1>3, <1>7, <1>8

\* A process that nobody knows is started, and is in the handle at once.  The server
\* had no handle for the account, and room for one more.
LEMMA SpawnHolds ==
    ASSUME JobInv, NEW c \in Calls, Spawn(c)
    PROVE  JobInv'
  <1> USE DEF JobInv
  <1> DEFINE i == ServerOf(c)
             a == call[c].acct
  <1>0. /\ call \in [Calls -> CallState] /\ i \in Instances
        /\ handles \in [Instances -> [Accounts -> Workers \cup {None}]]
        /\ lock \in [Instances -> Calls \cup {None}] /\ worker \in [Workers -> WorkerState]
        /\ creds \subseteq Accounts /\ \A d \in Calls : ServerOf(d) \in Instances
    BY ServerType DEF TypeOK
  <1>1. /\ call[c].at = "spawn" /\ call[c].at \in Locked /\ a \in Accounts /\ lock[i] = c
        /\ handles[i][a] = None
        /\ creds' = creds \cup {a} /\ Goto(c, "register")
        /\ UNCHANGED <<queue, results, registry, lock, taken, told, restarts, scene>>
    BY DEF Spawn, At, PoolsOK, Locked, HandleOf
  <1>2. PICK p \in Unwatched :
          /\ worker' = [worker EXCEPT ![p] = [DeadWorker EXCEPT !.at = "started", !.acct = a, !.by = i]]
          /\ handles' = [handles EXCEPT ![i][a] = p]
    BY DEF Spawn
  <1>3. /\ p \in Workers /\ p # None /\ worker[p].at = "dead"
        /\ \A k \in Instances, b \in Accounts : handles[k][b] # p
        /\ \A d \in Calls : call[d].proc # p
    BY JobFacts DEF Unwatched, Spare, Alive
  <1> DEFINE new == [DeadWorker EXCEPT !.at = "started", !.acct = a, !.by = i]
  <1>4. new \in WorkerState /\ new.at = "started" /\ new.acct = a /\ new.by = i /\ new.job = None
    BY <1>0, <1>1 DEF DeadWorker, WorkerState
  <1> HIDE DEF new
  <1>5. /\ worker' \in [Workers -> WorkerState] /\ worker'[p] = new
        /\ \A w \in Workers : w # p => worker'[w] = worker[w]
    <2>1. worker' = [worker EXCEPT ![p] = new]
      BY <1>2 DEF new
    <2> QED BY ONLY <1>0, <1>3, <1>4, <2>1
  <1>6. /\ handles' \in [Instances -> [Accounts -> Workers \cup {None}]] /\ handles'[i][a] = p
        /\ \A k \in Instances, b \in Accounts : <<k, b>> # <<i, a>> => handles'[k][b] = handles[k][b]
    <2> HIDE DEF i, a
    <2> QED BY <1>0, <1>1, <1>2, <1>3
  <1>7. /\ call' \in [Calls -> CallState] /\ call'[c].at = "register" /\ call'[c].op = call[c].op
        /\ call'[c].acct = a /\ call'[c].job = call[c].job /\ call'[c].proc = call[c].proc
        /\ \A d \in Calls : d # c => call'[d] = call[d]
    BY <1>0, <1>1, GotoCall DEF Busy
  <1>8. TypeOK'
    BY <1>0, <1>1, <1>5, <1>6, <1>7 DEF TypeOK
  <1>9. TripsOK'
    <2>1. \A w \in Workers : WorkerGoesOn(w)
      BY <1>4, <1>5 DEF WorkerGoesOn
    <2> QED BY <1>1, <1>7, <2>1, PoolTrips DEF Locked
  <1>10. \A d \in Calls : ServerOf(d)' = ServerOf(d)
    BY <1>1 DEF ServerOf
  <1>11. \A d \in Calls : d # c /\ ServerOf(d) = i => call[d].at \notin Locked
    BY <1>1, Alone
  <1>12. ~Stopping(c) /\ ~Stopping(c)' /\ ~Claims(c)' /\ Claims(c)
    BY <1>1, <1>7 DEF Stopping, Claims
  <1>13. \A d \in Calls : d # c => (Stopping(d)' <=> Stopping(d)) /\ (Claims(d)' <=> Claims(d))
    BY <1>7 DEF Stopping, Claims
  <1>14. (\A d \in Calls : call[d].at # "free" => call[d].acct \in Accounts)'
    BY <1>1, <1>7 DEF PoolsOK
  <1>15. (\A d \in Calls : call[d].at \in Locked => lock[ServerOf(d)] = d)'
    BY <1>1, <1>7, <1>10 DEF PoolsOK
  <1>16. ASSUME NEW d \in Calls, call'[d].at \in Locked \ {"register"}
         PROVE  handles'[ServerOf(d)][call'[d].acct] = None
    <2>1. d # c
      BY <1>7, <1>16
    <2>2. call'[d] = call[d] /\ handles[ServerOf(d)][call[d].acct] = None /\ call[d].acct \in Accounts
      BY <1>7, <1>16, <2>1 DEF PoolsOK, HandleOf, Locked
    <2>3. ServerOf(d) # i
      BY <1>11, <1>16, <2>1, <2>2
    <2> QED BY <1>0, <1>6, <2>2, <2>3
  <1>17. ASSUME NEW k \in Instances, NEW b \in Accounts, Alive(handles[k][b])'
         PROVE  worker'[handles'[k][b]].acct = b /\ worker'[handles'[k][b]].by = k
    <2>1. CASE <<k, b>> = <<i, a>>
      BY <1>4, <1>5, <1>6, <2>1
    <2>2. CASE <<k, b>> # <<i, a>>
      <3>1. handles'[k][b] = handles[k][b] /\ handles[k][b] # p /\ handles[k][b] \in Workers \cup {None}
        BY <1>0, <1>3, <1>6, <2>2
      <3>2. handles[k][b] # None
        BY <1>17, <3>1 DEF Alive
      <3>3. worker'[handles[k][b]] = worker[handles[k][b]]
        BY <1>5, <3>1, <3>2
      <3>4. Alive(handles[k][b])
        BY <1>17, <3>1, <3>3 DEF Alive
      <3> QED BY <3>1, <3>3, <3>4 DEF PoolsOK
    <2> QED BY <2>1, <2>2
  <1>18. ASSUME NEW d \in Calls, Stopping(d)', Alive(call[d].proc)'
         PROVE  worker'[call'[d].proc].acct = call'[d].acct /\ worker'[call'[d].proc].by = ServerOf(d)
    <2>1. d # c /\ Stopping(d) /\ call'[d] = call[d]
      BY <1>7, <1>12, <1>13, <1>18
    <2>2. call[d].proc \in Workers /\ call[d].proc # p
      BY <1>0, <1>3, <2>1 DEF Stopping, CallState
    <2>3. worker'[call[d].proc] = worker[call[d].proc]
      BY <1>5, <2>2
    <2>4. Alive(call[d].proc)
      BY <1>18, <2>1, <2>3 DEF Alive
    <2> QED BY <2>1, <2>3, <2>4 DEF PoolsOK
  <1>19. (\A w \in Workers : Alive(w) => worker[w].acct \in Accounts)'
    BY <1>1, <1>4, <1>5 DEF PoolsOK, Alive
  <1>20. ASSUME NEW w \in Workers, Alive(w)', worker'[w].by \in Instances
         PROVE  \/ handles'[worker'[w].by][worker'[w].acct] = w
                \/ \E d \in Calls : ServerOf(d)' = worker'[w].by /\ Stopping(d)' /\ call'[d].proc = w
    <2>1. CASE w = p
      BY <1>4, <1>5, <1>6, <2>1
    <2>2. CASE w # p
      <3>1. worker'[w] = worker[w] /\ Alive(w) /\ worker[w].acct \in Accounts
        BY <1>5, <1>20, <2>2 DEF Alive, PoolsOK
      <3>2. CASE handles[worker[w].by][worker[w].acct] = w
        <4>1. <<worker[w].by, worker[w].acct>> # <<i, a>>
          BY <1>1, <3>1, <3>2 DEF Alive
        <4> QED BY <1>6, <1>20, <3>1, <3>2, <4>1
      <3>3. CASE \E d \in Calls : ServerOf(d) = worker[w].by /\ Stopping(d) /\ call[d].proc = w
        <4>1. PICK d \in Calls : ServerOf(d) = worker[w].by /\ Stopping(d) /\ call[d].proc = w
          BY <3>3
        <4>2. d # c
          BY <1>12, <4>1
        <4> QED BY <1>7, <1>10, <1>13, <3>1, <4>1, <4>2
      <3> QED BY <1>20, <3>1, <3>2, <3>3 DEF PoolsOK
    <2> QED BY <2>1, <2>2
  <1>21. ASSUME NEW k \in Instances
         PROVE  /\ IsFiniteSet(Handled(k)')
                /\ Cardinality(Handled(k)') <= MaxWorkers
                /\ \A d \in Calls : ServerOf(d)' = k /\ Claims(d)' => Cardinality(Handled(k)') < MaxWorkers
    <2>1. /\ IsFiniteSet(Handled(k)) /\ Cardinality(Handled(k)) <= MaxWorkers
          /\ \A d \in Calls : ServerOf(d) = k /\ Claims(d) => Cardinality(Handled(k)) < MaxWorkers
      BY DEF PoolsOK
    <2>2. CASE k # i
      <3>1. Handled(k)' = Handled(k)
        BY <1>6, <2>2 DEF Handled
      <3>2. \A d \in Calls : ServerOf(d)' = k /\ Claims(d)' => Claims(d) /\ ServerOf(d) = k
        BY <1>10, <1>12, <1>13
      <3> QED BY <2>1, <3>1, <3>2
    <2>3. CASE k = i
      <3>1. Handled(k)' = Handled(k) \cup {a} /\ a \notin Handled(k)
        <4>1. \A b \in Accounts : handles'[k][b] # None <=> handles[k][b] # None \/ b = a
          BY <1>3, <1>6, <2>3
        <4>2. Handled(k)' = {b \in Accounts : handles'[k][b] # None}
          BY DEF Handled
        <4>3. Handled(k) = {b \in Accounts : handles[k][b] # None}
          BY DEF Handled
        <4>4. a \in Accounts /\ handles[k][a] = None
          BY <1>1, <2>3
        <4> HIDE DEF a
        <4> QED BY ONLY <4>1, <4>2, <4>3, <4>4
      <3>2. /\ IsFiniteSet(Handled(k) \cup {a})
            /\ Cardinality(Handled(k) \cup {a}) = Cardinality(Handled(k)) + 1
        BY <2>1, <3>1, FS_AddElement
      <3>3. Cardinality(Handled(k)) \in Nat /\ MaxWorkers \in Nat \ {0}
        BY <2>1, FS_CardinalityType, JobFacts
      <3>4. Cardinality(Handled(k)) < MaxWorkers
        BY <1>12, <2>1, <2>3
      <3>5. Cardinality(Handled(k) \cup {a}) <= MaxWorkers
        BY ONLY <3>2, <3>3, <3>4
      <3>6. \A d \in Calls : ServerOf(d)' = k => ~Claims(d)'
        <4>1. ASSUME NEW d \in Calls, ServerOf(d)' = k, Claims(d)' PROVE FALSE
          <5>1. d # c /\ Claims(d)
            BY <1>12, <1>13, <4>1
          <5>2. call[d].at \in Locked
            BY <5>1 DEF Claims, Stopping, Locked
          <5> QED BY <1>10, <1>11, <2>3, <4>1, <5>1, <5>2
        <4> QED BY <4>1
      <3> QED BY <3>1, <3>2, <3>5, <3>6
    <2> QED BY <2>2, <2>3
  <1>22. PoolsOK'
    <2>1. (\A d \in Calls : call[d].at \in Locked \ {"register"} => HandleOf(d) = None)'
      BY <1>10, <1>16 DEF HandleOf
    <2>2. (\A k \in Instances, b \in Accounts :
              Alive(handles[k][b]) => worker[handles[k][b]].acct = b /\ worker[handles[k][b]].by = k)'
      BY <1>17
    <2>3. (\A k \in Instances :
              /\ IsFiniteSet(Handled(k))
              /\ Cardinality(Handled(k)) <= MaxWorkers
              /\ \A d \in Calls : ServerOf(d) = k /\ Claims(d) => Cardinality(Handled(k)) < MaxWorkers)'
      BY <1>21
    <2> QED BY <1>10, <1>14, <1>15, <1>18, <1>19, <1>20, <2>1, <2>2, <2>3 DEF PoolsOK
  <1> QED BY <1>8, <1>9, <1>22

-----------------------------------------------------------------------------
(* The workers, and time. *)

\* A worker goes on without a queue: it reports, goes back to work, or ends.
LEMMA WorkerHolds ==
    ASSUME JobInv, NEW w \in Workers, NEW new \in WorkerState,
           worker' = [worker EXCEPT ![w] = new],
           \/ new = DeadWorker
           \/ /\ worker[w].at # "dead" /\ new.at # "dead"
              /\ new.acct = worker[w].acct /\ new.by = worker[w].by
              /\ \/ new.job = None /\ new.at \notin {"popped", "taken", "pushed"}
                 \/ /\ worker[w].at = "taken" /\ new.at = "pushed"
                    /\ new.job = worker[w].job /\ new.outcome = worker[w].outcome,
           results' \in [Jobs -> Seq({"ok", "failed"})],
           \A j \in Jobs : results'[j] # <<>> => taken[j] = 1,
           creds' \subseteq Accounts,
           UNCHANGED <<queue, registry, handles, lock, call, taken, told, restarts, scene>>
    PROVE  JobInv'
  <1> USE DEF JobInv
  <1>1. worker \in [Workers -> WorkerState] /\ call \in [Calls -> CallState]
    BY DEF TypeOK
  <1>2. /\ worker' \in [Workers -> WorkerState] /\ worker'[w] = new
        /\ \A v \in Workers : v # w => worker'[v] = worker[v]
    BY <1>1
  <1>3. DeadWorker.at = "dead" /\ DeadWorker.job = None
    BY DEF DeadWorker
  <1>4. \A v \in Workers : WorkerGoesOn(v)
    BY <1>2, <1>3 DEF WorkerGoesOn
  <1>5. \A j \in Jobs : ToldInOrder(j)
    BY DEF ToldInOrder
  <1>6. \A c \in Calls : CallOK(c)' /\ call'[c].job \in {call[c].job, None}
    BY CallSame DEF TripsOK
  <1>7. \A v \in Workers : worker'[v].at # "dead" =>
           worker[v].at # "dead" /\ worker'[v].acct = worker[v].acct /\ worker'[v].by = worker[v].by
    BY <1>2, <1>3
  <1>8. TypeOK'
    BY <1>2 DEF TypeOK
  <1>9. TypeOK /\ TripsOK /\ PoolsOK
    OBVIOUS
  <1> HIDE DEF TypeOK, TripsOK, PoolsOK, CallOK, WorkerGoesOn, ToldInOrder
  <1>10. TripsOK'
    BY <1>4, <1>5, <1>6, <1>9, TripsKept
  <1>11. PoolsOK'
    BY <1>1, <1>7, <1>9, PoolsWorker
  <1> QED BY <1>8, <1>10, <1>11

\* Two workers can have the same credentials only if they read them before either
\* deleted them; for the orders and the pools that is no matter.
LEMMA TerminalHolds ==
    ASSUME JobInv, NEW w \in Workers,
           \/ FetchCredentials(w) \/ \E connected \in BOOLEAN : Connect(w, connected)
           \/ IdleOut(w) \/ WorkerCrashes(w) \/ ExpireIsSet(w)
    PROVE  JobInv'
  <1> USE DEF JobInv
  <1>1. /\ worker \in [Workers -> WorkerState] /\ worker[w] \in WorkerState
        /\ results \in [Jobs -> Seq({"ok", "failed"})] /\ creds \subseteq Accounts
        /\ \A j \in Jobs : results[j] # <<>> => taken[j] = 1
        /\ WorkerOK(w)
    BY DEF TypeOK, TripsOK
  <1>2. /\ UNCHANGED <<queue, registry, handles, lock, call, taken, told, restarts, scene, results>>
        /\ creds' \subseteq Accounts
    BY <1>1 DEF FetchCredentials, Connect, IdleOut, WorkerCrashes, ExpireIsSet, redisVars
  <1>3. DeadWorker \in WorkerState
    BY IdleCallType
  <1>4. \E new \in WorkerState :
           /\ worker' = [worker EXCEPT ![w] = new]
           /\ \/ new = DeadWorker
              \/ /\ worker[w].at # "dead" /\ new.at # "dead"
                 /\ new.acct = worker[w].acct /\ new.by = worker[w].by
                 /\ new.job = None /\ new.at \notin {"popped", "taken", "pushed"}
    <2>1. CASE Exit(w)
      BY <1>3, <2>1 DEF Exit
    <2>2. CASE worker[w].at = "started" /\ worker' = [worker EXCEPT ![w].at = "connecting"]
      <3>1. [worker[w] EXCEPT !.at = "connecting"] \in WorkerState
        BY <1>1 DEF WorkerState
      <3>2. worker[w].job = None
        BY <1>1, <2>2 DEF WorkerOK
      <3> QED BY <1>1, <2>2, <3>1, <3>2 DEF WorkerState
    <2>3. CASE worker[w].at = "connecting" /\ worker' = [worker EXCEPT ![w].at = "ready"]
      <3>1. [worker[w] EXCEPT !.at = "ready"] \in WorkerState
        BY <1>1 DEF WorkerState
      <3>2. worker[w].job = None
        BY <1>1, <2>3 DEF WorkerOK
      <3> QED BY <1>1, <2>3, <3>1, <3>2 DEF WorkerState
    <2>4. CASE worker[w].at = "pushed" /\ Back(w)
      <3>1. [worker[w] EXCEPT !.at = "ready", !.job = None, !.outcome = "none"] \in WorkerState
        BY <1>1 DEF WorkerState
      <3> QED BY <1>1, <2>4, <3>1 DEF WorkerState, Back
    <2> QED BY <2>1, <2>2, <2>3, <2>4
          DEF FetchCredentials, Connect, IdleOut, WorkerCrashes, ExpireIsSet
  <1>5. PICK new \in WorkerState :
           /\ worker' = [worker EXCEPT ![w] = new]
           /\ \/ new = DeadWorker
              \/ /\ worker[w].at # "dead" /\ new.at # "dead"
                 /\ new.acct = worker[w].acct /\ new.by = worker[w].by
                 /\ new.job = None /\ new.at \notin {"popped", "taken", "pushed"}
    BY <1>4
  <1>6. results' \in [Jobs -> Seq({"ok", "failed"})] /\ \A j \in Jobs : results'[j] # <<>> => taken[j] = 1
    BY <1>1, <1>2
  <1> HIDE DEF JobInv
  <1> QED BY <1>2, <1>5, <1>6, WorkerHolds

\* What a worker reports is about the order it has taken up.
LEMMA ReportHolds ==
    ASSUME JobInv, NEW w \in Workers, PushResult(w) \/ ExpireFails(w)
    PROVE  JobInv'
  <1> USE DEF JobInv
  <1> DEFINE j == worker[w].job
  <1>1. /\ worker \in [Workers -> WorkerState] /\ worker[w] \in WorkerState
        /\ results \in [Jobs -> Seq({"ok", "failed"})] /\ creds \subseteq Accounts
        /\ \A k \in Jobs : results[k] # <<>> => taken[k] = 1
        /\ worker[w].at \in {"taken", "pushed"} /\ WorkerOK(w)
    BY DEF TypeOK, TripsOK, PushResult, ExpireFails
  <1>2. j \in Jobs /\ taken[j] = 1 /\ worker[w].outcome \in {"ok", "failed"}
    BY <1>1 DEF WorkerOK, WorkerState
  <1>3. UNCHANGED <<queue, creds, registry, handles, lock, call, taken, told, restarts, scene>>
    BY DEF PushResult, ExpireFails
  <1>4. \/ results' = results
        \/ \E answer \in {"ok", "failed"} : results' = [results EXCEPT ![j] = <<answer>> \o @]
    BY <1>2 DEF PushResult, ExpireFails, Push
  <1>5. results' \in [Jobs -> Seq({"ok", "failed"})] /\ \A k \in Jobs : results'[k] # <<>> => taken[k] = 1
    <2>1. CASE results' = results
      BY <1>1, <2>1
    <2>2. CASE \E answer \in {"ok", "failed"} : results' = [results EXCEPT ![j] = <<answer>> \o @]
      <3>1. PICK answer \in {"ok", "failed"} : results' = [results EXCEPT ![j] = <<answer>> \o @]
        BY <2>2
      <3>2. <<answer>> \o results[j] \in Seq({"ok", "failed"})
        BY <1>1, <1>2
      <3> HIDE DEF j
      <3> QED BY <1>1, <1>2, <3>1, <3>2
    <2> QED BY <1>4, <2>1, <2>2
  <1>6. DeadWorker \in WorkerState
    BY IdleCallType
  <1>7. \E new \in WorkerState :
           /\ worker' = [worker EXCEPT ![w] = new]
           /\ \/ new = DeadWorker
              \/ /\ worker[w].at # "dead" /\ new.at # "dead"
                 /\ new.acct = worker[w].acct /\ new.by = worker[w].by
                 /\ \/ new.job = None /\ new.at \notin {"popped", "taken", "pushed"}
                    \/ /\ worker[w].at = "taken" /\ new.at = "pushed"
                       /\ new.job = worker[w].job /\ new.outcome = worker[w].outcome
    <2>1. CASE Exit(w)
      BY <1>6, <2>1 DEF Exit
    <2>2. CASE worker[w].at = "taken" /\ worker' = [worker EXCEPT ![w].at = "pushed"]
      <3>1. [worker[w] EXCEPT !.at = "pushed"] \in WorkerState
        BY <1>1 DEF WorkerState
      <3> QED BY <1>1, <2>2, <3>1 DEF WorkerState
    <2>3. CASE worker[w].at = "pushed" /\ Back(w)
      <3>1. [worker[w] EXCEPT !.at = "ready", !.job = None, !.outcome = "none"] \in WorkerState
        BY <1>1 DEF WorkerState
      <3> QED BY <1>1, <2>3, <3>1 DEF WorkerState, Back
    <2> QED BY <2>1, <2>2, <2>3 DEF PushResult, ExpireFails
  <1>8. PICK new \in WorkerState :
           /\ worker' = [worker EXCEPT ![w] = new]
           /\ \/ new = DeadWorker
              \/ /\ worker[w].at # "dead" /\ new.at # "dead"
                 /\ new.acct = worker[w].acct /\ new.by = worker[w].by
                 /\ \/ new.job = None /\ new.at \notin {"popped", "taken", "pushed"}
                    \/ /\ worker[w].at = "taken" /\ new.at = "pushed"
                       /\ new.job = worker[w].job /\ new.outcome = worker[w].outcome
    BY <1>7
  <1>9. creds' \subseteq Accounts
    BY <1>1, <1>3
  <1> HIDE DEF JobInv, j
  <1> QED BY <1>3, <1>5, <1>8, <1>9, WorkerHolds

\* The execution service is called for an order that was popped: for the first time.
LEMMA ExecuteHolds ==
    ASSUME JobInv, NEW w \in Workers, NEW outcome \in {"ok", "failed"}, Execute(w, outcome)
    PROVE  JobInv'
  <1> USE DEF JobInv
  <1> DEFINE j == worker[w].job
             new == [worker[w] EXCEPT !.at = "taken", !.outcome = outcome]
  <1>1. /\ worker \in [Workers -> WorkerState] /\ worker[w] \in WorkerState
        /\ taken \in [Jobs -> Nat] /\ worker[w].at = "popped" /\ WorkerOK(w)
        /\ UNCHANGED <<redisVars, handles, lock, call, told, restarts, scene>>
    BY DEF TypeOK, TripsOK, Execute
  <1>2. j \in Jobs /\ j # None /\ taken[j] = 0 /\ told[j] \in {"waiting", "unknown"}
    BY <1>1 DEF WorkerOK, WorkerState
  <1>3. new \in WorkerState /\ new.at = "taken" /\ new.outcome = outcome /\ new.job = j
        /\ new.acct = worker[w].acct /\ new.by = worker[w].by
    BY <1>1 DEF WorkerState
  <1>4. worker' = [worker EXCEPT ![w] = new] /\ taken' = [taken EXCEPT ![j] = 1]
    <2>1. worker' = [worker EXCEPT ![w] = new]
      BY DEF Execute
    <2>2. taken' = [taken EXCEPT ![j] = taken[j] + 1]
      BY DEF Execute
    <2>3. taken[j] + 1 = 1
      BY <1>2
    <2> QED BY <2>1, <2>2, <2>3
  <1> HIDE DEF new
  <1>5. /\ worker' \in [Workers -> WorkerState] /\ worker'[w] = new
        /\ \A v \in Workers : v # w => worker'[v] = worker[v]
    BY <1>1, <1>3, <1>4
  <1>6. taken' \in [Jobs -> Nat] /\ taken'[j] = 1 /\ \A k \in Jobs : k # j => taken'[k] = taken[k]
    BY <1>1, <1>2, <1>4
  <1>7. TypeOK'
    BY <1>1, <1>5, <1>6 DEF TypeOK, redisVars
  <1>8. PoolsOK'
    <2>1. \A v \in Workers : worker'[v].at # "dead" =>
             worker[v].at # "dead" /\ worker'[v].acct = worker[v].acct /\ worker'[v].by = worker[v].by
      BY <1>1, <1>3, <1>5
    <2>2. call' = call /\ call \in [Calls -> CallState] /\ UNCHANGED <<scene, lock, handles>>
      BY <1>1 DEF TypeOK
    <2>3. TypeOK /\ PoolsOK
      OBVIOUS
    <2> HIDE DEF TypeOK, PoolsOK
    <2> QED BY <2>1, <2>2, <2>3, PoolsWorker
  <1>9. UNCHANGED <<queue, results, call, told>>
    BY <1>1 DEF redisVars
  <1>10. ~Queued(j)
    BY <1>2 DEF TripsOK
  <1>11. ASSUME NEW v \in Workers PROVE WorkerOK(v)'
    <2>1. CASE v = w
      BY <1>2, <1>3, <1>5, <1>6, <2>1 DEF WorkerOK
    <2>2. CASE v # w
      <3>1. worker'[v] = worker[v] /\ WorkerOK(v) /\ worker[v].job \in Jobs \cup {None}
        BY <1>5, <2>2 DEF TripsOK, TypeOK, WorkerState
      <3>2. CASE worker[v].job = j
        <4>1. worker[v].at # "popped"
          BY <1>1, <2>2, <3>2 DEF TripsOK
        <4> QED BY <1>6, <3>1, <3>2, <4>1 DEF WorkerOK
      <3>3. CASE worker[v].job # j
        BY <1>6, <1>9, <3>1, <3>3 DEF WorkerOK
      <3> QED BY <3>2, <3>3
    <2> QED BY <2>1, <2>2
  <1>12. ASSUME NEW v \in Workers, NEW u \in Workers, worker'[v].at = "popped", worker'[u].at = "popped",
                worker'[v].job = worker'[u].job
         PROVE  v = u
    <2>1. v # w /\ u # w
      BY <1>3, <1>5, <1>12
    <2> QED BY <1>5, <1>12, <2>1 DEF TripsOK
  <1>13. ASSUME NEW k \in Jobs
         PROVE  /\ taken'[k] \in {0, 1}
                /\ told'[k] \in {"nothing", "refused"} => taken'[k] = 0
                /\ results'[k] # <<>> => taken'[k] = 1
                /\ Queued(k)' => /\ taken'[k] = 0 /\ told'[k] \in {"waiting", "unknown"}
                                 /\ \A v \in Workers : worker'[v].job # k
    <2>1. Queued(k)' => Queued(k)
      BY <1>9 DEF Queued
    <2>2. \A v \in Workers : worker'[v].job = worker[v].job
      BY <1>3, <1>5
    <2>3. CASE k = j
      BY <1>2, <1>6, <1>9, <1>10, <2>1, <2>3
    <2>4. CASE k # j
      BY <1>6, <1>9, <2>1, <2>2, <2>4 DEF TripsOK
    <2> QED BY <2>3, <2>4
  <1>14. \A c \in Calls : CallOK(c)'
    BY <1>9, CallSame DEF TripsOK
  <1>15. /\ \A c, d \in Calls : call'[c].job # None /\ call'[c].job = call'[d].job => c = d
         /\ \A a, b \in Accounts : \A m \in 1..Len(queue'[a]), n \in 1..Len(queue'[b]) :
               queue'[a][m] # STOP /\ queue'[a][m] = queue'[b][n] => a = b /\ m = n
    BY <1>9 DEF TripsOK
  <1> HIDE DEF CallOK, WorkerOK, Queued, j
  <1>16. TripsOK'
    BY <1>11, <1>12, <1>13, <1>14, <1>15 DEF TripsOK
  <1> QED BY <1>7, <1>8, <1>16

\* What is left of a queue without its oldest job.
LEMMA Popped ==
    ASSUME NEW X, queue \in [Accounts -> Seq(X)], NEW a \in Accounts, queue[a] # <<>>,
           queue' = [queue EXCEPT ![a] = Tail(@)]
    PROVE  /\ queue' \in [Accounts -> Seq(X)]
           /\ Head(queue[a]) = queue[a][1] /\ Head(queue[a]) \in X
           /\ \A b \in Accounts : b # a => queue'[b] = queue[b]
           /\ 1 \in 1..Len(queue[a])
           /\ \A n \in 1..Len(queue'[a]) : n + 1 \in 1..Len(queue[a]) /\ queue'[a][n] = queue[a][n + 1]
  <1>1. queue[a] \in Seq(X) /\ queue'[a] = Tail(queue[a])
    OBVIOUS
  <1>2. /\ Tail(queue[a]) \in Seq(X) /\ Head(queue[a]) = queue[a][1] /\ Head(queue[a]) \in X
        /\ 1 \in 1..Len(queue[a])
        /\ \A n \in 1..Len(Tail(queue[a])) : n + 1 \in 1..Len(queue[a]) /\ Tail(queue[a])[n] = queue[a][n + 1]
    BY <1>1
  <1> QED BY <1>1, <1>2

\* An order that leaves its queue was in no other place; one worker has it now.
LEMMA PopHolds ==
    ASSUME JobInv, NEW w \in Workers, PopJob(w)
    PROVE  JobInv'
  <1> USE DEF JobInv
  <1> DEFINE a == worker[w].acct
             X == Jobs \cup {STOP}
  <1>0. PICK j : j = Head(queue[a])
    OBVIOUS
  <1> DEFINE new == IF j = STOP THEN DeadWorker ELSE [worker[w] EXCEPT !.at = "popped", !.job = j]
  <1>1. /\ worker \in [Workers -> WorkerState] /\ worker[w] \in WorkerState
        /\ queue \in [Accounts -> Seq(X)] /\ call \in [Calls -> CallState]
        /\ worker[w].at = "ready" /\ queue[a] # <<>> /\ queue' = [queue EXCEPT ![a] = Tail(@)]
        /\ UNCHANGED <<results, creds, registry, handles, lock, call, taken, told, restarts, scene>>
    BY DEF TypeOK, PopJob, RestOf
  <1>2. a \in Accounts
    BY <1>1, JobFacts DEF PoolsOK, Alive
  <1>3. /\ queue' \in [Accounts -> Seq(X)]
        /\ j = queue[a][1] /\ j \in X
        /\ \A b \in Accounts : b # a => queue'[b] = queue[b]
        /\ 1 \in 1..Len(queue[a])
        /\ \A n \in 1..Len(queue'[a]) : n + 1 \in 1..Len(queue[a]) /\ queue'[a][n] = queue[a][n + 1]
    <2> HIDE DEF X, a
    <2> QED BY <1>0, <1>1, <1>2, Popped
  <1>4. /\ new \in WorkerState
        /\ j = STOP => new = DeadWorker
        /\ j # STOP => /\ j \in Jobs /\ new.at = "popped" /\ new.job = j
                       /\ new.acct = a /\ new.by = worker[w].by
    <2>1. CASE j = STOP
      BY <2>1, IdleCallType
    <2>2. CASE j # STOP
      <3>1. j \in Jobs
        BY <1>3, <2>2
      <3> QED BY <1>1, <2>2, <3>1 DEF WorkerState
    <2> QED BY <2>1, <2>2
  <1>5. worker' = [worker EXCEPT ![w] = new]
    BY <1>0, <1>1 DEF PopJob, Exit
  <1> HIDE DEF new
  <1>6. /\ worker' \in [Workers -> WorkerState] /\ worker'[w] = new
        /\ \A v \in Workers : v # w => worker'[v] = worker[v]
    BY <1>1, <1>4, <1>5
  <1>7. TypeOK'
    BY <1>1, <1>3, <1>6 DEF TypeOK
  <1>8. PoolsOK'
    <2>1. \A v \in Workers : worker'[v].at # "dead" =>
             worker[v].at # "dead" /\ worker'[v].acct = worker[v].acct /\ worker'[v].by = worker[v].by
      BY <1>1, <1>4, <1>6 DEF DeadWorker
    <2>2. TypeOK /\ PoolsOK
      OBVIOUS
    <2> HIDE DEF TypeOK, PoolsOK
    <2> QED BY <1>1, <2>1, <2>2, PoolsWorker
  <1>9. j # STOP => Queued(j)
    BY <1>2, <1>3 DEF Queued
  <1> HIDE DEF X
  <1>old. \A b, d \in Accounts : \A m \in 1..Len(queue[b]), n \in 1..Len(queue[d]) :
            queue[b][m] # STOP /\ queue[b][m] = queue[d][n] => b = d /\ m = n
    BY DEF TripsOK
  <1>10. \A b \in Accounts : \A n \in 1..Len(queue'[b]) :
            \E m \in 1..Len(queue[b]) : queue'[b][n] = queue[b][m] /\ m = (IF b = a THEN n + 1 ELSE n)
    BY <1>3
  <1>11. \A k \in Jobs : Queued(k)' => Queued(k)
    BY <1>10 DEF Queued
  <1>12. ASSUME NEW b \in Accounts, NEW d \in Accounts, NEW m \in 1..Len(queue'[b]), NEW n \in 1..Len(queue'[d]),
                queue'[b][m] # STOP, queue'[b][m] = queue'[d][n]
         PROVE  b = d /\ m = n
    <2>1. PICK s \in 1..Len(queue[b]) : queue'[b][m] = queue[b][s] /\ s = (IF b = a THEN m + 1 ELSE m)
      BY <1>10
    <2>2. PICK t \in 1..Len(queue[d]) : queue'[d][n] = queue[d][t] /\ t = (IF d = a THEN n + 1 ELSE n)
      BY <1>10
    <2>3. b = d /\ s = t
      <3>1. queue[b][s] # STOP /\ queue[b][s] = queue[d][t]
        BY ONLY <1>12, <2>1, <2>2
      <3> QED BY ONLY <1>old, <3>1
    <2>4. m \in Nat /\ n \in Nat
      BY <1>3
    <2> QED BY ONLY <2>1, <2>2, <2>3, <2>4
  <1>13. j # STOP => ~Queued(j)'
    <2>0. SUFFICES ASSUME j # STOP, Queued(j)' PROVE FALSE
      OBVIOUS
    <2>1. PICK b \in Accounts : \E n \in 1..Len(queue'[b]) : queue'[b][n] = j
      BY <2>0 DEF Queued
    <2>2. PICK n \in 1..Len(queue'[b]) : queue'[b][n] = j
      BY <2>1
    <2>3. PICK s \in 1..Len(queue[b]) : queue'[b][n] = queue[b][s] /\ s = (IF b = a THEN n + 1 ELSE n)
      BY <1>10
    <2>4. b = a /\ s = 1
      <3>1. queue[b][s] # STOP /\ queue[b][s] = queue[a][1]
        BY ONLY <1>3, <2>0, <2>2, <2>3
      <3> QED BY ONLY <1>2, <1>3, <1>old, <3>1
    <2>5. n \in Nat \ {0}
      BY <1>3
    <2> QED BY <2>3, <2>4, <2>5
  <1>14. j # STOP => taken[j] = 0 /\ told[j] \in {"waiting", "unknown"} /\ \A v \in Workers : worker[v].job # j
    BY <1>4, <1>9 DEF TripsOK
  <1>15. DeadWorker.at = "dead" /\ DeadWorker.job = None
    BY DEF DeadWorker
  <1>16. ASSUME NEW v \in Workers PROVE WorkerOK(v)'
    <2>1. CASE v = w
      BY <1>1, <1>4, <1>6, <1>14, <1>15, <2>1, JobFacts DEF WorkerOK
    <2>2. CASE v # w
      BY <1>1, <1>6, <2>2 DEF TripsOK, WorkerOK
    <2> QED BY <2>1, <2>2
  <1>17. ASSUME NEW v \in Workers, NEW u \in Workers, worker'[v].at = "popped", worker'[u].at = "popped",
                worker'[v].job = worker'[u].job
         PROVE  v = u
    <2>1. v # w /\ u # w => v = u
      BY <1>6, <1>17 DEF TripsOK
    <2>2. (v = w /\ u # w) \/ (u = w /\ v # w) => FALSE
      BY <1>4, <1>6, <1>14, <1>15, <1>17
    <2> QED BY <2>1, <2>2
  <1>18. ASSUME NEW k \in Jobs
         PROVE  /\ taken'[k] \in {0, 1}
                /\ told'[k] \in {"nothing", "refused"} => taken'[k] = 0
                /\ results'[k] # <<>> => taken'[k] = 1
                /\ Queued(k)' => /\ taken'[k] = 0 /\ told'[k] \in {"waiting", "unknown"}
                                 /\ \A v \in Workers : worker'[v].job # k
    <2>1. /\ taken[k] \in {0, 1}
          /\ told[k] \in {"nothing", "refused"} => taken[k] = 0
          /\ results[k] # <<>> => taken[k] = 1
          /\ Queued(k) => /\ taken[k] = 0 /\ told[k] \in {"waiting", "unknown"}
                          /\ \A v \in Workers : worker[v].job # k
      BY DEF TripsOK
    <2>2. Queued(k)' => \A v \in Workers : worker'[v].job # k
      <3>0. SUFFICES ASSUME Queued(k)', NEW v \in Workers, worker'[v].job = k PROVE FALSE
        OBVIOUS
      <3>1. worker[v].job # k
        BY <1>11, <2>1, <3>0
      <3>2. v = w /\ new.job = k
        BY <1>6, <3>0, <3>1
      <3>3. j # STOP /\ k = j
        BY <1>4, <1>15, <3>2, JobFacts
      <3> QED BY <1>13, <3>0, <3>3
    <2> QED BY <1>1, <1>11, <2>1, <2>2
  <1>19. \A c \in Calls : CallOK(c)'
    BY <1>1, CallSame DEF TripsOK
  <1>20. \A c, d \in Calls : call'[c].job # None /\ call'[c].job = call'[d].job => c = d
    BY <1>1 DEF TripsOK
  <1> HIDE DEF CallOK, WorkerOK, Queued
  <1>21. TripsOK'
    BY <1>12, <1>16, <1>17, <1>18, <1>19, <1>20 DEF TripsOK
  <1> QED BY <1>7, <1>8, <1>21

\* Keys expire.
LEMMA TimeHolds ==
    ASSUME JobInv,
           \/ \E a \in Accounts : CredentialsExpire(a) \/ RegistryAges(a)
           \/ \E j \in Jobs : ResultExpires(j)
           \/ UNCHANGED vars
    PROVE  JobInv'
  <1> USE DEF JobInv
  <1>1. /\ results \in [Jobs -> Seq({"ok", "failed"})] /\ creds \subseteq Accounts
        /\ registry \in [Accounts -> Entry] /\ call \in [Calls -> CallState]
        /\ \A j \in Jobs : results[j] # <<>> => taken[j] = 1
    BY DEF TypeOK, TripsOK
  <1>2. UNCHANGED <<queue, handles, lock, call, worker, taken, told, restarts, scene>>
    BY DEF CredentialsExpire, RegistryAges, ResultExpires, vars
  <1>3. creds' \subseteq Accounts
    BY <1>1 DEF CredentialsExpire, RegistryAges, ResultExpires, vars
  <1>4. results' \in [Jobs -> Seq({"ok", "failed"})] /\ \A j \in Jobs : results'[j] # <<>> => taken[j] = 1
    <2>1. results' = results \/ \E j \in Jobs : results' = [results EXCEPT ![j] = <<>>]
      BY DEF CredentialsExpire, RegistryAges, ResultExpires, vars
    <2>2. <<>> \in Seq({"ok", "failed"})
      OBVIOUS
    <2> QED BY <1>1, <2>1, <2>2
  <1>5. registry' \in [Accounts -> Entry]
    <2>1. CASE registry' = registry
      BY <1>1, <2>1
    <2>2. CASE \E a \in Accounts : registry' = [registry EXCEPT ![a].old = TRUE]
      <3>1. PICK a \in Accounts : registry' = [registry EXCEPT ![a].old = TRUE]
        BY <2>2
      <3>2. [registry[a] EXCEPT !.old = TRUE] \in Entry
        BY <1>1 DEF Entry
      <3> QED BY <1>1, <3>1, <3>2
    <2> QED BY <2>1, <2>2 DEF CredentialsExpire, RegistryAges, ResultExpires, vars
  <1>6. TypeOK'
    BY <1>2, <1>3, <1>4, <1>5 DEF TypeOK
  <1>7. \A w \in Workers : WorkerGoesOn(w)
    BY <1>2 DEF WorkerGoesOn
  <1>8. \A j \in Jobs : ToldInOrder(j)
    BY <1>2 DEF ToldInOrder
  <1>9. \A c \in Calls : CallOK(c)' /\ call'[c].job \in {call[c].job, None}
    BY <1>2, CallSame DEF TripsOK
  <1>10. TypeOK /\ TripsOK /\ PoolsOK
    OBVIOUS
  <1> HIDE DEF TypeOK, TripsOK, PoolsOK, CallOK, WorkerGoesOn, ToldInOrder
  <1>11. TripsOK'
    BY <1>2, <1>4, <1>7, <1>8, <1>9, <1>10, TripsKept
  <1>12. PoolsOK'
    BY <1>1, <1>2, <1>10, PoolsWorker
  <1> QED BY <1>6, <1>11, <1>12

\* The requests and handles of a server that restarts are gone; its workers live on
\* as those of a former instance, which no pool knows.
LEMMA RestartHolds ==
    ASSUME JobInv, NEW i \in Instances, ServerRestarts(i)
    PROVE  JobInv'
  <1> USE DEF JobInv
  <1> DEFINE Given(j) == \E c \in Calls : ServerOf(c) = i /\ call[c].job = j /\ told[j] = "waiting"
             Left(w) == IF worker[w].by = i THEN [worker[w] EXCEPT !.by = Former] ELSE worker[w]
             Entered(a) == IF registry[a].by = i THEN [registry[a] EXCEPT !.by = Former] ELSE registry[a]
  <1>1. /\ call \in [Calls -> CallState] /\ worker \in [Workers -> WorkerState]
        /\ handles \in [Instances -> [Accounts -> Workers \cup {None}]]
        /\ lock \in [Instances -> Calls \cup {None}] /\ registry \in [Accounts -> Entry]
        /\ told \in [Jobs -> R!Told] /\ restarts \in 0..MaxRestarts
        /\ \A c \in Calls : ServerOf(c) \in Instances
    BY ServerType DEF TypeOK
  <1>2. /\ restarts < MaxRestarts /\ restarts' = restarts + 1
        /\ registry' = [a \in Accounts |-> Entered(a)]
        /\ worker' = [w \in Workers |-> Left(w)]
        /\ handles' = [handles EXCEPT ![i] = [a \in Accounts |-> None]]
        /\ lock' = [lock EXCEPT ![i] = None]
        /\ call' = [c \in Calls |-> IF ServerOf(c) = i THEN IdleCall ELSE call[c]]
        /\ told' = [j \in Jobs |-> IF Given(j) THEN "unknown" ELSE told[j]]
        /\ UNCHANGED <<queue, results, creds, taken, scene>>
    BY DEF ServerRestarts
  <1> HIDE DEF Given
  <1>3. ASSUME NEW w \in Workers
        PROVE  /\ Left(w) \in WorkerState
               /\ Left(w).at = worker[w].at /\ Left(w).acct = worker[w].acct /\ Left(w).job = worker[w].job
               /\ Left(w).outcome = worker[w].outcome
               /\ Left(w).by = IF worker[w].by = i THEN Former ELSE worker[w].by
    BY <1>1 DEF WorkerState
  <1>4. \A a \in Accounts : Entered(a) \in Entry
    BY <1>1 DEF Entry
  <1> HIDE DEF Left, Entered
  <1>5. \A w \in Workers :
           /\ worker'[w].at = worker[w].at /\ worker'[w].acct = worker[w].acct /\ worker'[w].job = worker[w].job
           /\ worker'[w].outcome = worker[w].outcome
           /\ worker'[w].by = IF worker[w].by = i THEN Former ELSE worker[w].by
    BY <1>2, <1>3
  <1>6. \A c \in Calls : call'[c] = IF ServerOf(c) = i THEN IdleCall ELSE call[c]
    BY <1>2
  <1>7. \A k \in Instances, a \in Accounts : handles'[k][a] = IF k = i THEN None ELSE handles[k][a]
    BY <1>1, <1>2
  <1>8. \A k \in Instances : lock'[k] = IF k = i THEN None ELSE lock[k]
    BY <1>1, <1>2
  <1>9. TypeOK'
    <2>1. worker' \in [Workers -> WorkerState] /\ registry' \in [Accounts -> Entry]
      BY <1>2, <1>3, <1>4
    <2>2. call' \in [Calls -> CallState]
      BY <1>1, <1>2, IdleCallType
    <2>3. handles' \in [Instances -> [Accounts -> Workers \cup {None}]]
          /\ lock' \in [Instances -> Calls \cup {None}]
      BY <1>1, <1>2
    <2>4. told' \in [Jobs -> R!Told]
      BY <1>1, <1>2 DEF R!Told
    <2>5. restarts' \in 0..MaxRestarts
      BY <1>1, <1>2, JobFacts
    <2> QED BY <1>2, <2>1, <2>2, <2>3, <2>4, <2>5 DEF TypeOK
  <1>10. TripsOK'
    <2>1. \A w \in Workers : WorkerGoesOn(w)
      BY <1>5 DEF WorkerGoesOn
    <2>2. \A j \in Jobs : Given(j) => told[j] = "waiting"
      BY DEF Given
    <2>3. \A j \in Jobs : ToldInOrder(j)
      BY <1>2, <2>2 DEF ToldInOrder
    <2>4. ASSUME NEW c \in Calls
          PROVE  CallOK(c)' /\ call'[c].job \in {call[c].job, None}
      <3>1. CASE ServerOf(c) = i
        BY <1>6, <3>1, CallIdle DEF IdleCall
      <3>2. CASE ServerOf(c) # i
        <4>1. call'[c] = call[c] /\ CallOK(c) /\ call[c].job \in Jobs \cup {None}
          BY <1>1, <1>6, <3>2 DEF TripsOK, CallState
        <4>2. call[c].job # None => ~Given(call[c].job)
          BY <3>2 DEF Given, TripsOK
        <4>3. call[c].job # None => told'[call[c].job] = told[call[c].job]
          BY <1>2, <4>1, <4>2
        <4> QED BY <4>1, <4>3, CallSame
      <3> QED BY <3>1, <3>2
    <2>5. \A j \in Jobs : results'[j] # <<>> => taken[j] = 1
      BY <1>2 DEF TripsOK
    <2>6. TypeOK /\ TripsOK /\ UNCHANGED <<queue, taken>>
      BY <1>2
    <2> HIDE DEF TypeOK, TripsOK, CallOK, WorkerGoesOn, ToldInOrder
    <2> QED BY <2>1, <2>3, <2>4, <2>5, <2>6, TripsKept
  <1>11. \A c \in Calls : ServerOf(c)' = ServerOf(c)
    BY <1>2 DEF ServerOf
  <1>12. \A w \in Workers : (Alive(w)' <=> Alive(w))
    BY <1>5 DEF Alive
  <1>13. \A c \in Calls : IF ServerOf(c) = i THEN call'[c].at = "free" /\ ~Stopping(c)' /\ ~Claims(c)'
                          ELSE call'[c] = call[c] /\ (Stopping(c)' <=> Stopping(c)) /\ (Claims(c)' <=> Claims(c))
    BY <1>6 DEF Stopping, Claims, IdleCall
  <1>14. PoolsOK'
    <2>1. (\A c \in Calls : call[c].at # "free" => call[c].acct \in Accounts)'
      BY <1>13 DEF PoolsOK
    <2>2. (\A c \in Calls : call[c].at \in Locked => lock[ServerOf(c)] = c)'
      BY <1>1, <1>8, <1>11, <1>13 DEF PoolsOK, Locked
    <2>3. ASSUME NEW c \in Calls, call'[c].at \in Locked \ {"register"}
          PROVE  HandleOf(c)' = None
      <3>1. ServerOf(c) # i /\ call'[c] = call[c]
        BY <1>13, <2>3 DEF Locked
      <3>2. handles[ServerOf(c)][call[c].acct] = None /\ call[c].acct \in Accounts
        BY <2>3, <3>1 DEF PoolsOK, HandleOf, Locked
      <3> QED BY <1>1, <1>7, <1>11, <3>1, <3>2 DEF HandleOf
    <2>4. ASSUME NEW k \in Instances, NEW a \in Accounts, Alive(handles[k][a])'
          PROVE  worker'[handles'[k][a]].acct = a /\ worker'[handles'[k][a]].by = k
      <3>1. k # i /\ handles'[k][a] = handles[k][a] /\ handles[k][a] # None
        BY <1>7, <2>4 DEF Alive
      <3>2. handles[k][a] \in Workers
        BY <1>1, <3>1
      <3>3. Alive(handles[k][a])
        BY <1>5, <2>4, <3>1, <3>2 DEF Alive
      <3>4. worker[handles[k][a]].acct = a /\ worker[handles[k][a]].by = k
        BY <3>3 DEF PoolsOK
      <3> QED BY <1>5, <3>1, <3>2, <3>4
    <2>5. ASSUME NEW c \in Calls, Stopping(c)', Alive(call[c].proc)'
          PROVE  worker'[call'[c].proc].acct = call'[c].acct /\ worker'[call'[c].proc].by = ServerOf(c)'
      <3>1. ServerOf(c) # i /\ call'[c] = call[c] /\ Stopping(c)
        BY <1>13, <2>5
      <3>2. call[c].proc \in Workers
        BY <1>1, <3>1 DEF Stopping, CallState
      <3>3. Alive(call[c].proc)
        BY <1>5, <2>5, <3>1, <3>2 DEF Alive
      <3>4. worker[call[c].proc].acct = call[c].acct /\ worker[call[c].proc].by = ServerOf(c)
        BY <3>1, <3>3 DEF PoolsOK
      <3> QED BY <1>5, <1>11, <3>1, <3>2, <3>4
    <2>6. (\A w \in Workers : Alive(w) => worker[w].acct \in Accounts)'
      BY <1>5, <1>12 DEF PoolsOK
    <2>7. ASSUME NEW w \in Workers, Alive(w)', worker'[w].by \in Instances
          PROVE  \/ handles'[worker'[w].by][worker'[w].acct] = w
                 \/ \E c \in Calls : ServerOf(c)' = worker'[w].by /\ Stopping(c)' /\ call'[c].proc = w
      <3>1. worker[w].by # i /\ worker'[w].by = worker[w].by /\ worker'[w].acct = worker[w].acct
            /\ Alive(w) /\ worker[w].acct \in Accounts
        BY <1>5, <1>12, <2>7, JobFacts DEF PoolsOK
      <3>2. CASE handles[worker[w].by][worker[w].acct] = w
        BY <1>7, <2>7, <3>1, <3>2
      <3>3. CASE \E c \in Calls : ServerOf(c) = worker[w].by /\ Stopping(c) /\ call[c].proc = w
        BY <1>11, <1>13, <3>1, <3>3
      <3> QED BY <2>7, <3>1, <3>2, <3>3 DEF PoolsOK
    <2>8. ASSUME NEW k \in Instances
          PROVE  /\ IsFiniteSet(Handled(k)')
                 /\ Cardinality(Handled(k)') <= MaxWorkers
                 /\ \A c \in Calls : ServerOf(c)' = k /\ Claims(c)' => Cardinality(Handled(k)') < MaxWorkers
      <3>1. CASE k = i
        <4>1. Handled(k)' = {}
          BY <1>7, <3>1 DEF Handled
        <4>2. IsFiniteSet({}) /\ Cardinality({}) = 0
          BY FS_EmptySet
        <4>3. 0 <= MaxWorkers
          BY JobFacts
        <4> QED BY <1>11, <1>13, <3>1, <4>1, <4>2, <4>3
      <3>2. CASE k # i
        <4>1. Handled(k)' = Handled(k)
          BY <1>7, <3>2 DEF Handled
        <4> QED BY <1>11, <1>13, <3>2, <4>1 DEF PoolsOK
      <3> QED BY <3>1, <3>2
    <2>9. (\A k \in Instances, a \in Accounts :
              Alive(handles[k][a]) => worker[handles[k][a]].acct = a /\ worker[handles[k][a]].by = k)'
      BY <2>4
    <2>10. (\A k \in Instances :
              /\ IsFiniteSet(Handled(k))
              /\ Cardinality(Handled(k)) <= MaxWorkers
              /\ \A c \in Calls : ServerOf(c) = k /\ Claims(c) => Cardinality(Handled(k)) < MaxWorkers)'
      BY <2>8
    <2> QED BY <2>1, <2>2, <2>3, <2>5, <2>6, <2>7, <2>9, <2>10 DEF PoolsOK
  <1> QED BY <1>9, <1>10, <1>14

-----------------------------------------------------------------------------
(* The invariant. *)

\* At first nothing is on its way and no process is known.
LEMMA InitHolds == Init => JobInv
  <1> SUFFICES ASSUME Init PROVE JobInv
    OBVIOUS
  <1>1. /\ scene \in Scenes /\ queue = [a \in Accounts |-> <<>>] /\ results = [j \in Jobs |-> <<>>]
        /\ creds = {} /\ registry = [a \in Accounts |-> NoEntry]
        /\ handles = [i \in Instances |-> [a \in Accounts |-> None]]
        /\ lock = [i \in Instances |-> None] /\ call = [c \in Calls |-> IdleCall]
        /\ worker = [w \in Workers |-> DeadWorker] /\ restarts = 0
        /\ taken = [j \in Jobs |-> 0] /\ told = [j \in Jobs |-> "nothing"]
    BY DEF Init, R!Init
  <1>2. NoEntry \in Entry /\ DeadWorker.at = "dead" /\ DeadWorker.job = None
        /\ IdleCall.at = "free" /\ IdleCall.job = None /\ IdleCall.op = "none"
    BY DEF NoEntry, Entry, DeadWorker, IdleCall
  <1>3. TypeOK
    <2>1. queue \in [Accounts -> Seq(Jobs \cup {STOP})] /\ results \in [Jobs -> Seq({"ok", "failed"})]
      BY <1>1
    <2>2. call \in [Calls -> CallState] /\ worker \in [Workers -> WorkerState]
          /\ registry \in [Accounts -> Entry]
      BY <1>1, <1>2, IdleCallType
    <2>3. /\ handles \in [Instances -> [Accounts -> Workers \cup {None}]]
          /\ lock \in [Instances -> Calls \cup {None}]
          /\ taken \in [Jobs -> Nat] /\ told \in [Jobs -> R!Told]
      BY <1>1 DEF R!Told
    <2>4. restarts \in 0..MaxRestarts
      BY <1>1, JobFacts
    <2> QED BY <1>1, <2>1, <2>2, <2>3, <2>4 DEF TypeOK
  <1>4. \A a \in Accounts : queue[a] = <<>>
    BY <1>1
  <1>5. TripsOK
    <2>1. \A c \in Calls : CallOK(c) /\ call[c].job = None
      BY <1>1, <1>2 DEF CallOK
    <2>2. \A w \in Workers : WorkerOK(w) /\ worker[w].at = "dead"
      BY <1>1, <1>2 DEF WorkerOK
    <2>3. \A j \in Jobs : ~Queued(j)
      BY <1>4 DEF Queued
    <2>4. \A a, b \in Accounts : \A m \in 1..Len(queue[a]), n \in 1..Len(queue[b]) :
              queue[a][m] # STOP /\ queue[a][m] = queue[b][n] => a = b /\ m = n
      BY <1>4
    <2>5. \A j \in Jobs : taken[j] = 0 /\ results[j] = <<>>
      BY <1>1
    <2> HIDE DEF CallOK, WorkerOK, Queued
    <2> QED BY <2>1, <2>2, <2>3, <2>4, <2>5 DEF TripsOK
  <1>6. PoolsOK
    <2>1. \A c \in Calls : call[c].at = "free" /\ ~Stopping(c) /\ ~Claims(c)
      BY <1>1, <1>2 DEF Stopping, Claims
    <2>2. \A w \in Workers : ~Alive(w)
      BY <1>1, <1>2 DEF Alive
    <2>3. \A i \in Instances, a \in Accounts : ~Alive(handles[i][a])
      BY <1>1 DEF Alive
    <2>4. \A i \in Instances : IsFiniteSet(Handled(i)) /\ Cardinality(Handled(i)) = 0
      <3>1. \A i \in Instances : Handled(i) = {}
        BY <1>1 DEF Handled
      <3> QED BY <3>1, FS_EmptySet
    <2>5. 0 <= MaxWorkers
      BY JobFacts
    <2> HIDE DEF Stopping, Claims, Alive
    <2> QED BY <2>1, <2>2, <2>3, <2>4, <2>5 DEF PoolsOK, Locked
  <1> QED BY <1>3, <1>5, <1>6 DEF JobInv

\* Every step keeps the invariant.
LEMMA StepHolds == JobInv /\ [Next]_vars => JobInv'
  <1> SUFFICES ASSUME JobInv, [Next]_vars PROVE JobInv'
    OBVIOUS
  <1>1. ASSUME NEW c \in Calls, NEW a \in Accounts, NEW op \in Ops, Begin(c, a, op) PROVE JobInv'
    BY <1>1, BeginHolds
  <1>2. ASSUME NEW c \in Calls, NEW a \in Accounts, NEW j \in Jobs, BeginOrder(c, a, j) PROVE JobInv'
    BY <1>2, BeginOrderHolds
  <1>3. ASSUME NEW j \in Jobs, RefuseOrder(j) PROVE JobInv'
    BY <1>3, RefuseHolds
  <1>4. ASSUME NEW c \in Calls, CallStep(c) PROVE JobInv'
    BY <1>4, LookHolds, DecideHolds, PurgeHolds, SubmitHolds, CollectHolds, EnsureHolds, LockedHolds,
       SpawnHolds, StopHolds, PostHolds, GoneHolds DEF CallStep
  <1>8. ASSUME NEW c \in Calls, RedisFails(c) PROVE JobInv'
    BY <1>8, FailsHolds
  <1>5. ASSUME NEW w \in Workers,
               WorkerStep(w) \/ Connect(w, FALSE) \/ IdleOut(w) \/ ExpireFails(w) \/ WorkerCrashes(w)
        PROVE  JobInv'
    <2>1. CASE FetchCredentials(w) \/ Connect(w, TRUE) \/ Connect(w, FALSE) \/ IdleOut(w)
               \/ WorkerCrashes(w) \/ ExpireIsSet(w)
      BY <2>1, TerminalHolds
    <2>2. CASE PushResult(w) \/ ExpireFails(w)
      BY <2>2, ReportHolds
    <2>3. CASE \E outcome \in {"ok", "failed"} : Execute(w, outcome)
      BY <2>3, ExecuteHolds
    <2>4. CASE PopJob(w)
      BY <2>4, PopHolds
    <2> QED BY <1>5, <2>1, <2>2, <2>3, <2>4 DEF WorkerStep
  <1>6. ASSUME \/ \E a \in Accounts : CredentialsExpire(a) \/ RegistryAges(a)
               \/ \E j \in Jobs : ResultExpires(j)
               \/ UNCHANGED vars
        PROVE  JobInv'
    BY <1>6, TimeHolds
  <1>7. ASSUME NEW i \in Instances, ServerRestarts(i) PROVE JobInv'
    BY <1>7, RestartHolds
  <1> QED BY <1>1, <1>2, <1>3, <1>4, <1>5, <1>6, <1>7, <1>8 DEF Next

\* Where an order may be on its way, and what the pools know of their processes,
\* holds in every state, whatever fails.
THEOREM JobsInvariant == Spec => []JobInv
  BY InitHolds, StepHolds, PTL DEF Spec

-----------------------------------------------------------------------------
(* What follows: the pools. *)

\* However connects, disconnects and probes of one server interleave, and wherever Redis
\* fails under the lock, the server is never in charge of two live processes for one
\* account, and never of more than its limit: every process of its own is in the handle
\* of its account, or is the one process that the request with the lock is stopping,
\* and that request has made room.  A process whose stop Redis broke off is nobody's.
THEOREM PoolsStayInBounds == Spec => []OneProcessPerServer
  <1>1. JobInv => OneProcessPerServer
    <2> SUFFICES ASSUME JobInv, NEW i \in Instances
                 PROVE  LET own == {w \in Workers : Alive(w) /\ worker[w].by = i} IN
                        /\ \A v, w \in own : worker[v].acct = worker[w].acct => v = w
                        /\ Cardinality(own) <= MaxWorkers
      BY DEF OneProcessPerServer
    <2> DEFINE own == {w \in Workers : Alive(w) /\ worker[w].by = i}
               InStop(w) == \E c \in Calls : ServerOf(c) = i /\ Stopping(c) /\ call[c].proc = w
               served == {worker[w].acct : w \in own}
    <2>1. PoolsOK /\ TypeOK
      BY DEF JobInv
    <2>2. \A w \in own : w \in Workers /\ Alive(w) /\ worker[w].by = i /\ worker[w].acct \in Accounts
      BY <2>1 DEF PoolsOK
    <2>3. \A w \in own : handles[i][worker[w].acct] = w \/ InStop(w)
      BY <2>1, <2>2 DEF PoolsOK
    <2>4. \A c, d \in Calls : Stopping(c) /\ Stopping(d) /\ ServerOf(c) = i /\ ServerOf(d) = i => c = d
      BY <2>1 DEF PoolsOK, Stopping, Locked
    <2>5. ASSUME NEW w \in own, InStop(w)
          PROVE  handles[i][worker[w].acct] = None /\ Cardinality(Handled(i)) < MaxWorkers
      <3>1. PICK c \in Calls : ServerOf(c) = i /\ Stopping(c) /\ call[c].proc = w
        BY <2>5
      <3>2. worker[w].acct = call[c].acct
        BY <2>1, <2>2, <3>1 DEF PoolsOK
      <3>3. HandleOf(c) = None
        BY <2>1, <3>1 DEF PoolsOK, Stopping, Locked
      <3>4. Cardinality(Handled(i)) < MaxWorkers
        BY <2>1, <3>1 DEF PoolsOK, Claims
      <3> QED BY <3>1, <3>2, <3>3, <3>4 DEF HandleOf
    <2>6. ASSUME NEW v \in own, NEW w \in own, worker[v].acct = worker[w].acct
          PROVE  v = w
      <3>1. CASE InStop(v) /\ InStop(w)
        BY <2>4, <3>1
      <3>2. CASE ~InStop(v) /\ ~InStop(w)
        BY <2>3, <2>6, <3>2
      <3>3. v # None /\ w # None
        BY <2>2, JobFacts
      <3>4. CASE InStop(v) /\ ~InStop(w)
        BY <2>3, <2>5, <2>6, <3>3, <3>4
      <3>5. CASE ~InStop(v) /\ InStop(w)
        BY <2>3, <2>5, <2>6, <3>3, <3>5
      <3> QED BY <3>1, <3>2, <3>4, <3>5
    <2>7. IsFiniteSet(Handled(i)) /\ Cardinality(Handled(i)) \in Nat /\ Cardinality(Handled(i)) <= MaxWorkers
          /\ MaxWorkers \in Nat
      BY <2>1, FS_CardinalityType, JobFacts DEF PoolsOK
    <2> HIDE DEF own, InStop
    <2>8. \A w \in own : ~InStop(w) => worker[w].acct \in Handled(i)
      BY <2>2, <2>3, JobFacts DEF Handled
    <2>9. IsFiniteSet(served) /\ Cardinality(served) <= MaxWorkers
      <3>1. CASE \E w \in own : InStop(w)
        <4>1. PICK w \in own : InStop(w)
          BY <3>1
        <4>2. \A v \in own : v # w => ~InStop(v)
          BY <2>4, <4>1 DEF InStop
        <4> DEFINE more == Handled(i) \cup {worker[w].acct}
        <4>3. served \in SUBSET more
          BY <2>8, <4>2
        <4>4. worker[w].acct \notin Handled(i)
          BY <2>5, <4>1 DEF Handled
        <4>5. IsFiniteSet(more) /\ Cardinality(more) = Cardinality(Handled(i)) + 1
          BY <2>7, <4>4, FS_AddElement
        <4>6. Cardinality(Handled(i)) < MaxWorkers
          BY <2>5, <4>1
        <4>7. IsFiniteSet(served) /\ Cardinality(served) <= Cardinality(more)
          BY <4>3, <4>5, FS_Subset
        <4>8. Cardinality(served) \in Nat
          BY <4>7, FS_CardinalityType
        <4> QED BY ONLY <2>7, <4>5, <4>6, <4>7, <4>8
      <3>2. CASE \A w \in own : ~InStop(w)
        <4>1. served \in SUBSET Handled(i)
          BY <2>8, <3>2
        <4>2. IsFiniteSet(served) /\ Cardinality(served) <= Cardinality(Handled(i))
          BY <2>7, <4>1, FS_Subset
        <4>3. Cardinality(served) \in Nat
          BY <4>2, FS_CardinalityType
        <4> QED BY ONLY <2>7, <4>2, <4>3
      <3> QED BY <3>1, <3>2
    <2>10. Cardinality(own) <= MaxWorkers
      <3> DEFINE f == [w \in own |-> worker[w].acct]
      <3>1. f \in Injection(own, served)
        BY <2>6 DEF Injection, IsInjective
      <3>2. IsFiniteSet(own) /\ Cardinality(own) <= Cardinality(served)
        <4> HIDE DEF f, served
        <4> QED BY <2>9, <3>1, FS_Injection DEF ExistsInjection
      <3>3. Cardinality(own) \in Nat /\ Cardinality(served) \in Nat
        BY <2>9, <3>2, FS_CardinalityType
      <3> HIDE DEF served
      <3> QED BY ONLY <2>7, <2>9, <3>2, <3>3
    <2> QED BY <2>6, <2>10 DEF own
  <1> QED BY <1>1, JobsInvariant, PTL

-----------------------------------------------------------------------------
(* What follows: the orders.  Each step is one of RemoteCall, or none. *)

Quiet == UNCHANGED <<taken, told>>

\* A request that ends without its order being asked for.
LEMMA SaysNoRefuses ==
    ASSUME JobInv, NEW c \in Calls, call[c].at \in {"decide", "purge"}, SaysNo(c), taken' = taken
    PROVE  Quiet \/ \E j \in Jobs : R!Refuse(j)
  <1> DEFINE j == call[c].job
  <1>1. CallOK(c) /\ j \in Jobs \cup {None}
    BY DEF JobInv, TripsOK, TypeOK, CallState
  <1>2. CASE call[c].op # "order"
    BY <1>2 DEF SaysNo, Quiet
  <1>3. CASE call[c].op = "order"
    <2>1. j \in Jobs /\ told[j] = "nothing"
      BY <1>1, <1>3 DEF CallOK
    <2>2. told' = [told EXCEPT ![j] = "refused"]
      BY <1>3 DEF SaysNo
    <2> HIDE DEF j
    <2>3. R!Refuse(j)
      BY <2>1, <2>2 DEF R!Refuse, R!Tell
    <2> QED BY <2>1, <2>3
  <1> QED BY <1>2, <1>3

\* A request whose order has been asked for hears of it, or gives up.
LEMMA WaitReports ==
    ASSUME JobInv, NEW c \in Calls, Collect(c) \/ WaitTimesOut(c)
    PROVE  (\E j \in Jobs : R!Report(j)) \/ \E given \in SUBSET Jobs : R!GiveUp(given)
  <1> DEFINE j == call[c].job
  <1>1. /\ call[c].at = "wait" /\ CallOK(c) /\ j \in Jobs \cup {None} /\ taken' = taken
        /\ told \in [Jobs -> R!Told] /\ results \in [Jobs -> Seq({"ok", "failed"})]
    BY DEF JobInv, TripsOK, TypeOK, CallState, Collect, WaitTimesOut, At
  <1>2. j \in Jobs /\ told[j] = "waiting"
    BY <1>1 DEF CallOK
  <1>3. CASE Collect(c)
    <2>1. results[j] # <<>> /\ told' = [told EXCEPT ![j] = Head(results[j])]
      BY <1>3 DEF Collect
    <2>2. Head(results[j]) \in {"ok", "failed"}
      BY <1>1, <1>2, <2>1
    <2>3. taken[j] = 1
      BY <1>2, <2>1 DEF JobInv, TripsOK
    <2> HIDE DEF j
    <2>4. R!Report(j)
      BY <1>1, <1>2, <2>1, <2>2, <2>3 DEF R!Report, R!Tell
    <2> QED BY <1>2, <2>4
  <1>4. CASE WaitTimesOut(c)
    <2>1. told' = [told EXCEPT ![j] = "unknown"]
      BY <1>4 DEF WaitTimesOut
    <2> HIDE DEF j
    <2>2. told' = [k \in Jobs |-> IF k \in {j} THEN "unknown" ELSE told[k]]
      BY <1>1, <1>2, <2>1
    <2>3. R!GiveUp({j})
      BY <1>1, <1>2, <2>2 DEF R!GiveUp
    <2> QED BY <1>2, <2>3
  <1> QED BY <1>3, <1>4

\* Whatever requests, workers and servers do, is a step of RemoteCall or none.
LEMMA StepRefines == JobInv /\ [Next]_vars => [R!Next]_<<taken, told>>
  <1> SUFFICES ASSUME JobInv, [Next]_vars PROVE R!Next \/ Quiet
    BY DEF Quiet
  <1>1. ASSUME NEW c \in Calls, NEW a \in Accounts,
               (\E op \in Ops : Begin(c, a, op)) \/ \E j \in Jobs : BeginOrder(c, a, j)
        PROVE  Quiet
    BY <1>1 DEF Begin, BeginOrder, Quiet
  <1>2. ASSUME NEW j \in Jobs, RefuseOrder(j) PROVE R!Next
    BY <1>2 DEF RefuseOrder, R!Next
  <1>3. ASSUME NEW c \in Calls, CallStep(c) PROVE R!Next \/ Quiet
    <2>1. CASE Look(c) \/ EnsureWorker(c) \/ Reap(c) \/ Spawn(c) \/ Register(c)
               \/ StopWorker(c) \/ Unregister(c) \/ PostStop(c) \/ ProcessGone(c)
      BY <2>1 DEF Look, EnsureWorker, Reap, Spawn, Register, StopWorker, Unregister, PostStop,
                  ProcessGone, Quiet
    <2>2. CASE Decide(c)
      <3>1. taken' = taken /\ call[c].at = "decide" /\ (SaysNo(c) \/ told' = told)
        BY <2>2 DEF Decide, At
      <3> QED BY <3>1, SaysNoRefuses DEF Quiet, R!Next
    <2>3. CASE Purge(c)
      <3>1. taken' = taken /\ call[c].at = "purge" /\ SaysNo(c)
        BY <2>3 DEF Purge, At
      <3> QED BY <3>1, SaysNoRefuses DEF R!Next
    <2>4. CASE Submit(c)
      <3>1. call[c].job \in Jobs
        <4>1. call[c].at = "submit" /\ CallOK(c) /\ call[c].job \in Jobs \cup {None}
          BY <2>4 DEF Submit, At, JobInv, TripsOK, TypeOK, CallState
        <4> QED BY <4>1 DEF CallOK
      <3>2. R!Ask(call[c].job)
        BY <2>4 DEF Submit
      <3> QED BY <3>1, <3>2 DEF R!Next
    <2>5. CASE Collect(c) \/ WaitTimesOut(c)
      BY <2>5, WaitReports DEF R!Next
    <2> QED BY <1>3, <2>1, <2>2, <2>3, <2>4, <2>5 DEF CallStep
  <1>4. ASSUME NEW w \in Workers,
               WorkerStep(w) \/ Connect(w, FALSE) \/ IdleOut(w) \/ ExpireFails(w) \/ WorkerCrashes(w)
        PROVE  R!Next \/ Quiet
    <2>1. CASE FetchCredentials(w) \/ Connect(w, TRUE) \/ Connect(w, FALSE) \/ IdleOut(w) \/ PopJob(w)
               \/ WorkerCrashes(w) \/ ExpireIsSet(w) \/ PushResult(w) \/ ExpireFails(w)
      BY <2>1 DEF FetchCredentials, Connect, IdleOut, PopJob, WorkerCrashes, ExpireIsSet, PushResult,
                  ExpireFails, Quiet
    <2>2. CASE \E outcome \in {"ok", "failed"} : Execute(w, outcome)
      <3> DEFINE j == worker[w].job
      <3>1. worker[w].at = "popped" /\ WorkerOK(w) /\ j \in Jobs \cup {None}
        BY <2>2 DEF Execute, JobInv, TripsOK, TypeOK, WorkerState
      <3>2. j \in Jobs /\ taken[j] = 0 /\ told[j] \in {"waiting", "unknown"}
        BY <3>1 DEF WorkerOK
      <3>3. told' = told /\ taken' = [taken EXCEPT ![j] = taken[j] + 1]
        BY <2>2 DEF Execute
      <3>4. taken[j] + 1 = 1
        BY <3>2
      <3> HIDE DEF j
      <3>5. R!TakeUp(j)
        BY <3>2, <3>3, <3>4 DEF R!TakeUp
      <3> QED BY <3>2, <3>5 DEF R!Next
    <2> QED BY <1>4, <2>1, <2>2 DEF WorkerStep
  <1>5. ASSUME \/ \E a \in Accounts : CredentialsExpire(a) \/ RegistryAges(a)
               \/ \E j \in Jobs : ResultExpires(j)
               \/ UNCHANGED vars
        PROVE  Quiet
    BY <1>5 DEF CredentialsExpire, RegistryAges, ResultExpires, vars, Quiet
  <1>6. ASSUME NEW i \in Instances, ServerRestarts(i) PROVE R!Next
    <2> DEFINE Given(j) == \E c \in Calls : ServerOf(c) = i /\ call[c].job = j /\ told[j] = "waiting"
               given == {j \in Jobs : Given(j)}
    <2>1. taken' = taken /\ told' = [j \in Jobs |-> IF Given(j) THEN "unknown" ELSE told[j]]
      BY <1>6 DEF ServerRestarts
    <2>2. \A j \in Jobs : Given(j) => told[j] = "waiting"
      OBVIOUS
    <2> HIDE DEF Given
    <2>3. told' = [j \in Jobs |-> IF j \in given THEN "unknown" ELSE told[j]]
      BY <2>1
    <2>4. given \subseteq {j \in Jobs : told[j] = "waiting"} /\ given \in SUBSET Jobs
      BY <2>2
    <2> HIDE DEF given
    <2>5. R!GiveUp(given)
      BY <2>1, <2>3, <2>4 DEF R!GiveUp
    <2> QED BY <2>4, <2>5 DEF R!Next
  <1>7. ASSUME NEW c \in Calls, RedisFails(c) PROVE Quiet
    BY <1>7 DEF RedisFails, Quiet
  <1> QED BY <1>1, <1>2, <1>3, <1>4, <1>5, <1>6, <1>7 DEF Next

\* However requests, workers and restarts interleave, an order is carried out at most
\* once, never after a refusal, and an outcome is reported only for an order that
\* was taken up: the queue and its workers implement RemoteCall.
THEOREM JobsImplementRemoteCall == Spec => CallRefined
  <1>1. Init => R!Init
    BY DEF Init
  <1> QED BY <1>1, StepRefines, JobsInvariant, PTL DEF Spec, CallRefined, R!Spec
=============================================================================
