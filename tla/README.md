# CoreAI Distributed Inference Platform in TLA+

These modules specify the platform's queue, its crash recovery and the delivery
of results, as `src/` implements them. TLC checks the specifications on small
instances. TLAPS proves every invariant and action property that a run checks for all values of the
constants that the hypotheses named below admit, and that the queue implements an
abstract queue. What is left to TLC alone is liveness.

## The system

FastAPI gateways and PyTorch workers are separate processes. They share nothing
but one Redis server, and each is one asyncio event loop. Redis runs commands one
at a time, so what interleaves is commands of different coroutines.

| Component | State | Operations | Talks to |
|---|---|---|---|
| Enqueue (`gateway/services/queue_service.py`) | none of its own | `LLEN`, `LPUSH`, `HSET PENDING` | `queue:<model>`, `task:<id>` |
| Worker loop (`worker/main.py`) | `_shutdown`, the current task | `BRPOPLPUSH`, `process_task`, `LREM`, stop signal | both lists, the hash, the cache, the channel |
| Heartbeat (`worker/heartbeat.py`) | none of its own | `SET worker:<id> EX 15` every 5 s | the reaper and the registry, by key |
| Reaper (`shared/reliability.py`), one per gateway process | the keys of the scan, the list being drained | `KEYS`, `EXISTS`, `RPOPLPUSH`, `DEL` every 10 s | processing lists of dead workers |
| Result delivery (`gateway/services/result_service.py`) | a subscription per request | `GET`, `SUBSCRIBE`, `GET`, wait or time out, `DEL` | `result:<id>`, `channel:result:<id>` |
| Task status (`queue_service.py`) | hash `task:<id>` | `HSET`, `HGETALL` | workers write it, polling clients read it |
| Gateway front (`gateway/main.py`) | the Redis client or none | routes, API key, exception handler, lifespan | everything above |
| Registry (`gateway/services/registry_service.py`) | none of its own | `KEYS worker:*`, `GET` | heartbeats |
| Connection pool (`shared/redis_client.py`) | 50 connections | take, give back | every command and subscription |
| Metrics (`gateway/monitoring.py`) | counters | one observation per request | Prometheus |
| Model runner (`worker/model_runner.py`) | the loaded model | `generate` | the worker |

What is hard here: the steps of a handler, a worker and a reaper fall in any
order; a worker dies between two commands; a verdict ("no heartbeat") is used
after it has gone stale; a notification is sent while nobody listens; a command
raises after it ran; a timeout races an answer. `PROJECT.json` lists these places
under `hazards`, each with its line and the properties aimed at it.

What makes the components correct:

- queue: an accepted task is in exactly one list until it was executed, stays
  with its model, is run by one worker at a time and is executed in the end; the
  depth limit holds up to the calls in flight;
- worker: what it runs can be recovered at every moment, and a stop signal leaves
  nothing behind;
- reaper: it puts back what dead workers held, and only that;
- results: no wake-up is lost, a notified client finds a result, the record and
  the answer agree, every client is answered, every subscription is given back;
- heartbeat and registry: a worker that beats keeps its key although a beat fails,
  a listed model had a worker lately, a steady worker's model is listed;
- gateway and pool: every way through a handler gives its connections back, an
  error never ends the reaper, and every request is answered.

## The modules

| Module | What it is |
|---|---|
| `TaskDelivery` | the abstract queue: a task is new, waiting, held or gone; it is gone only after a worker has run it, except when a live holder was given up (`wild`) |
| `ReliableQueue` | lists, workers, heartbeats and reapers, one action per Redis command; implements `TaskDelivery` (`DeliverySpec`) |
| `Completion` | the hash, the cache and the channel, one action per command of the handlers and of `process_task`; the queue in it is an instance of `TaskDelivery` |
| `Gateway` | one gateway process: start-up, the routes and the reaper as coroutines that share the connection pool, Redis coming and going, teardown |
| `Registry` | `heartbeat_loop` with its clock, the expiry of its keys, and the listing of models |
| `MCReliableQueue`, `MCCompletion`, `MCGateway`, `MCRegistry` | instances for TLC |
| `ListFacts` | lemmas on what `LPUSH`, `RPOPLPUSH` and `LREM` do to a list |
| `ReliableQueueProofs` | the inductive invariant of the queue and the theorems from it |
| `QueueContentsProofs` | what the lists hold: tasks of their model, nothing after a stop, no more than the limit and the calls in flight |
| `DeliveryProofs` | `ReliableQueue` implements `TaskDelivery` |
| `CompletionProofs` | the inductive invariants of the result delivery and its theorems |
| `RegistryProofs` | the inductive invariant of the registry and its theorems |
| `GatewayProofs` | the inductive invariant of the gateway and its pool, and its theorems |

### ReliableQueue

`queue[m]` and `processing[<<m, id>>]` are the Redis lists, head first; `beat` is
the set of ids whose heartbeat key exists. `request[t]` follows
`enqueue_inference_task`: `CheckDepth` is the `LLEN` and the decision on it,
`Enqueue` the `LPUSH`, `EnqueueFails` either of them raising, with the push done
or not. `wpc[w]` follows `WorkerDaemon.loop`: `PollOrExit`, `PollTimeout`,
`Dequeue` (`BRPOPLPUSH` with its reply), `DequeueReplyLost`, `Execute`
(`process_task` up to its `finally`), `Ack` and `AckFails` (`LREM`). `rpc[r]`,
`todo[r]`, `target[r]` follow `reap_stale_tasks`: `Scan`, `SkipKey`, `FindAlive`,
`FindDead`, `Requeue` (one `RPOPLPUSH`), `DeleteKey`, `ReapFails`. The environment
contributes `Crash`, `StopSignal`, `Restart`, `Expire` and `Lapse`.

- A task's envelope is its identity and its model. The `request_id` makes every
  payload unique, so `LREM 1 <payload>` removes that task.
- A process is up from `connect()` to the end of `loop()`. The first heartbeat
  needs no earlier step, and loading the model happens while the process counts
  as down.
- A payload that `json.loads` rejects, or one without `request_id`, is left in the
  processing list just as after a lost reply: it is an instance of
  `DequeueReplyLost`.
- A fault whose kind is "reply" is a Redis command that raises. `PollTimeout` on a
  non-empty list cannot happen and is not modelled.
- `executed`, `requeued`, `misjudged` are history variables. No guard
  reads them.

`misjudged` is what most properties are relative to: the ids that a reaper drained
while a process with that id was up. It is set by `FindDead` and, if the worker
comes up during the drain, by `Restart`. The code does not exclude it: the
heartbeat may lapse, and a new worker may pop before its first beat.

### Completion

`pc[q]` follows the handler of request `q` (`create_chat_completion` with
`wait_for_inference_result`, or `submit_task` with `create_async_task`), `sub[q]`
its subscription, `inbox[q]` the `DONE` that reached it. `cache[q]`, `status[q]`
and `result[q]` are the keys in Redis. `wpc[w]` and `wreq[w]` follow
`process_task`. Which worker holds which task is `holder`; the steps of the queue
itself are `Queue!Submit`, `Queue!Take`, `Queue!Return`, `Queue!Finish`,
`Queue!Discharge`, `Queue!Drop` of `TaskDelivery`, the specification that
`ReliableQueue` is proved to implement. So this queue does nothing that `TaskDelivery`
does not allow, by the way it is written. That it does everything the lists can do is
an assumption of the model, not a theorem. Admission (HTTP 429) is left to
`ReliableQueue`: the requests here are those it accepted.

- redis-py's `subscribe()` sends the command on a connection of its own and
  returns without the confirmation. The second `GET` goes out on another
  connection, so it may be served first. That is the fault "overtake", and
  `SubscribeArrives` is the moment from which `DONE` is delivered.
- The result lives for 300 s and the client waits 30 s, so with the settings of the
  repository it does not expire under a waiting client (`ShortTTL = FALSE`). Both
  are settings or defaults, so `completion_progress` also checks the other case.
- Every handler command may raise ("gateway"), and every worker command ("worker"),
  having run or not. `published` and `broken` are history variables.
- A task that a reaper puts back after a misjudgement may be executed by two
  workers at once: after `Misjudge`, `Redeliver` and `Drop` are not tied to dead
  workers any more. This is coarser than the queue, where one id is affected.
- Workers do not restart here. `ReliableQueue` shows what a restart adds: under a
  new id it is one more worker, under the old one it may keep the reaper away.

### Gateway

`pc[c]` is where coroutine `c` is, a handler or the reaper. A step is named for the
Redis command it sends: `llen`, `lpush`, `get1` to `get3`, `inspect`, `del` in a chat
request, `llen_task`, `lpush_task`, `hset` in a submission, `hgetall` in a poll,
`keys`, `get` in the catalogue, `ping` in `/health`, `scan`, `recover` in the reaper.
`AfterReply` says where a reply may lead. What the commands do to the data is the
matter of the other modules; here any reply the handler tells apart may come.

`busy` is who has a command in flight, `sub` whose PubSub is open, `leaked` counts
the PubSubs that nobody will close. Each takes one connection of `PoolSize` (50 in
`RedisClient.connect`). `Send` takes one and `Reply` or `Break` gives it back.
`Refuse` is redis-py's `ConnectionPool` with none left: it raises and does not wait.
`OnError` says what an exception becomes: the static list, "not connected", the
reaper's next sleep, or the 500 of `global_exception_handler`. `Subscribe` to
`CloseFails` follow lines 58-91 of `result_service.py`. The second `GET` stands
outside the `try` block, so when it raises, `Raise` moves the open PubSub to
`leaked`. redis-py keeps a connection in use in its pool's books even when the
PubSub object is garbage, so this is for good.

- `Start` and `Teardown` follow `lifespan`. uvicorn lets its requests finish before
  the teardown, so `Teardown` waits for them. A gateway that started without Redis
  stays "degraded": no code tries again, although ARCHITECTURE 5.2 speaks of
  retries and of HTTP 503.
- One `get` stands for the `GET`s of a listing and one `recover` for the commands
  of a reaper's pass after its `KEYS`. Each holds one connection at a time, so more
  of them would repeat the same states.
- A command that breaks finds its connection dropped; whether it ran does not matter
  here. A connection that went dead in the pool is found out by the next command
  (`Break`) or `subscribe()`, which then keeps it (`SubscribeFails`).
- `crowded` and `lost` are history variables. `Demand` is what the requests at once
  may need: two connections for a chat, one for any other, one for the reaper.

### Registry

`key[id]` and `ttl[id]` are `worker:<id>` and what is left of its life. `wpc[w]` and
`left[w]` follow `heartbeat_loop`: `Beat` sends the `SET`, `Arrives` runs it in Redis,
`Returns` brings the reply and starts the sleep, `BeatFails` is an exception while
the `SET` has not run; one after it ran looks like `Returns`. `Hang` is a command that
is neither answered nor broken. `ComeUp` and `GoDown` start and end the process.

A `SET` that was sent is out of its sender's hands: after `BeatFails`, `Hang` or
`GoDown` it may still reach Redis, and register a worker that is gone. `late[w]` says
for how long. It is what was left of the `Delay`, or `Stalled`, without a bound,
if TCP holds the bytes up (the code sets no socket timeout); `ArrivesLate` runs the
`SET`, any number of times as there may be several, and `GiveUp` is TCP closing the
connection. So a key outlives its worker by up to `TTL + Delay`, and by up to `TTL`
the arrival of a stalled `SET`, which may be any time later. `ListedWasServed` says
that the catalogue is no older than that. `ListKeys`, `GetKey` and `ListFails` follow `get_active_models` and the `except`
clause of `get_available_models`.

Time is a `Tick` that counts down every clock at once and waits for whoever is due.
The code's 5 s and 15 s are `Interval` and `TTL = 3 * Interval`; `Delay` is the
longest a command takes unless it hangs. The run has 4, 12 and 1. What the
properties need is `3 * Delay < Interval`: after one failed beat the key must
live through two sleeps and three commands. `strikes[w]` counts beats that failed in
a row, `gone[w]` how long `w` has been down with no stalled `SET` of it arriving, up to
`LongGone = TTL + Delay`; `steady` and `recent` remember the workers since the
listing's `KEYS`; all are history variables.

In `ReliableQueue` the same key is a member of `beat`, without the clock: `Lapse`
there is two failed beats or a hung one here. `OneFailureTolerated` is why a single
failed beat is not among its faults. A `SET` that arrives after its worker's death
needs no step there while the key still exists: it is an `Expire` that takes longer. One
that makes a key anew only keeps the reaper away until it expires.

## The runs

All bounds are constants in the `.cfg` files: `MaxFaults` counts faults,
`MaxHandlers` enqueue calls in flight, `MaxQueueDepth` is the setting, `Handlers` the
requests at once. The faults of `Gateway` and `Registry` have no bound: their states
are finite as they are. No other counter grows. Deadlock checking is off except in
`registry`, where time goes on for ever: requests are finite or the gateway closes,
so the system comes to rest.

| Run | Instance | Shows |
|---|---|---|
| `queue_safety` | 2 tasks, 2 workers, 1 reaper, 2 faults of all five kinds | `TypeOK`; a running task is in its worker's list (`RunningIsRecoverable`); loss and double execution need a misjudgement (`LostOnlyIfMisjudged`, `RunTwiceOnlyIfMisjudged`); refinement (`DeliverySpec`) |
| `queue_models` | 2 models, 4 tasks, 2 reapers, depth 1, 2 handlers, stops and restarts, a model name with a colon | `OneCopy`, `ModelIsolation`, `GracefulStopDrains`, `QueueBound` |
| `queue_progress` | 2 tasks, 2 workers, one of them with a colon in its id, one crash or stop, fairness | `EventuallyExecuted`: an accepted task is executed, unless it is stranded in the list whose key `SkipKey` skips |
| `completion_safety` | a synchronous and an asynchronous request, 2 workers, 2 faults of all six kinds | `TypeOK`, `NoLostWakeup`, `NotifiedFindsResult`, `SettledHasOutcome`, `OutcomesAgree`; a handler leaves its subscription open only if a command outside the `try` block, or the closing, raises (`SubscriptionGivenBack`) |
| `completion_progress` | 1 synchronous request, 3 workers, 3 faults of all kinds but a misjudgement, results may expire early, fairness | `SyncAnswered`, `OutcomeRecorded` |
| `gateway_load` | all routes, 2 handlers, the reaper, 4 connections, Redis lost and back any number of times, fairness | `TypeOK`; a load the pool can bear never exhausts it (`SafeLoad`); `RequestAnswered`; `ReaperSurvives` |
| `registry` | 2 workers with own ids and 2 models, times 4, 12 and 1 | `TypeOK`; one failed beat is tolerated (`OneFailureTolerated`); `ListedWasServed`, `SteadyIsListed` |

Two faults are what the interesting cases take: a crash and a lapse, a crash and a
restart, a lapse and a lost reply. Two workers are needed for a task to be run
twice, two tasks for one list to hold more than one. Two reapers are needed for
one to delete a list under the other, and two handlers for the limit to be
overshot. In `completion_progress` two workers may crash and the third finish. In
`gateway_load` two chats and the reaper ask for five connections, one more than there
are, while a chat and any other request with the reaper fit exactly: both sides of
the limit occur. In `registry` a listing may see each of two keys expire, appear or
come back between `KEYS` and `GET`; a third worker would add one more such key, at a
hundred times the states. The workers differ in nothing but their model, so `Symmetry`
lets them change places together with it. Workers that share an id are covered by the
proofs.

Five runs violate what a document says; each has an entry under `findings`.

| Run | Says the document | Does the code |
|---|---|---|
| `queue_lost` | tasks of a dead worker are safely re-enqueued (`reliability.py:6`) | `DEL` removes a task that its worker popped after the last `RPOPLPUSH`; the worker dies before it ran the task, and the task is in no list |
| `queue_shared_id` | at-least-once delivery (PRD 5.3) | workers with one `worker_id` (`worker-<pid>`, the same pid in every container) hide each other's death |
| `completion_pending` | `HSET PENDING` before `LPUSH` (ARCHITECTURE 2.2) | it comes after, and overwrites the outcome of a fast worker |
| `completion_failure` | `RuntimeError` if the task failed (`result_service.py:47`) | a failure is not published, the client gets 504 |
| `gateway_exhausted` | one shared pool avoids socket exhaustion, the caller unsubscribes (`redis_client.py:11` and `:251`) | not if the second `GET` raises, and an exhausted pool makes it raise: when as many chats as the pool has connections (50, here 2) subscribe together, every connection is leaked for good |

`gateway_exhausted` needs no fault of Redis, only load. Afterwards every request that
needs Redis gets an error, `/health` says that Redis is not connected, and the reaper
is refused in every pass, until the process is restarted. `SafeLoad` gives the
number of requests at once below which this cannot happen: 24 chats for 50
connections.

The cause of `queue_shared_id` shows in a second way: with "restart" added,
`EventuallyExecuted` fails on `queue_progress`. A worker that comes back under its
old id before its heartbeat ran out never looks dead, and nobody drains the list
its predecessor left.

### Fairness

Weak fairness of a process's own steps says that its event loop runs: a handler
that was started goes on (its timeout included), a worker polls, runs and
acknowledges, a heartbeat is renewed, a reaper makes its passes. Weak fairness of
`Expire` is Redis' TTL, that of `SubscribeArrives` is TCP, that of `Redeliver` is
the reaper of `ReliableQueue`. In `Gateway` it also says that a command is answered
or breaks while Redis is away; the code sets no socket timeout, so this rests on TCP
and on Redis. `ReaperSurvives` asks for a pool that has a connection to spare from
some time on, because the reaper is refused otherwise. `Registry` needs no fairness:
its properties are invariants, and its clock waits. Nothing is assumed of clients, faults or restarts.
No strong fairness is needed, because `WorkerStep` stays enabled while a worker
is up.

## The proofs

`ReliableQueueProofs` proves `Invariance == Spec => []IInv` and from it
`TypeCorrect`, `NoDuplicates`, `CrashRecoverable`, `NoLoss` and `NoDoubleRun`, for
any sets of tasks, models, workers, ids and reapers, any assignment of ids to
workers (shared ids included), any limits and any faults. The only assumption is
`ConstantsOK`; TLC evaluates it in every run.

None of the properties is inductive alone. `IInv` adds to them:

- `Fresh`: a task that was not pushed is in no list. With it `LPUSH` is the only
  source of copies, and `OneCopy` follows, since every other command moves or
  removes.
- `Exclusive`: two workers run one task only if one of their ids is misjudged. A
  worker that dequeues takes the task from the queue, so by `OneCopy` it was in no
  processing list, and by `RunningIsRecoverable` whoever still ran it had been
  misjudged.
- `DeadIsDown`: between the verdict and the `DEL` the drained id is misjudged, or
  all its workers are down.
- `EmptyAtDelete`: therefore nobody filled the list again before the `DEL`.
- `AckIsExecuted`: so that `LREM` removes only what was executed.

The effect of each list command is proved once (`PushEffect`, `MoveEffect`,
`RequeueEffect`, `AckEffect`, `DeleteEffect`) from the lemmas of `ListFacts`; then
there is one lemma per action.

`DeliveryProofs` proves `Refinement == Spec => DeliverySpec` under the mapping
`Place`: in the queue is "waiting", in a processing list is "held", pushed and in
neither is "gone". `Dequeue` and `DequeueReplyLost` map to `Take`, `Requeue` to
`Return`, `Execute` to `Finish`, `Ack` to `Discharge` or a stutter, `DeleteKey` to
`Drop` or a stutter, a wrong verdict to `GoWild`.

`RegistryProofs` proves all four invariants of `Registry`, for workers with own or
shared ids and any `Interval`, `TTL` and `Delay` that `ConstantsOK` admits. `IInv` adds
three arguments:

- `KeyFresh`: a lower bound on what is left of a trusted worker's key for each step
  of `heartbeat_loop` and each number of strikes. Every sleep and every command
  moves the worker to the next bound; the last is `Interval - 3 * Delay > 0`. This is
  where the factor 3 of the TTL is used up: a second failure in a row would need
  another interval.
- `KeyOwned`: a key that exists was set by a worker that is up, or whose time down and
  the rest of the key's life add up to at most `TTL + Delay`. It rests on `Timed`: a
  late `SET` that is not stalled finds its worker down for a `Delay` at most.
- `SteadyFound`: what is steady is trusted, and its id is still to be asked for or its
  model is found. With `KeyFresh` the `GET` finds the key.

`GatewayProofs` proves `TypeOK` (with `InUse <= PoolSize`) and `SafeLoad` for any number
of handlers and connections. `Bearable` says that the demand does not grow but by a
new request; `HeldWithinDemand` that what is held is part of the demand; together
(`RoomForCommand`, `RoomForSubscription`) the coroutine that asks next finds a
connection. `Quiet` says that without a loss of Redis nothing else raises.

`QueueContentsProofs` proves the three other invariants of the queue. They rest on two
lemmas on the lists as sets: `ProcessingSets` (a processing list gets its tasks from
`BRPOPLPUSH` of its worker alone) and `QueueSets` (a queue gets them from `LPUSH` of a
gateway, or from a reaper, which marks them as requeued).

- `TasksStayWithModel`: `ModelIsolation` is inductive with `TypeOK`, since the reaper
  reads the model in the key and the worker pops from the queue of its setting.
- `LimitOvershootBounded`: `QueueBound` needs `HandlersBound`, that no more calls than
  `MaxHandlers` are between `LLEN` and `LPUSH`. An admission finds the queue shorter
  than the limit, so all the calls in flight, the new one included, fit on top of
  `MaxQueueDepth - 1`; a push moves a task from the second term of the sum to the first.
  `ListSize` relates the length that `LLEN` returns to the number of tasks.
- `StopLeavesNothing`: `OwnListOnly` says that a worker's list holds what it is working
  on and nothing else, so `LREM` empties it. Hypotheses: no two workers share a list
  (`DistinctLists`), and neither a process nor a command fails. They are what the
  property is about. A crash or a lost reply leaves the task in the list for the
  reaper, and a second worker with the same key may be running its own task.
  Stops, restarts and lapsed heartbeats are admitted, and so is any reaper.

`CompletionProofs` proves `TypeOK` and the five safety properties of `Completion`, for
any requests and workers and any faults. `GatewayFrame`, `WorkerFrame` and `ReaperFrame`
say which variables a step of each party leaves alone.

- `SubscriptionsReturned`, an action property: a step that ends the handler with its
  subscription open is an exception at `subscribe()` or the second `GET`, which stand
  outside the `try` block, or in `unsubscribe()` or `close()`. `SubscriptionOpen` lists
  where in the handler a subscription may be open; `LeftOpenStep` goes through the steps
  that leave these places, an exception while the handler listens among them.
- `WakeupNotLost` and `DoneFindsResult` come from one invariant, `NotificationInv`. It
  ties the handler's program to that of the worker: `StoredBeforeDone` says that until
  the client is answered, what was published and what a worker is about to publish is
  in the cache, and that `DONE` reaches nobody before it is published. So
  a handler that looked in vain a second time, with its subscription confirmed, did so
  before the `PUBLISH`. Both assume `~ ShortTTL`: a result outlives the wait, as 300 s
  against 30 s do. With a shorter life a notified client may come too late, whatever
  the code does.
- `OutcomeBeforeDischarge` rests on `Ownership` (`RunnerHolds`: while nobody was
  misjudged, who runs a task holds it; `AckIsDone`) and on `OutcomeOnRecord`: a worker
  that reached its `LREM`, and a task that was finished, have an outcome in the hash.
- `AnswerMatchesRecord`: `RunOnce` follows a task that is handed out once and whose
  commands do not raise from the queue to its end. Before its run there is neither a
  result nor FAILED, afterwards never both.
- `WorkerNeverBlocked`: `Queue!Finish` and `Queue!Discharge` have guards that
  `process_task` does not have. They hold whenever the worker gets there, so they hold
  up none of its steps. That `Completion` excludes no other behaviour of the queue is
  not proved; it is built in, by `Take`, `Redeliver`, `Drop` and `Misjudge` being
  enabled wherever `TaskDelivery` and the life of the workers let them.

TLC checked the strengthened invariants on `completion_safety` and `queue_models`
before they were proved.

Only model-checked: the liveness properties `EventuallyExecuted`, `SyncAnswered`,
`OutcomeRecorded`, `RequestAnswered` and `ReaperSurvives`. They rest on fairness,
hence on ENABLED, which the prover does not have.

## Not modelled

- The contents of prompts and answers, validation of payloads, logging.
- Metrics: a counter and a histogram that nothing in the program reads. The gauge of
  active tasks is never set.
- The model runner beyond success or failure: numerical work of libraries.
- Cancellation of a handler, and a teardown that does not wait for handlers.
- Loss of data in Redis. ARCHITECTURE 5.2 speaks of RDB and AOF, the compose file
  turns on no append-only file.
- Retry counts and a dead letter queue (ARCHITECTURE 5.1): there are none in the code.
  `Requeue` moves the envelope as it is, and a task that kills its worker is handed out
  again without end.

## Plan

1. Done: `TaskDelivery`, `ReliableQueue`, `Completion`, `Gateway`, `Registry`; the
   proofs on the queue, the registry, the pool and the result delivery. Every safety
   property of a passing run is a theorem.
2. Left: the safety half of the liveness properties, as theorems: what a stranded task
   has to go through (`EventuallyExecuted`), and that the reaper's coroutine is at one
   of its commands or asleep as long as the gateway runs (`ReaperSurvives`).
3. Left: what the pool loses. `SafeLoad` says when nothing is lost; a theorem that
   `leaked` grows only by `Raise` and `CloseFails` would name every way it can be.
