--------------------------- MODULE ReliableQueue ---------------------------
(***************************************************************************)
(* The task queue of the CoreAI platform and its crash recovery.           *)
(*                                                                         *)
(* Gateways push task envelopes on the Redis list queue:<model>.  A worker *)
(* moves one envelope at a time to its own list processing:<model>:<id>,   *)
(* runs it, records the outcome and removes it from that list.  Every      *)
(* gateway process runs a reaper that looks for processing lists whose     *)
(* worker has no heartbeat key worker:<id> and moves their tasks back.     *)
(*                                                                         *)
(* One action is one Redis command (Redis serialises them) with the code   *)
(* around it up to the next await, so every interleaving of the            *)
(* coroutines of gateways, workers and reapers is a behaviour.  What a     *)
(* task says, and the hash, cache and channel its outcome goes to, are     *)
(* the business of module Completion.                                      *)
(***************************************************************************)
EXTENDS Naturals, FiniteSets, SequencesExt

CONSTANTS
  Tasks,          \* inference requests; a task has a fresh request_id
  Models,         \* model names
  TaskModel,      \* TaskModel[t]: the model named in the request
  Workers,        \* worker processes
  ModelOf,        \* ModelOf[w]: the setting model_id of w
  Ids,            \* values of the setting worker_id
  IdOf,           \* IdOf[w]: the setting worker_id of w, not always unique
  Reapers,        \* reaper loops, one per gateway process
  ColonKeys,      \* processing lists whose model or worker id has a ':'
  MaxQueueDepth,  \* the setting max_queue_depth
  MaxHandlers,    \* how many enqueue calls are in flight at once
  FaultKinds,     \* which faults the environment may cause
  MaxFaults,      \* how many of them
  None            \* no task, no list

Keys == Models \X Ids    \* the names processing:<model>:<id>

ASSUME ConstantsOK ==
  /\ TaskModel \in [Tasks -> Models]
  /\ ModelOf \in [Workers -> Models]
  /\ IdOf \in [Workers -> Ids]
  /\ ColonKeys \subseteq Keys
  /\ MaxQueueDepth \in Nat \ {0}
  /\ MaxHandlers \in Nat \ {0}
  /\ MaxFaults \in Nat
  /\ FaultKinds \subseteq {"crash", "stop", "restart", "lapse", "reply"}
  /\ None \notin Tasks
  /\ None \notin Keys

VARIABLES
  queue,       \* queue[m]: the list queue:<m>, head first
  processing,  \* processing[k]: the list processing:<model>:<id>, head first
  beat,        \* the ids whose key worker:<id> exists
  request,     \* request[t]: where enqueue_inference_task is for t
  wpc,         \* wpc[w]: where the loop of worker w is
  wtask,       \* wtask[w]: the task process_task runs
  stopping,    \* the workers whose _shutdown flag is set
  rpc,         \* rpc[r]: where reap_stale_tasks is
  todo,        \* todo[r]: the lists of the scan not yet looked at
  target,      \* target[r]: the list being drained
  executed,    \* history: tasks process_task has run to its finally clause
  requeued,    \* history: tasks a reaper has put back
  misjudged,   \* history: ids drained as dead while a worker had that id
  faults       \* bound: faults so far

gatewayVars == <<request>>
brokerVars  == <<queue, processing, beat>>
workerVars  == <<wpc, wtask, stopping>>
reaperVars  == <<rpc, todo, target>>
historyVars == <<executed, requeued, misjudged>>
vars == <<brokerVars, gatewayVars, workerVars, reaperVars, historyVars, faults>>

-----------------------------------------------------------------------------
Key(w) == <<ModelOf[w], IdOf[w]>>

\* A process is up from connect() to the end of loop(), or to its death.
Up(id) == \E w \in Workers : IdOf[w] = id /\ wpc[w] # "down"

Draining(id) ==
  \E r \in Reapers : rpc[r] \in {"drain", "delete"} /\ target[r][2] = id

Fault(kind) ==
  /\ kind \in FaultKinds
  /\ faults < MaxFaults
  /\ faults' = faults + 1

Init ==
  /\ queue = [m \in Models |-> <<>>]
  /\ processing = [k \in Keys |-> <<>>]
  /\ beat = {}
  /\ request = [t \in Tasks |-> "new"]
  /\ wpc = [w \in Workers |-> "idle"]
  /\ wtask = [w \in Workers |-> None]
  /\ stopping = {}
  /\ rpc = [r \in Reapers |-> "sleep"]
  /\ todo = [r \in Reapers |-> {}]
  /\ target = [r \in Reapers |-> None]
  /\ executed = {}
  /\ requeued = {}
  /\ misjudged = {}
  /\ faults = 0

-----------------------------------------------------------------------------
(* Wrong variants of the operations below.  Next uses none of them; each    *)
(* stands for a plausible slip in the code and shows that a property would  *)
(* notice it.                                                               *)

\* depth > max_queue_depth
CheckDepthOffByOne(t) ==
  /\ request[t] = "new"
  /\ Cardinality({u \in Tasks : request[u] = "admitted"}) < MaxHandlers
  /\ request' = [request EXCEPT ![t] =
       IF Len(queue[TaskModel[t]]) > MaxQueueDepth THEN "rejected" ELSE "admitted"]
  /\ UNCHANGED <<brokerVars, workerVars, reaperVars, historyVars, faults>>

\* A retry pushes the envelope a second time.
EnqueueTwice(t) ==
  /\ request[t] = "admitted"
  /\ request' = [request EXCEPT ![t] = "accepted"]
  /\ queue' = [queue EXCEPT ![TaskModel[t]] = <<t, t>> \o @]
  /\ UNCHANGED <<processing, beat, workerVars, reaperVars, historyVars, faults>>

\* BRPOP instead of BRPOPLPUSH
PlainPop(m, k) ==
  /\ queue[m] # <<>>
  /\ queue' = [queue EXCEPT ![m] = Front(@)]
  /\ UNCHANGED processing

\* Acknowledge on receipt, then run.
AckOnReceipt(w) ==
  /\ wpc[w] = "busy"
  /\ processing' = [processing EXCEPT ![Key(w)] = RemoveFirst(@, wtask[w])]
  /\ UNCHANGED <<queue, beat, gatewayVars, wpc, wtask, stopping, reaperVars,
                 historyVars, faults>>

\* The loop goes on with the task it has just acknowledged.
AckKeepsTask(w) ==
  /\ wpc[w] = "ack"
  /\ processing' = [processing EXCEPT ![Key(w)] = RemoveFirst(@, wtask[w])]
  /\ wpc' = [wpc EXCEPT ![w] = "idle"]
  /\ UNCHANGED <<queue, beat, gatewayVars, wtask, stopping, reaperVars,
                 historyVars, faults>>

\* No handler: the signal ends the process at once.
StopSignalKills(w) ==
  /\ wpc[w] # "down"
  /\ Fault("stop")
  /\ wpc' = [wpc EXCEPT ![w] = "down"]
  /\ wtask' = [wtask EXCEPT ![w] = None]
  /\ UNCHANGED <<brokerVars, gatewayVars, stopping, reaperVars, historyVars>>

\* SET without EX
ExpireNever(id) == FALSE /\ id \in Ids /\ UNCHANGED vars

\* RPOP instead of RPOPLPUSH
RequeueDrops(r) ==
  /\ rpc[r] = "drain"
  /\ processing[target[r]] # <<>>
  /\ processing' = [processing EXCEPT ![target[r]] = Front(@)]
  /\ UNCHANGED <<queue, beat, gatewayVars, workerVars, reaperVars, historyVars, faults>>

\* LRANGE and LPUSH instead of RPOPLPUSH, the list left for DEL.
RequeueCopies(r) ==
  /\ rpc[r] = "drain"
  /\ queue' = [queue EXCEPT ![target[r][1]] = processing[target[r]] \o @]
  /\ rpc' = [rpc EXCEPT ![r] = "delete"]
  /\ UNCHANGED <<processing, beat, gatewayVars, workerVars, todo, target,
                 historyVars, faults>>

\* Back to the queue of some other model.
RequeueElsewhere(r) ==
  /\ rpc[r] = "drain"
  /\ LET k == target[r] IN
     /\ processing[k] # <<>>
     /\ processing' = [processing EXCEPT ![k] = Front(@)]
     /\ \E m \in Models \ {k[1]} :
          queue' = [queue EXCEPT ![m] = Cons(Last(processing[k]), @)]
  /\ UNCHANGED <<beat, gatewayVars, workerVars, reaperVars, historyVars, faults>>

-----------------------------------------------------------------------------
(* Gateway: enqueue_inference_task                                         *)

Admitted == {t \in Tasks : request[t] = "admitted"}

\* LLEN, then either HTTP 429 or on to the push.
CheckDepth(t) ==
  /\ request[t] = "new"
  /\ Cardinality(Admitted) < MaxHandlers
  /\ request' = [request EXCEPT ![t] =
       IF Len(queue[TaskModel[t]]) >= MaxQueueDepth THEN "rejected"
                                                    ELSE "admitted"]
  /\ UNCHANGED <<brokerVars, workerVars, reaperVars, historyVars, faults>>

\* LPUSH: the envelope goes to the head of the list.
Enqueue(t) ==
  /\ request[t] = "admitted"
  /\ request' = [request EXCEPT ![t] = "accepted"]
  /\ queue' = [queue EXCEPT ![TaskModel[t]] = Cons(t, @)]
  /\ UNCHANGED <<processing, beat, workerVars, reaperVars, historyVars, faults>>

\* LLEN or LPUSH raises: the client sees an error, yet LPUSH may have run.
EnqueueFails(t) ==
  /\ Fault("reply")
  /\ \/ /\ request[t] \in {"new", "admitted"}
        /\ request' = [request EXCEPT ![t] = "failed"]
        /\ UNCHANGED queue
     \/ /\ request[t] = "admitted"
        /\ request' = [request EXCEPT ![t] = "unknown"]
        /\ queue' = [queue EXCEPT ![TaskModel[t]] = Cons(t, @)]
  /\ UNCHANGED <<processing, beat, workerVars, reaperVars, historyVars>>

-----------------------------------------------------------------------------
(* Worker: WorkerDaemon.loop and process_task                              *)

\* The loop head: leave on shutdown, otherwise send BRPOPLPUSH.
PollOrExit(w) ==
  /\ wpc[w] = "idle"
  /\ wpc' = [wpc EXCEPT ![w] = IF w \in stopping THEN "down" ELSE "polling"]
  /\ stopping' = stopping \ {w}
  /\ UNCHANGED <<brokerVars, gatewayVars, wtask, reaperVars, historyVars, faults>>

\* BRPOPLPUSH times out on an empty list; dequeue_task returns (None, None).
PollTimeout(w) ==
  /\ wpc[w] = "polling"
  /\ queue[ModelOf[w]] = <<>>
  /\ wpc' = [wpc EXCEPT ![w] = "idle"]
  /\ UNCHANGED <<brokerVars, gatewayVars, wtask, stopping, reaperVars,
                 historyVars, faults>>

\* The effect of BRPOPLPUSH / RPOPLPUSH: tail of the one list to the head of
\* the other.
MoveToProcessing(m, k) ==
  /\ queue[m] # <<>>
  /\ queue' = [queue EXCEPT ![m] = Front(@)]
  /\ processing' = [processing EXCEPT ![k] = Cons(Last(queue[m]), @)]

Dequeue(w) ==
  /\ wpc[w] = "polling"
  /\ MoveToProcessing(ModelOf[w], Key(w))
  /\ wpc' = [wpc EXCEPT ![w] = "busy"]
  /\ wtask' = [wtask EXCEPT ![w] = Last(queue[ModelOf[w]])]
  /\ UNCHANGED <<beat, gatewayVars, stopping, reaperVars, historyVars, faults>>

\* The command ran but its reply was lost: redis-py raises, the loop logs the
\* error and polls again.
DequeueReplyLost(w) ==
  /\ wpc[w] = "polling"
  /\ Fault("reply")
  /\ MoveToProcessing(ModelOf[w], Key(w))
  /\ wpc' = [wpc EXCEPT ![w] = "idle"]
  /\ UNCHANGED <<beat, gatewayVars, wtask, stopping, reaperVars, historyVars>>

\* process_task up to its finally clause, whatever came of it (Completion).
Execute(w) ==
  /\ wpc[w] = "busy"
  /\ wpc' = [wpc EXCEPT ![w] = "ack"]
  /\ executed' = executed \cup {wtask[w]}
  /\ UNCHANGED <<brokerVars, gatewayVars, wtask, stopping, reaperVars,
                 requeued, misjudged, faults>>

\* The finally clause: LREM processing 1 <payload>.
Ack(w) ==
  /\ wpc[w] = "ack"
  /\ processing' = [processing EXCEPT ![Key(w)] = RemoveFirst(@, wtask[w])]
  /\ wpc' = [wpc EXCEPT ![w] = "idle"]
  /\ wtask' = [wtask EXCEPT ![w] = None]
  /\ UNCHANGED <<queue, beat, gatewayVars, stopping, reaperVars, historyVars,
                 faults>>

\* LREM did not run: the exception leaves process_task for the loop's handler.
AckFails(w) ==
  /\ wpc[w] = "ack"
  /\ Fault("reply")
  /\ wpc' = [wpc EXCEPT ![w] = "idle"]
  /\ wtask' = [wtask EXCEPT ![w] = None]
  /\ UNCHANGED <<brokerVars, gatewayVars, stopping, reaperVars, historyVars>>

\* SIGTERM / SIGINT: _trigger sets the flag, the loop reads it at its head.
StopSignal(w) ==
  /\ wpc[w] # "down"
  /\ w \notin stopping
  /\ Fault("stop")
  /\ stopping' = stopping \cup {w}
  /\ UNCHANGED <<brokerVars, gatewayVars, wpc, wtask, reaperVars, historyVars>>

\* The process dies: out of memory, SIGKILL, lost host.
Crash(w) ==
  /\ wpc[w] # "down"
  /\ Fault("crash")
  /\ wpc' = [wpc EXCEPT ![w] = "down"]
  /\ wtask' = [wtask EXCEPT ![w] = None]
  /\ stopping' = stopping \ {w}
  /\ UNCHANGED <<brokerVars, gatewayVars, reaperVars, historyVars>>

\* The process is started again with the same settings, worker_id included.
Restart(w) ==
  /\ wpc[w] = "down"
  /\ "restart" \in FaultKinds
  /\ wpc' = [wpc EXCEPT ![w] = "idle"]
  /\ misjudged' = IF Draining(IdOf[w]) THEN misjudged \cup {IdOf[w]} ELSE misjudged
  /\ UNCHANGED <<brokerVars, gatewayVars, wtask, stopping, reaperVars, executed,
                 requeued, faults>>

-----------------------------------------------------------------------------
(* Heartbeats: SET worker:<id> with a TTL of three intervals               *)

Heartbeat(w) ==
  /\ wpc[w] # "down"
  /\ IdOf[w] \notin beat
  /\ beat' = beat \cup {IdOf[w]}
  /\ UNCHANGED <<queue, processing, gatewayVars, workerVars, reaperVars,
                 historyVars, faults>>

\* The TTL of a dead worker's key runs out.
Expire(id) ==
  /\ id \in beat
  /\ ~Up(id)
  /\ beat' = beat \ {id}
  /\ UNCHANGED <<queue, processing, gatewayVars, workerVars, reaperVars,
                 historyVars, faults>>

\* The TTL of a live worker's key runs out: two beats in a row failed, or one
\* hung (module Registry has the clock).
Lapse(id) ==
  /\ id \in beat
  /\ Up(id)
  /\ Fault("lapse")
  /\ beat' = beat \ {id}
  /\ UNCHANGED <<queue, processing, gatewayVars, workerVars, reaperVars,
                 historyVars>>

-----------------------------------------------------------------------------
(* Reaper: reap_stale_tasks                                                *)

\* KEYS processing:*:* (Redis keeps no empty list).
Scan(r) ==
  /\ rpc[r] = "sleep"
  /\ LET found == {k \in Keys : processing[k] # <<>>} IN
     /\ found # {}
     /\ todo' = [todo EXCEPT ![r] = found]
  /\ rpc' = [rpc EXCEPT ![r] = "check"]
  /\ UNCHANGED <<brokerVars, gatewayVars, workerVars, target, historyVars, faults>>

\* The rest of the for loop after list k: next key or end of the pass.
NextKey(r, k) ==
  /\ todo' = [todo EXCEPT ![r] = @ \ {k}]
  /\ rpc' = [rpc EXCEPT ![r] = IF todo[r] \ {k} = {} THEN "sleep" ELSE "check"]
  /\ target' = [target EXCEPT ![r] = None]

\* A name that does not split in three parts is skipped without a look.
SkipKey(r) ==
  /\ rpc[r] = "check"
  /\ \E k \in todo[r] \cap ColonKeys : NextKey(r, k)
  /\ UNCHANGED <<brokerVars, gatewayVars, workerVars, historyVars, faults>>

\* EXISTS worker:<id> answers 1.
FindAlive(r) ==
  /\ rpc[r] = "check"
  /\ \E k \in todo[r] \ ColonKeys : k[2] \in beat /\ NextKey(r, k)
  /\ UNCHANGED <<brokerVars, gatewayVars, workerVars, historyVars, faults>>

\* EXISTS worker:<id> answers 0: the worker is taken for dead.
FindDead(r) ==
  /\ rpc[r] = "check"
  /\ \E k \in todo[r] \ ColonKeys :
       /\ k[2] \notin beat
       /\ target' = [target EXCEPT ![r] = k]
       /\ misjudged' = IF Up(k[2]) THEN misjudged \cup {k[2]} ELSE misjudged
  /\ rpc' = [rpc EXCEPT ![r] = "drain"]
  /\ UNCHANGED <<brokerVars, gatewayVars, workerVars, todo, executed,
                 requeued, faults>>

\* One RPOPLPUSH of the while loop: the oldest task goes back to the queue of
\* the model named in the key; an empty list ends the loop.
Requeue(r) ==
  /\ rpc[r] = "drain"
  /\ LET k == target[r] IN
     \/ /\ processing[k] # <<>>
        /\ processing' = [processing EXCEPT ![k] = Front(@)]
        /\ queue' = [queue EXCEPT ![k[1]] = Cons(Last(processing[k]), @)]
        /\ requeued' = requeued \cup {Last(processing[k])}
        /\ UNCHANGED rpc
     \/ /\ processing[k] = <<>>
        /\ rpc' = [rpc EXCEPT ![r] = "delete"]
        /\ UNCHANGED <<queue, processing, requeued>>
  /\ UNCHANGED <<beat, gatewayVars, workerVars, todo, target, executed,
                 misjudged, faults>>

\* DEL of the list that was empty at the last RPOPLPUSH.
DeleteKey(r) ==
  /\ rpc[r] = "delete"
  /\ processing' = [processing EXCEPT ![target[r]] = <<>>]
  /\ NextKey(r, target[r])
  /\ UNCHANGED <<queue, beat, gatewayVars, workerVars, historyVars, faults>>

\* A command raises: the pass ends, the next one starts after the interval.
ReapFails(r) ==
  /\ rpc[r] # "sleep"
  /\ Fault("reply")
  /\ rpc' = [rpc EXCEPT ![r] = "sleep"]
  /\ todo' = [todo EXCEPT ![r] = {}]
  /\ target' = [target EXCEPT ![r] = None]
  /\ UNCHANGED <<brokerVars, gatewayVars, workerVars, historyVars>>

-----------------------------------------------------------------------------
GatewayStep(t) == CheckDepth(t) \/ Enqueue(t)

WorkerStep(w) ==
  PollOrExit(w) \/ PollTimeout(w) \/ Dequeue(w) \/ Execute(w) \/ Ack(w)

WorkerFault(w) ==
  DequeueReplyLost(w) \/ AckFails(w) \/ StopSignal(w) \/ Crash(w) \/ Restart(w)

ReaperStep(r) ==
  Scan(r) \/ SkipKey(r) \/ FindAlive(r) \/ FindDead(r) \/ Requeue(r) \/ DeleteKey(r)

Next ==
  \/ \E t \in Tasks : GatewayStep(t) \/ EnqueueFails(t)
  \/ \E w \in Workers : WorkerStep(w) \/ WorkerFault(w) \/ Heartbeat(w)
  \/ \E id \in Ids : Expire(id) \/ Lapse(id)
  \/ \E r \in Reapers : ReaperStep(r) \/ ReapFails(r)

Spec == Init /\ [][Next]_vars

\* A started coroutine goes on, a heartbeat is renewed while its process is up,
\* Redis expires keys, a gateway keeps reaping.  Nothing makes clients send
\* requests, processes fail, or failed processes come back.
Fairness ==
  /\ \A t \in Tasks : WF_vars(Enqueue(t))
  /\ \A w \in Workers : WF_vars(WorkerStep(w)) /\ WF_vars(Heartbeat(w))
  /\ \A id \in Ids : WF_vars(Expire(id))
  /\ \A r \in Reapers : WF_vars(ReaperStep(r))

FairSpec == Spec /\ Fairness

-----------------------------------------------------------------------------
(* Properties                                                              *)

TypeOK ==
  /\ queue \in [Models -> Seq(Tasks)]
  /\ processing \in [Keys -> Seq(Tasks)]
  /\ beat \subseteq Ids
  /\ request \in [Tasks -> {"new", "admitted", "accepted", "rejected", "failed",
                         "unknown"}]
  /\ wpc \in [Workers -> {"down", "idle", "polling", "busy", "ack"}]
  /\ wtask \in [Workers -> Tasks \cup {None}]
  /\ \A w \in Workers : wpc[w] \in {"busy", "ack"} <=> wtask[w] # None
  /\ stopping \subseteq Workers
  /\ rpc \in [Reapers -> {"sleep", "check", "drain", "delete"}]
  /\ todo \in [Reapers -> SUBSET Keys]
  /\ target \in [Reapers -> Keys \cup {None}]
  /\ \A r \in Reapers : rpc[r] \in {"drain", "delete"} <=> target[r] # None
  /\ executed \subseteq Tasks
  /\ requeued \subseteq Tasks
  /\ misjudged \subseteq Ids
  /\ faults \in 0..MaxFaults

InQueue(t)      == \E m \in Models : t \in ToSet(queue[m])
InProcessing(t) == \E k \in Keys : t \in ToSet(processing[k])
Runs(w, t)      == wpc[w] \in {"busy", "ack"} /\ wtask[w] = t

\* A task sits in at most one list, and there once, whatever workers, reapers
\* and faults do: the lists only ever hand a task on.
OneCopy ==
  /\ \A m \in Models : IsInjective(queue[m])
  /\ \A k \in Keys : IsInjective(processing[k])
  /\ \A m \in Models, k \in Keys : ToSet(queue[m]) \cap ToSet(processing[k]) = {}
  /\ \A m1, m2 \in Models : m1 # m2 => ToSet(queue[m1]) \cap ToSet(queue[m2]) = {}
  /\ \A k1, k2 \in Keys :
       k1 # k2 => ToSet(processing[k1]) \cap ToSet(processing[k2]) = {}

\* A task stays with the workers of the model it asks for, also after the
\* reaper has put it back by the model name it read in the key.
ModelIsolation ==
  /\ \A m \in Models : \A t \in ToSet(queue[m]) : TaskModel[t] = m
  /\ \A k \in Keys : \A t \in ToSet(processing[k]) : TaskModel[t] = k[1]
  /\ \A w \in Workers, t \in Tasks : Runs(w, t) => TaskModel[t] = ModelOf[w]

\* While a worker runs a task its processing list holds it, so that a crash
\* at any point can be recovered, unless the reaper took the worker for dead.
RunningIsRecoverable ==
  \A w \in Workers, t \in Tasks :
    Runs(w, t) /\ IdOf[w] \notin misjudged => t \in ToSet(processing[Key(w)])

\* A task that was pushed is in a list or has been executed; only a
\* reaper that drained a worker that was up can have lost it.
Pushed(t) == request[t] \in {"accepted", "unknown"}

LostOnlyIfMisjudged ==
  \A t \in Tasks :
    Pushed(t) => InQueue(t) \/ InProcessing(t) \/ t \in executed \/ misjudged # {}

\* Two workers run one task only if a reaper drained a worker that was up.
RunTwiceOnlyIfMisjudged ==
  \A v, w \in Workers, t \in Tasks :
    Runs(v, t) /\ Runs(w, t) /\ v # w => misjudged # {}

\* Backpressure: what clients put in a queue overshoots the limit by at most
\* the calls that were between LLEN and LPUSH; only what a reaper puts back,
\* which asks for no room, comes on top.
QueueBound ==
  \A m \in Models :
    Cardinality(ToSet(queue[m]) \ requeued)
      + Cardinality({t \in Admitted : TaskModel[t] = m})
        <= MaxQueueDepth - 1 + MaxHandlers

\* A worker that left its loop on a signal leaves no task behind.
GracefulStopDrains ==
  \A w \in Workers : wpc[w] = "down" => processing[Key(w)] = <<>>

\* Left by a dead worker in a list that every reaper skips.
Stranded(t) == \E k \in ColonKeys : t \in ToSet(processing[k]) /\ ~Up(k[2])

\* An accepted task is executed, though workers crash or stop, as long as no
\* reaper drains a worker that is up; a list with a ':' in its name costs only
\* the task its worker died with.
EventuallyExecuted ==
  \A t \in Tasks :
    request[t] = "accepted" ~> t \in executed \/ misjudged # {} \/ Stranded(t)

\* PRD 5.3: an accepted task is executed at least once, even in the event of
\* worker failures.
AtLeastOnce ==
  \A t \in Tasks : request[t] = "accepted" ~> t \in executed

\* The reaper's promise: a task that a dead worker leaves behind is safely
\* re-enqueued, so that an accepted task is in a list until it was executed, or
\* some worker that is up runs it.
NothingLost ==
  \A t \in Tasks :
    request[t] = "accepted" =>
      InQueue(t) \/ InProcessing(t) \/ t \in executed \/ \E w \in Workers : Runs(w, t)

\* The lists implement the promise of TaskDelivery.
Place(t) ==
  IF InQueue(t) THEN "waiting"
  ELSE IF InProcessing(t) THEN "held"
  ELSE IF Pushed(t) THEN "gone" ELSE "new"

Delivery == INSTANCE TaskDelivery WITH
  place <- [t \in Tasks |-> Place(t)], done <- executed, wild <- misjudged # {}

DeliverySpec == Delivery!Spec
=============================================================================
