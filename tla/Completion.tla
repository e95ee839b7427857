----------------------------- MODULE Completion -----------------------------
(***************************************************************************)
(* How the outcome of a task gets back to the client.                      *)
(*                                                                         *)
(* A worker writes the status hash task:<id>, caches the result under      *)
(* result:<id> and publishes DONE on channel:result:<id>.  A synchronous   *)
(* request waits in wait_for_inference_result: look in the cache,          *)
(* subscribe, look again, wait for DONE or the timeout.  An asynchronous   *)
(* request writes status PENDING after the push and leaves the client to   *)
(* poll the hash.                                                          *)
(*                                                                         *)
(* The queue between them is TaskDelivery, which module ReliableQueue      *)
(* implements: it may hand a task to a second worker when the first died   *)
(* or, once wild, when the first was taken for dead.                       *)
(*                                                                         *)
(* One action is one Redis command with the code around it up to the next  *)
(* await.                                                                  *)
(***************************************************************************)
EXTENDS Naturals

CONSTANTS
  Requests,    \* requests the gateways accepted; each has its own keys
  Kind,        \* Kind[q]: "sync" (/v1/chat/completions) or "async" (/v1/tasks)
  Workers,     \* worker processes
  ShortTTL,    \* the result may expire before the client stops waiting for it
  FaultKinds,  \* which faults the environment may cause
  MaxFaults,   \* how many of them
  None         \* no request, no worker

ASSUME ConstantsOK ==
  /\ Kind \in [Requests -> {"sync", "async"}]
  /\ ShortTTL \in BOOLEAN
  /\ FaultKinds \subseteq {"crash", "misjudge", "model", "worker", "gateway", "overtake"}
  /\ MaxFaults \in Nat
  /\ None \notin Requests
  /\ None \notin Workers

VARIABLES
  place,      \* place[q]: where the queue has the task (TaskDelivery)
  done,       \* tasks that process_task has run to its finally clause
  wild,       \* a reaper has drained a worker that was up
  holder,     \* holder[q]: the worker whose processing list has the task
  pc,         \* pc[q]: where the gateway's handler is
  sub,        \* sub[q]: the subscription: "none", "sent" or "on" (at Redis)
  inbox,      \* inbox[q]: DONE has been delivered to the subscription
  cache,      \* cache[q]: the key result:<id> exists
  status,     \* status[q]: field status of the hash task:<id>
  result,     \* result[q]: the hash has a field result
  wpc,        \* wpc[w]: where process_task of w is
  wreq,       \* wreq[w]: the request it runs
  overtaken,  \* history: requests whose second GET got ahead of SUBSCRIBE
  published,  \* history: requests whose DONE Redis has sent out
  broken,     \* history: requests a worker's Redis command raised for
  redelivered, \* history: requests a reaper has put back
  faults      \* bound: faults so far

queueVars   == <<place, done, wild, holder>>
gatewayVars == <<pc, sub, overtaken>>
storeVars   == <<inbox, cache, status, result>>
history     == <<published, broken, redelivered>>
workerVars  == <<wpc, wreq, history>>
vars == <<queueVars, gatewayVars, storeVars, workerVars, faults>>

Queue == INSTANCE TaskDelivery WITH Tasks <- Requests

Fault(kind) ==
  /\ kind \in FaultKinds
  /\ faults < MaxFaults
  /\ faults' = faults + 1

Answers == {"200", "202", "504", "500 failed", "500 empty", "500 error"}
Answered(q) == pc[q] \in Answers
Running(w, q) == wreq[w] = q

Init ==
  /\ Queue!Init
  /\ holder = [q \in Requests |-> None]
  /\ pc = [q \in Requests |-> "new"]
  /\ sub = [q \in Requests |-> "none"]
  /\ inbox = [q \in Requests |-> FALSE]
  /\ cache = [q \in Requests |-> FALSE]
  /\ status = [q \in Requests |-> "none"]
  /\ result = [q \in Requests |-> FALSE]
  /\ wpc = [w \in Workers |-> "idle"]
  /\ wreq = [w \in Workers |-> None]
  /\ overtaken = {}
  /\ published = {}
  /\ broken = {}
  /\ redelivered = {}
  /\ faults = 0

-----------------------------------------------------------------------------
(* Parts of the operations                                                 *)

Goto(q, there) == pc' = [pc EXCEPT ![q] = there]
Continue(w, there) == wpc' = [wpc EXCEPT ![w] = there]

\* PUBLISH DONE reaches the subscription that is on, and nobody else, ever.
Deliver(q) ==
  /\ inbox' = [inbox EXCEPT ![q] = @ \/ sub[q] = "on"]
  /\ published' = published \cup {q}

\* The try block is left for the finally clause.
Finally(w) ==
  /\ Queue!Finish(wreq[w])
  /\ Continue(w, "ack")
  /\ UNCHANGED holder

-----------------------------------------------------------------------------
(* Wrong variants of the operations below.  Next uses none of them; each    *)
(* stands for a plausible slip in the code and shows that a property would  *)
(* notice it.                                                               *)

\* No second look at the cache after subscribing.
SecondLookSkipped(q) ==
  /\ pc[q] = "get2"
  /\ sub[q] # "sent"
  /\ Goto(q, "listen")
  /\ UNCHANGED <<queueVars, sub, overtaken, storeVars, workerVars, faults>>

\* Waiting without a timeout.
ListenForever(q) == FALSE /\ q \in Requests /\ UNCHANGED vars

\* No finally clause, but an except for the timeout: another exception while
\* listening leaves the subscription open.
FailsUnclosed(q) ==
  /\ Fault("gateway")
  /\ pc[q] = "listen"
  /\ Goto(q, "500 error")
  /\ UNCHANGED <<queueVars, sub, overtaken, storeVars, workerVars>>

\* BRPOP instead of BRPOPLPUSH.
TakeAndForget(w, q) ==
  /\ wpc[w] = "idle"
  /\ place[q] = "waiting"
  /\ place' = [place EXCEPT ![q] = "gone"]
  /\ Continue(w, "start")
  /\ wreq' = [wreq EXCEPT ![w] = q]
  /\ UNCHANGED <<done, wild, holder, gatewayVars, storeVars, history, faults>>

\* DONE goes out before the result is stored.
NotifyFirst(w) ==
  /\ wpc[w] = "generate"
  /\ Deliver(wreq[w])
  /\ Continue(w, "store")
  /\ UNCHANGED <<queueVars, gatewayVars, cache, status, result, wreq, broken, redelivered, faults>>

\* The exception is only logged.
FailSilently(w) ==
  /\ wpc[w] = "fail"
  /\ Finally(w)
  /\ UNCHANGED <<gatewayVars, storeVars, wreq, history, faults>>

\* The error is cached as if it were a result.
FailWithResult(w) ==
  /\ wpc[w] = "fail"
  /\ status' = [status EXCEPT ![wreq[w]] = "FAILED"]
  /\ cache' = [cache EXCEPT ![wreq[w]] = TRUE]
  /\ Finally(w)
  /\ UNCHANGED <<gatewayVars, inbox, result, wreq, history, faults>>

\* The loop goes on with the task it has just acknowledged.
AckKeepsRequest(w) ==
  /\ wpc[w] = "ack"
  /\ holder[wreq[w]] = w
  /\ Queue!Discharge(wreq[w])
  /\ holder' = [holder EXCEPT ![wreq[w]] = None]
  /\ Continue(w, "idle")
  /\ UNCHANGED <<gatewayVars, storeVars, wreq, history, faults>>

-----------------------------------------------------------------------------
(* Gateway: both kinds of request                                          *)

\* LPUSH at the end of enqueue_inference_task.
Submit(q) ==
  /\ pc[q] = "new"
  /\ Queue!Submit(q)
  /\ Goto(q, IF Kind[q] = "sync" THEN "get1" ELSE "register")
  /\ UNCHANGED <<holder, sub, overtaken, storeVars, workerVars, faults>>

\* create_async_task: HSET status PENDING, then HTTP 202.
Register(q) ==
  /\ pc[q] = "register"
  /\ status' = [status EXCEPT ![q] = "PENDING"]
  /\ Goto(q, "202")
  /\ UNCHANGED <<queueVars, sub, overtaken, inbox, cache, result, workerVars, faults>>

-----------------------------------------------------------------------------
(* Gateway: wait_for_inference_result                                      *)

\* GET, before the subscription.
FirstLook(q) ==
  /\ pc[q] = "get1"
  /\ Goto(q, IF cache[q] THEN "delete" ELSE "subscribe")
  /\ UNCHANGED <<queueVars, sub, overtaken, storeVars, workerVars, faults>>

\* subscribe() sends SUBSCRIBE on a connection of its own and awaits no reply.
Subscribe(q) ==
  /\ pc[q] = "subscribe"
  /\ Goto(q, "get2")
  /\ sub' = [sub EXCEPT ![q] = "sent"]
  /\ UNCHANGED <<queueVars, overtaken, storeVars, workerVars, faults>>

\* Redis takes the SUBSCRIBE.
SubscribeArrives(q) ==
  /\ sub[q] = "sent"
  /\ sub' = [sub EXCEPT ![q] = "on"]
  /\ UNCHANGED <<queueVars, pc, overtaken, storeVars, workerVars, faults>>

\* GET again.  It goes out on another connection, so that it may get to Redis
\* before the SUBSCRIBE does.
SecondLook(q) ==
  /\ pc[q] = "get2"
  /\ IF sub[q] = "sent"
     THEN Fault("overtake") /\ overtaken' = overtaken \cup {q}
     ELSE UNCHANGED <<overtaken, faults>>
  /\ Goto(q, IF cache[q] THEN "close_hit" ELSE "listen")
  /\ UNCHANGED <<queueVars, sub, storeVars, workerVars>>

\* _listen_for_message gets DONE.
Notified(q) ==
  /\ pc[q] = "listen"
  /\ inbox[q]
  /\ Goto(q, "close_done")
  /\ UNCHANGED <<queueVars, sub, overtaken, storeVars, workerVars, faults>>

\* asyncio.wait_for gives up.
TimesOut(q) ==
  /\ pc[q] = "listen"
  /\ Goto(q, "close_timeout")
  /\ UNCHANGED <<queueVars, sub, overtaken, storeVars, workerVars, faults>>

\* unsubscribe() and close(), then on to where the branch leads.
Close(q) ==
  /\ \/ pc[q] = "close_hit"     /\ Goto(q, "delete")
     \/ pc[q] = "close_done"    /\ Goto(q, "fetch")
     \/ pc[q] = "close_timeout" /\ Goto(q, "504")
     \/ pc[q] = "close_error"   /\ Goto(q, "500 error")
  /\ sub' = [sub EXCEPT ![q] = "none"]
  /\ inbox' = [inbox EXCEPT ![q] = FALSE]
  /\ UNCHANGED <<queueVars, overtaken, cache, status, result, workerVars, faults>>

\* GET after DONE.
Fetch(q) ==
  /\ pc[q] = "fetch"
  /\ Goto(q, IF cache[q] THEN "delete" ELSE "inspect")
  /\ UNCHANGED <<queueVars, sub, overtaken, storeVars, workerVars, faults>>

\* HGETALL when the cache was empty, and a RuntimeError either way.
Inspect(q) ==
  /\ pc[q] = "inspect"
  /\ Goto(q, IF status[q] = "FAILED" THEN "500 failed" ELSE "500 empty")
  /\ UNCHANGED <<queueVars, sub, overtaken, storeVars, workerVars, faults>>

\* DEL of the cached result, then HTTP 200 with it.
Serve(q) ==
  /\ pc[q] = "delete"
  /\ cache' = [cache EXCEPT ![q] = FALSE]
  /\ Goto(q, "200")
  /\ UNCHANGED <<queueVars, sub, overtaken, inbox, status, result, workerVars, faults>>

\* A command raises, having run or not, and global_exception_handler answers.
\* Only what is raised inside the try block meets the clause that closes the
\* subscription.
GatewayFails(q) ==
  /\ Fault("gateway")
  /\ \/ /\ pc[q] = "new"
        /\ Queue!Submit(q) \/ UNCHANGED <<place, done, wild>>
        /\ UNCHANGED <<sub, cache, status>>
     \/ /\ pc[q] = "register"
        /\ \/ status' = [status EXCEPT ![q] = "PENDING"]
           \/ UNCHANGED status
        /\ UNCHANGED <<place, done, wild, sub, cache>>
     \/ /\ pc[q] = "subscribe"
        /\ \/ sub' = [sub EXCEPT ![q] = "sent"]
           \/ UNCHANGED sub
        /\ UNCHANGED <<place, done, wild, cache, status>>
     \/ /\ pc[q] = "delete"
        /\ \/ cache' = [cache EXCEPT ![q] = FALSE]
           \/ UNCHANGED cache
        /\ UNCHANGED <<place, done, wild, sub, status>>
     \/ /\ pc[q] \in {"get1", "get2", "listen", "fetch", "inspect", "close_hit",
                      "close_done", "close_timeout", "close_error"}
        /\ UNCHANGED <<place, done, wild, sub, cache, status>>
  /\ Goto(q, IF pc[q] = "listen" THEN "close_error" ELSE "500 error")
  /\ UNCHANGED <<holder, overtaken, inbox, result, workerVars>>

-----------------------------------------------------------------------------
(* Worker: process_task                                                    *)

\* BRPOPLPUSH.
Take(w, q) ==
  /\ wpc[w] = "idle"
  /\ Queue!Take(q)
  /\ holder' = [holder EXCEPT ![q] = w]
  /\ Continue(w, "start")
  /\ wreq' = [wreq EXCEPT ![w] = q]
  /\ UNCHANGED <<gatewayVars, storeVars, history, faults>>

\* The reply is lost: the task stays with a worker that does not run it.
TakeReplyLost(w, q) ==
  /\ wpc[w] = "idle"
  /\ Fault("worker")
  /\ Queue!Take(q)
  /\ holder' = [holder EXCEPT ![q] = w]
  /\ broken' = broken \cup {q}
  /\ UNCHANGED <<gatewayVars, storeVars, wpc, wreq, published, redelivered>>

\* HSET status PROCESSING.
SetProcessing(w) ==
  /\ wpc[w] = "start"
  /\ status' = [status EXCEPT ![wreq[w]] = "PROCESSING"]
  /\ Continue(w, "generate")
  /\ UNCHANGED <<queueVars, gatewayVars, inbox, cache, result, wreq, history, faults>>

\* runner.generate in the thread pool.
Generate(w) ==
  /\ wpc[w] = "generate"
  /\ Continue(w, "store")
  /\ UNCHANGED <<queueVars, gatewayVars, storeVars, wreq, history, faults>>

GenerateFails(w) ==
  /\ wpc[w] = "generate"
  /\ Fault("model")
  /\ Continue(w, "fail")
  /\ UNCHANGED <<queueVars, gatewayVars, storeVars, wreq, history>>

\* SET result:<id>.
StoreResult(w) ==
  /\ wpc[w] = "store"
  /\ cache' = [cache EXCEPT ![wreq[w]] = TRUE]
  /\ Continue(w, "complete")
  /\ UNCHANGED <<queueVars, gatewayVars, inbox, status, result, wreq, history, faults>>

\* HSET status COMPLETED with the result.
SetCompleted(w) ==
  /\ wpc[w] = "complete"
  /\ status' = [status EXCEPT ![wreq[w]] = "COMPLETED"]
  /\ result' = [result EXCEPT ![wreq[w]] = TRUE]
  /\ Continue(w, "publish")
  /\ UNCHANGED <<queueVars, gatewayVars, inbox, cache, wreq, history, faults>>

Publish(w) ==
  /\ wpc[w] = "publish"
  /\ Deliver(wreq[w])
  /\ Finally(w)
  /\ UNCHANGED <<gatewayVars, cache, status, result, wreq, broken, redelivered, faults>>

\* The except clause: HSET status FAILED with the error, and no PUBLISH.
SetFailed(w) ==
  /\ wpc[w] = "fail"
  /\ status' = [status EXCEPT ![wreq[w]] = "FAILED"]
  /\ Finally(w)
  /\ UNCHANGED <<gatewayVars, inbox, cache, result, wreq, history, faults>>

\* LREM takes the task from the list of w if it is still there.
Remove(w) ==
  IF holder[wreq[w]] = w
  THEN Queue!Discharge(wreq[w]) /\ holder' = [holder EXCEPT ![wreq[w]] = None]
  ELSE UNCHANGED queueVars

Ack(w) ==
  /\ wpc[w] = "ack"
  /\ Remove(w)
  /\ Continue(w, "idle")
  /\ wreq' = [wreq EXCEPT ![w] = None]
  /\ UNCHANGED <<gatewayVars, storeVars, history, faults>>

\* A command in the try block raises, having run or not: on to the except
\* clause.
CommandFails(w) ==
  /\ Fault("worker")
  /\ LET q == wreq[w] IN
     \/ /\ wpc[w] = "start"
        /\ status' \in {status, [status EXCEPT ![q] = "PROCESSING"]}
        /\ UNCHANGED <<inbox, cache, result, published>>
     \/ /\ wpc[w] = "store"
        /\ cache' \in {cache, [cache EXCEPT ![q] = TRUE]}
        /\ UNCHANGED <<inbox, status, result, published>>
     \/ /\ wpc[w] = "complete"
        /\ \/ UNCHANGED <<status, result>>
           \/ /\ status' = [status EXCEPT ![q] = "COMPLETED"]
              /\ result' = [result EXCEPT ![q] = TRUE]
        /\ UNCHANGED <<inbox, cache, published>>
     \/ /\ wpc[w] = "publish"
        /\ Deliver(q) \/ UNCHANGED <<inbox, published>>
        /\ UNCHANGED <<cache, status, result>>
  /\ Continue(w, "fail")
  /\ broken' = broken \cup {wreq[w]}
  /\ UNCHANGED <<queueVars, gatewayVars, wreq, redelivered>>

\* HSET status FAILED raises in turn: the finally clause runs all the same.
SetFailedFails(w) ==
  /\ wpc[w] = "fail"
  /\ Fault("worker")
  /\ status' \in {status, [status EXCEPT ![wreq[w]] = "FAILED"]}
  /\ Finally(w)
  /\ broken' = broken \cup {wreq[w]}
  /\ UNCHANGED <<gatewayVars, inbox, cache, result, wreq, published, redelivered>>

\* LREM raises, having run or not.
AckFails(w) ==
  /\ wpc[w] = "ack"
  /\ Fault("worker")
  /\ Remove(w) \/ UNCHANGED queueVars
  /\ Continue(w, "idle")
  /\ wreq' = [wreq EXCEPT ![w] = None]
  /\ broken' = broken \cup {wreq[w]}
  /\ UNCHANGED <<gatewayVars, storeVars, published, redelivered>>

Crash(w) ==
  /\ wpc[w] # "down"
  /\ Fault("crash")
  /\ Continue(w, "down")
  /\ wreq' = [wreq EXCEPT ![w] = None]
  /\ UNCHANGED <<queueVars, gatewayVars, storeVars, history>>

-----------------------------------------------------------------------------
(* The rest of the system: reapers and the TTL of the cached result        *)

Misjudge ==
  /\ ~ wild
  /\ Fault("misjudge")
  /\ Queue!GoWild
  /\ UNCHANGED <<holder, gatewayVars, storeVars, workerVars>>

\* A reaper puts the task of a dead worker back, or of one taken for dead.
Redeliver(q) ==
  /\ holder[q] # None
  /\ wild \/ wpc[holder[q]] = "down"
  /\ Queue!Return(q)
  /\ holder' = [holder EXCEPT ![q] = None]
  /\ redelivered' = redelivered \cup {q}
  /\ UNCHANGED <<gatewayVars, storeVars, wpc, wreq, published, broken, faults>>

\* A reaper deletes the list of a worker taken for dead, with a task in it.
Drop(q) ==
  /\ Queue!Drop({q})
  /\ holder' = [holder EXCEPT ![q] = None]
  /\ UNCHANGED <<gatewayVars, storeVars, workerVars, faults>>

\* 300 seconds after the last SET; with the settings of the repository the
\* client has long been answered.
ResultExpires(q) ==
  /\ cache[q]
  /\ ShortTTL \/ Answered(q)
  /\ cache' = [cache EXCEPT ![q] = FALSE]
  /\ UNCHANGED <<queueVars, gatewayVars, inbox, status, result, workerVars, faults>>

-----------------------------------------------------------------------------
HandlerStep(q) ==
  \/ Register(q) \/ FirstLook(q) \/ Subscribe(q) \/ SecondLook(q) \/ Notified(q)
  \/ TimesOut(q) \/ Close(q) \/ Fetch(q) \/ Inspect(q) \/ Serve(q)

ProcessStep(w) ==
  \/ SetProcessing(w) \/ Generate(w) \/ StoreResult(w) \/ SetCompleted(w)
  \/ Publish(w) \/ SetFailed(w) \/ Ack(w)

WorkerFault(w) ==
  GenerateFails(w) \/ CommandFails(w) \/ SetFailedFails(w) \/ AckFails(w) \/ Crash(w)

Next ==
  \/ \E q \in Requests : \/ Submit(q) \/ HandlerStep(q) \/ GatewayFails(q)
                         \/ SubscribeArrives(q) \/ ResultExpires(q)
                         \/ Redeliver(q) \/ Drop(q)
  \/ \E w \in Workers : \/ \E q \in Requests : Take(w, q) \/ TakeReplyLost(w, q)
                        \/ ProcessStep(w) \/ WorkerFault(w)
  \/ Misjudge

Spec == Init /\ [][Next]_vars

\* A handler goes on, its timeout included; a worker takes what waits and goes
\* on; what was sent arrives; a reaper puts back what a dead worker held.
Fairness ==
  /\ \A q \in Requests : /\ WF_vars(HandlerStep(q))
                         /\ WF_vars(SubscribeArrives(q))
                         /\ WF_vars(Redeliver(q))
  /\ \A w \in Workers : /\ WF_vars(\E q \in Requests : Take(w, q))
                        /\ WF_vars(ProcessStep(w))

FairSpec == Spec /\ Fairness

-----------------------------------------------------------------------------
(* Properties                                                              *)

TypeOK ==
  /\ place \in [Requests -> {"new", "waiting", "held", "gone"}]
  /\ done \subseteq Requests
  /\ wild \in BOOLEAN
  /\ holder \in [Requests -> Workers \cup {None}]
  /\ \A q \in Requests : place[q] = "held" <=> holder[q] # None
  /\ pc \in [Requests -> Answers \cup
       {"new", "register", "get1", "subscribe", "get2", "listen", "close_hit",
        "close_done", "close_timeout", "close_error", "fetch", "inspect", "delete"}]
  /\ sub \in [Requests -> {"none", "sent", "on"}]
  /\ inbox \in [Requests -> BOOLEAN]
  /\ cache \in [Requests -> BOOLEAN]
  /\ status \in [Requests -> {"none", "PENDING", "PROCESSING", "COMPLETED", "FAILED"}]
  /\ result \in [Requests -> BOOLEAN]
  /\ wpc \in [Workers -> {"down", "idle", "start", "generate", "store", "complete",
                          "publish", "fail", "ack"}]
  /\ wreq \in [Workers -> Requests \cup {None}]
  /\ \A w \in Workers : wpc[w] \in {"down", "idle"} <=> wreq[w] = None
  /\ overtaken \subseteq Requests
  /\ published \subseteq Requests
  /\ broken \subseteq Requests
  /\ redelivered \subseteq Requests
  /\ faults \in 0..MaxFaults

\* Nobody will touch the task any more.
Settled(q) == place[q] = "gone" /\ \A w \in Workers : ~ Running(w, q)

\* No lost wake-up: a client that listens after DONE was sent out has it in
\* its inbox, wherever SET and PUBLISH fell between its two looks at the cache
\* and its subscription.
NoLostWakeup ==
  \A q \in Requests :
    pc[q] = "listen" /\ q \in published /\ q \notin overtaken => inbox[q]

\* DONE means that there is something to fetch, also when the task is executed
\* twice: a notified client is never told that the cache was empty.
NotifiedFindsResult ==
  \A q \in Requests : pc[q] \notin {"inspect", "500 failed", "500 empty"}

\* The task of a synchronous request is not discharged before its outcome is on
\* record, whichever worker died or was taken over at whichever command; only a
\* command that raised in the worker, or a list dropped by a reaper, can hide it.
SettledHasOutcome ==
  \A q \in Requests :
    Settled(q) /\ Kind[q] = "sync" /\ q \notin broken /\ ~ wild =>
      \/ status[q] = "COMPLETED" /\ result[q]
      \/ status[q] = "FAILED"

\* The answer and the record agree: HTTP 200 for a task on record as FAILED
\* takes a second execution, or a command that raised in the worker.
OutcomesAgree ==
  \A q \in Requests :
    pc[q] = "200" /\ status[q] = "FAILED" =>
      q \in broken \cup redelivered

\* The handler ends and its subscription stays open.
LeavesOpen(q) == ~ Answered(q) /\ Answered(q)' /\ sub'[q] # "none"

\* Where an exception meets no finally clause: at subscribe() and the second GET,
\* which stand outside the try block, and in unsubscribe() and close() themselves.
Exposed == {"subscribe", "get2", "close_hit", "close_done", "close_timeout", "close_error"}

\* A handler leaves its subscription open only by an exception at one of these
\* commands: not with any answer it means to give, and not when it times out or
\* anything else is raised while it listens, which the finally clause is for.
SubscriptionGivenBack ==
  [][\A q \in Requests :
       LeavesOpen(q) => pc[q] \in Exposed /\ pc'[q] = "500 error"]_vars

\* A synchronous client gets an answer, whatever becomes of workers and task.
SyncAnswered ==
  \A q \in Requests : pc[q] = "get1" ~> Answered(q)

\* The task of a synchronous request gets an outcome on record, though workers
\* crash between any two commands, while a worker is left, none was taken for
\* dead and none of their commands raised.
OutcomeRecorded ==
  \A q \in Requests :
    place[q] = "waiting" /\ Kind[q] = "sync" ~>
      \/ status[q] \in {"COMPLETED", "FAILED"}
      \/ q \in broken \/ wild
      \/ \A w \in Workers : wpc[w] = "down"

\* get_task_result: what a poll is told, 404 while there is no hash.
Shown(q) == IF status[q] = "none" THEN "404" ELSE status[q]

\* Once settled, an asynchronous task shows its client an outcome.
PollSeesOutcome ==
  \A q \in Requests :
    Settled(q) /\ pc[q] = "202" => Shown(q) \in {"COMPLETED", "FAILED"}

\* A client that waits for a task that has failed has been notified, so that it
\* can be told of the failure.
FailureIsReported ==
  \A q \in Requests :
    pc[q] = "listen" /\ Settled(q) /\ status[q] = "FAILED" => inbox[q]
=============================================================================
