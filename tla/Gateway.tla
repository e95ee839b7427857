------------------------------ MODULE Gateway ------------------------------
(***************************************************************************)
(* One gateway process and its Redis connections.                          *)
(*                                                                         *)
(* The handlers of all routes and the reaper are coroutines that share one *)
(* redis-py connection pool.  A command holds a connection from its        *)
(* sending to its reply; a PubSub holds one from subscribe to close.  A    *)
(* full pool does not make its clients wait: it raises.  So does a command *)
(* while Redis is out of reach.  What the commands do to the data in Redis *)
(* is the business of ReliableQueue and Completion; here a reply may be    *)
(* any of those the handler tells apart.                                   *)
(***************************************************************************)
EXTENDS Naturals, FiniteSets

CONSTANTS
  Handlers,  \* requests served at once, one coroutine each
  Reaper,    \* the coroutine of reaper_loop
  Routes,    \* the routes that clients call
  PoolSize,  \* max_connections of the pool
  Outages    \* Redis may get out of reach, for a while or for good

ASSUME ConstantsOK ==
  /\ IsFiniteSet(Handlers)
  /\ Reaper \notin Handlers
  /\ Routes \subseteq {"chat", "tasks", "poll", "models", "health"}
  /\ PoolSize \in Nat \ {0}
  /\ Outages \in BOOLEAN

VARIABLES
  phase,    \* "starting", "up", "degraded" (started without Redis), "closed"
  redis,    \* Redis can be reached
  pc,       \* pc[c]: the step of coroutine c, or the handler's answer
  busy,     \* the coroutines with a command in flight
  sub,      \* the handlers that hold the connection of a PubSub
  leaked,   \* connections of PubSubs that no handler will close any more
  crowded,  \* history: more was asked of the pool at once than it has
  lost      \* history: Redis has been out of reach

history == <<crowded, lost>>
vars == <<phase, redis, pc, busy, sub, leaked, history>>

-----------------------------------------------------------------------------
Coroutines == Handlers \cup {Reaper}

\* A coroutine's step is named for the command it sends: in the chat request,
\* submission, polling, the catalogue (one GET stands for those of all keys), the
\* health check, and a pass of the reaper (one step stands for its commands after
\* the scan).
ChatCommands == {"llen", "lpush", "get1", "get2", "get3", "inspect", "del"}
Commands == ChatCommands \cup {"llen_task", "lpush_task", "hset", "hgetall", "keys",
                               "get", "ping", "scan", "recover"}

\* Where the reply may lead.
ChatNext(step) ==
  CASE step = "llen"    -> {"429", "lpush"}
    [] step = "lpush"   -> {"get1"}
    [] step = "get1"    -> {"del", "subscribe"}
    [] step = "get2"    -> {"close_hit", "listen"}
    [] step = "get3"    -> {"del", "inspect"}
    [] step = "inspect" -> {"500 failed"}
    [] step = "del"     -> {"200"}
    [] OTHER            -> {}

SubmitNext(step) ==
  CASE step = "llen_task"  -> {"429", "lpush_task"}
    [] step = "lpush_task" -> {"hset"}
    [] step = "hset"       -> {"202"}
    [] OTHER               -> {}

PollNext(step) == IF step = "hgetall" THEN {"200", "404"} ELSE {}

ModelsNext(step) ==
  CASE step = "keys" -> {"get", "200 static"}
    [] step = "get"  -> {"200", "200 static"}
    [] OTHER         -> {}

HealthNext(step) == IF step = "ping" THEN {"200"} ELSE {}

ReaperNext(step) ==
  CASE step = "scan"    -> {"recover", "done"}
    [] step = "recover" -> {"done"}
    [] OTHER            -> {}

AfterReply(step) ==
  ChatNext(step) \cup SubmitNext(step) \cup PollNext(step) \cup ModelsNext(step)
    \cup HealthNext(step) \cup ReaperNext(step)

\* unsubscribe() and close(), and where they lead.
Closing == {"close_hit", "close_done", "close_timeout", "close_error"}
AfterClose(step) ==
  CASE step = "close_hit"     -> "del"
    [] step = "close_done"    -> "get3"
    [] step = "close_timeout" -> "504"
    [] step = "close_error"   -> "500 error"

\* "200 static" and "200 stub" are answered without Redis; the second three
\* are what a Redis error turns into.
Answers == {"none", "200", "200 static", "200 stub", "202", "401", "404", "429",
            "500 failed", "504"}
Errors  == {"500 error", "200 static after error", "200 not connected"}

Answered(h) == pc[h] \in Answers \cup Errors
Active == {h \in Handlers : ~ Answered(h)}

\* Connections out of the pool, and how many the active coroutines may come to
\* need: a chat two, its PubSub and a command; the others and the reaper one.
InUse == Cardinality(busy) + Cardinality(sub) + leaked
Chats == {h \in Handlers : pc[h] \in ChatCommands \cup Closing \cup {"subscribe", "listen"}}
Demand == Cardinality(Active) + Cardinality(Chats) + 1

FirstStep == [chat |-> "llen", tasks |-> "llen_task", poll |-> "hgetall",
              models |-> "keys", health |-> "ping"]

\* Without a client the routes answer from fixed data.
Fallback == [chat |-> "200 stub", tasks |-> "202", poll |-> "200",
             models |-> "200 static", health |-> "200 not connected"]

\* The wrong variants below are used by no action; each stands for a plausible
\* slip in the code and shows that a property would notice it.

\* No except clause in reap_stale_tasks: the first error ends reaper_loop.
OnErrorReaperEnds(c) ==
  CASE pc[c] \in {"keys", "get"}     -> "200 static after error"
    [] pc[c] = "ping"                -> "200 not connected"
    [] pc[c] \in {"scan", "recover"} -> "off"
    [] OTHER                         -> "500 error"

\* get_available_models, ping and reap_stale_tasks swallow exceptions, the other
\* routes leave them to global_exception_handler.
OnError(c) ==
  CASE pc[c] \in {"keys", "get"}     -> "200 static after error"
    [] pc[c] = "ping"                -> "200 not connected"
    [] pc[c] \in {"scan", "recover"} -> "sleep"
    [] OTHER                         -> "500 error"

Goto(c, step) == pc' = [pc EXCEPT ![c] = step]

Init ==
  /\ phase = "starting"
  /\ redis \in IF Outages THEN BOOLEAN ELSE {TRUE}
  /\ pc = [c \in Coroutines |-> IF c = Reaper THEN "off" ELSE "none"]
  /\ busy = {}
  /\ sub = {}
  /\ leaked = 0
  /\ crowded = FALSE
  /\ lost = ~ redis

-----------------------------------------------------------------------------
(* Wrong variants of the steps below.                                      *)

\* A pool that makes its clients wait (BlockingConnectionPool, no timeout).
WaitWhenFull(c) == FALSE /\ c \in Coroutines /\ UNCHANGED vars

\* No finally clause: the timeout leaves the PubSub open.
TimeOutUnclosed(h) ==
  /\ pc[h] = "listen"
  /\ Goto(h, "504")
  /\ sub' = sub \ {h}
  /\ leaked' = leaked + 1
  /\ UNCHANGED <<phase, redis, busy, history>>

\* The caller of a broken command keeps its connection.
BreakKeepsConnection(c) ==
  /\ c \in busy
  /\ ~ redis
  /\ Goto(c, OnError(c))
  /\ UNCHANGED <<phase, redis, busy, sub, leaked, history>>

-----------------------------------------------------------------------------
(* Lifespan                                                                *)

\* connect() with its PING: the reaper starts if it succeeds, and nothing tries
\* again if it fails.
Start ==
  /\ phase = "starting"
  /\ IF redis THEN phase' = "up" /\ Goto(Reaper, "sleep")
              ELSE phase' = "degraded" /\ UNCHANGED pc
  /\ UNCHANGED <<redis, busy, sub, leaked, history>>

\* The server has let its requests finish; then the reaper is cancelled and the
\* pool closes every connection, those in use included.
Teardown ==
  /\ phase \in {"up", "degraded"}
  /\ Active = {}
  /\ phase' = "closed"
  /\ Goto(Reaper, "off")
  /\ busy' = {}
  /\ leaked' = 0
  /\ UNCHANGED <<redis, sub, history>>

RedisLost ==
  /\ Outages
  /\ redis
  /\ redis' = FALSE
  /\ lost' = TRUE
  /\ UNCHANGED <<phase, pc, busy, sub, leaked, crowded>>

RedisBack ==
  /\ ~ redis
  /\ redis' = TRUE
  /\ UNCHANGED <<phase, pc, busy, sub, leaked, history>>

-----------------------------------------------------------------------------
(* Requests                                                                *)

\* A request with a good API key, or to /health, which asks for none.
Arrive(h) ==
  /\ phase \in {"up", "degraded"}
  /\ Answered(h)
  /\ \E r \in Routes : Goto(h, IF phase = "up" THEN FirstStep[r] ELSE Fallback[r])
  /\ crowded' = (crowded \/ Demand' > PoolSize)
  /\ UNCHANGED <<phase, redis, busy, sub, leaked, lost>>

\* verify_api_key.
Reject(h) ==
  /\ phase \in {"up", "degraded"}
  /\ Answered(h)
  /\ Routes # {"health"}
  /\ Goto(h, "401")
  /\ UNCHANGED <<phase, redis, busy, sub, leaked, history>>

-----------------------------------------------------------------------------
(* Commands                                                                *)

Ready(c) == phase = "up" /\ pc[c] \in Commands /\ c \notin busy

\* An exception leaves wait_for_inference_result, or get_available_models and
\* its like catch it.  A PubSub that is open outside the try block stays open.
Raise(c) ==
  /\ Goto(c, OnError(c))
  /\ sub' = sub \ {c}
  /\ leaked' = IF c \in sub THEN leaked + 1 ELSE leaked

\* The pool hands out a connection.
Send(c) ==
  /\ Ready(c)
  /\ InUse < PoolSize
  /\ busy' = busy \cup {c}
  /\ UNCHANGED <<phase, redis, pc, sub, leaked, history>>

\* "Too many connections".
Refuse(c) ==
  /\ Ready(c)
  /\ InUse >= PoolSize
  /\ Raise(c)
  /\ UNCHANGED <<phase, redis, busy, history>>

Reply(c) ==
  /\ c \in busy
  /\ redis
  /\ busy' = busy \ {c}
  /\ \E step \in AfterReply(pc[c]) : Goto(c, step)
  /\ UNCHANGED <<phase, redis, sub, leaked, history>>

Break(c) ==
  /\ c \in busy
  /\ ~ redis
  /\ busy' = busy \ {c}
  /\ Raise(c)
  /\ UNCHANGED <<phase, redis, history>>

-----------------------------------------------------------------------------
(* The subscription of a chat request                                      *)

Subscribe(h) ==
  /\ pc[h] = "subscribe"
  /\ InUse < PoolSize
  /\ redis
  /\ sub' = sub \cup {h}
  /\ Goto(h, "get2")
  /\ UNCHANGED <<phase, redis, busy, leaked, history>>

\* No connection left, or one that cannot be opened, or one out of the pool that
\* has gone dead: the PubSub keeps the last.
SubscribeFails(h) ==
  /\ pc[h] = "subscribe"
  /\ \/ InUse >= PoolSize /\ UNCHANGED leaked
     \/ InUse < PoolSize /\ ~ redis /\ leaked' \in {leaked, leaked + 1}
  /\ Goto(h, "500 error")
  /\ UNCHANGED <<phase, redis, busy, sub, history>>

Notified(h) ==
  /\ pc[h] = "listen"
  /\ redis
  /\ Goto(h, "close_done")
  /\ UNCHANGED <<phase, redis, busy, sub, leaked, history>>

TimesOut(h) ==
  /\ pc[h] = "listen"
  /\ Goto(h, "close_timeout")
  /\ UNCHANGED <<phase, redis, busy, sub, leaked, history>>

ListenBreaks(h) ==
  /\ pc[h] = "listen"
  /\ ~ redis
  /\ Goto(h, "close_error")
  /\ UNCHANGED <<phase, redis, busy, sub, leaked, history>>

\* unsubscribe() writes to the PubSub's own connection, close() gives it back.
Close(h) ==
  /\ pc[h] \in Closing
  /\ sub' = sub \ {h}
  /\ Goto(h, AfterClose(pc[h]))
  /\ UNCHANGED <<phase, redis, busy, leaked, history>>

\* unsubscribe() raises on a dead connection, and close() is not reached.
CloseFails(h) ==
  /\ pc[h] \in Closing
  /\ ~ redis \/ pc[h] = "close_error"
  /\ Raise(h)
  /\ UNCHANGED <<phase, redis, busy, history>>

-----------------------------------------------------------------------------
\* reaper_loop: the sleep is over, a pass begins.
Wake ==
  /\ pc[Reaper] \in {"sleep", "done"}
  /\ Goto(Reaper, "scan")
  /\ UNCHANGED <<phase, redis, busy, sub, leaked, history>>

CommandStep(c) == Send(c) \/ Refuse(c) \/ Reply(c) \/ Break(c)

SubscriptionStep(h) ==
  \/ Subscribe(h) \/ SubscribeFails(h) \/ Notified(h) \/ TimesOut(h)
  \/ ListenBreaks(h) \/ Close(h) \/ CloseFails(h)

Next ==
  \/ Start \/ Teardown \/ RedisLost \/ RedisBack \/ Wake
  \/ \E c \in Coroutines : CommandStep(c)
  \/ \E h \in Handlers : Arrive(h) \/ Reject(h) \/ SubscriptionStep(h)

Spec == Init /\ [][Next]_vars

\* The event loop runs every coroutine, a command is answered or breaks, the
\* reaper wakes.  Nothing is assumed of clients, of Redis or of the operator.
Fairness ==
  /\ \A h \in Handlers : WF_vars(CommandStep(h) \/ SubscriptionStep(h))
  /\ WF_vars(CommandStep(Reaper) \/ Wake)

FairSpec == Spec /\ Fairness

-----------------------------------------------------------------------------
(* Properties                                                              *)

\* Types, and who may hold what: the pool is never overdrawn, a PubSub is open
\* only where the handler will come to close it or to lose it.
TypeOK ==
  /\ phase \in {"starting", "up", "degraded", "closed"}
  /\ redis \in BOOLEAN
  /\ pc \in [Coroutines -> Commands \cup Closing \cup Answers \cup Errors \cup
                           {"subscribe", "listen", "off", "sleep", "done"}]
  /\ busy \subseteq {c \in Coroutines : pc[c] \in Commands}
  /\ sub = {h \in Handlers : pc[h] \in Closing \cup {"get2", "listen"}}
  /\ leaked \in Nat
  /\ InUse <= PoolSize
  /\ crowded \in BOOLEAN
  /\ lost \in BOOLEAN

\* While Redis stays in reach and the requests at once need no more connections
\* than there are (24 chats, for a pool of 50), the pool never runs out, however
\* long the gateway runs: every way through the handlers gives back what it took.
SafeLoad ==
  crowded \/ lost \/ (leaked = 0 /\ \A h \in Handlers : pc[h] \notin Errors)

\* Every request is answered, though Redis goes away or the pool is exhausted:
\* nobody waits for a connection that another waiter holds.
RequestAnswered ==
  \A h \in Handlers : ~ Answered(h) ~> Answered(h)

\* A pass of the reaper that was cut short by a full pool or by Redis is not its
\* last: once there is a connection for it, it completes passes again.
ReaperSurvives ==
  <>[](phase = "up" /\ redis /\ InUse - Cardinality(busy \cap {Reaper}) < PoolSize)
    => []<>(pc[Reaper] = "done")

\* "A single ConnectionPool is shared [...] to avoid socket exhaustion", and
\* whoever subscribes unsubscribes: an exhausted pool recovers.
PoolRecovers == InUse = PoolSize ~> InUse < PoolSize
=============================================================================
