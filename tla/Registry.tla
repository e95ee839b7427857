------------------------------ MODULE Registry ------------------------------
(***************************************************************************)
(* Heartbeats with their clock, and the catalogue read off them.           *)
(*                                                                         *)
(* While it runs a worker sets worker:<id> to its model every Interval,    *)
(* and Redis lets the key live for TTL.  GET /v1/models asks for the keys  *)
(* and then for each key's value, while keys come and go.                  *)
(*                                                                         *)
(* Time is counted in ticks.  The clock waits for whoever is due: a sleep  *)
(* ends on time, and a command takes at most Delay unless it hangs.  A SET *)
(* outlives its sender: what a worker no longer waits for, because it is   *)
(* down, has had an exception or hangs, may still reach Redis.  The queue  *)
(* sees the same keys in module ReliableQueue, without the clock.          *)
(***************************************************************************)
EXTENDS Naturals

CONSTANTS
  Workers,   \* worker processes
  Models,    \* model names
  ModelOf,   \* ModelOf[w]: the setting model_id of w
  Ids,       \* values of the setting worker_id
  IdOf,      \* IdOf[w]: the setting worker_id of w, not always unique
  Interval,  \* ticks between heartbeats
  TTL,       \* ticks a key lives
  Delay,     \* ticks a command takes at most, unless it hangs
  None       \* no key

ASSUME ConstantsOK ==
  /\ ModelOf \in [Workers -> Models]
  /\ IdOf \in [Workers -> Ids]
  /\ Interval \in Nat \ {0}
  /\ Delay \in Nat
  /\ TTL = 3 * Interval       \* the defaults of heartbeat_loop: 5 s and 15 s
  /\ 3 * Delay < Interval     \* a round trip to Redis is far below 5 s / 3
  /\ None \notin Models

VARIABLES
  key,      \* key[id]: the value of worker:<id>
  ttl,      \* ttl[id]: what is left of its life
  wpc,      \* wpc[w]: where heartbeat_loop of w is
  left,     \* left[w]: what is left of its sleep, or of the Delay
  late,     \* late[w]: how long a SET that w no longer waits for may still reach
            \* Redis: n for n - 1 more ticks, Stalled with no bound, 0 for none
  lpc,      \* where get_available_models is, or its answer
  todo,     \* the ids of KEYS not yet asked for
  found,    \* the models found
  strikes,  \* history: beats that failed in a row; 2 also before the first beat
            \* arrived and while one hangs
  gone,     \* history: how long w has been down with no stalled SET of it arriving
  steady,   \* history: workers up with fewer than 2 strikes since KEYS
  recent    \* history: the workers in Lately at KEYS or since

workerVars  == <<wpc, left>>
listVars    == <<lpc, todo, found>>
sinceKeys   == <<steady, recent>>
vars == <<key, ttl, workerVars, late, listVars, strikes, gone, sinceKeys>>

-----------------------------------------------------------------------------
Up(w) == wpc[w] # "down"
Trusted == {w \in Workers : Up(w) /\ strikes[w] < 2}

Stalled == Delay + 2
Later(m, n) == IF m > n THEN m ELSE n

\* The workers whose key may exist: the longest a key outlives its worker is TTL
\* after a SET that arrived Delay after the end, a stalled SET apart.
LongGone == TTL + Delay
Lately == {w \in Workers : Up(w) \/ gone[w] < LongGone}

Due(w) == wpc[w] \in {"sleep", "send", "reply"} /\ left[w] = 0

\* What becomes of the history of a listing with every other step.
Observe ==
  IF lpc = "get"
  THEN /\ steady' = steady \cap Trusted'
       /\ recent' = recent \cup Lately'
  ELSE UNCHANGED sinceKeys

Sleep(w, ticks) ==
  /\ wpc' = [wpc EXCEPT ![w] = "sleep"]
  /\ left' = [left EXCEPT ![w] = ticks]

\* SET worker:<id> <model> EX <ttl>.
Register(w) ==
  /\ key' = [key EXCEPT ![IdOf[w]] = ModelOf[w]]
  /\ ttl' = [ttl EXCEPT ![IdOf[w]] = TTL]

Init ==
  /\ key = [id \in Ids |-> None]
  /\ ttl = [id \in Ids |-> 0]
  /\ wpc = [w \in Workers |-> "down"]
  /\ left = [w \in Workers |-> 0]
  /\ late = [w \in Workers |-> 0]
  /\ lpc = "idle"
  /\ todo = {}
  /\ found = {}
  /\ strikes = [w \in Workers |-> 2]
  /\ gone = [w \in Workers |-> LongGone]
  /\ steady = {}
  /\ recent = {}

-----------------------------------------------------------------------------
(* Wrong variants of the steps below.  Next uses none of them; each stands  *)
(* for a plausible slip in the code and shows that a property would notice. *)

\* GET of a key that has expired ends the loop.
GetEndsAtExpired(id) ==
  /\ lpc = "get"
  /\ id \in todo
  /\ found' = found \cup ({key[id]} \ {None})
  /\ todo' = IF key[id] = None THEN {} ELSE todo \ {id}
  /\ lpc' = IF todo' = {} THEN "listed" ELSE "get"
  /\ UNCHANGED <<key, ttl, workerVars, late, strikes, gone, sinceKeys>>

\* The set of models outlives the call.
ListKeysKeepsFound ==
  /\ lpc # "get"
  /\ todo' = {id \in Ids : key[id] # None}
  /\ lpc' = IF todo' = {} THEN "listed" ELSE "get"
  /\ steady' = Trusted
  /\ recent' = Lately
  /\ UNCHANGED <<key, ttl, workerVars, late, found, strikes, gone>>

\* After a failure the next attempt waits twice as long.
FailsWithBackoff(w) ==
  /\ wpc[w] = "send"
  /\ Sleep(w, 2 * Interval)
  /\ late' = [late EXCEPT ![w] = Later(@, left[w] + 1)]
  /\ strikes' = [strikes EXCEPT ![w] = IF @ = 2 THEN 2 ELSE @ + 1]
  /\ UNCHANGED <<key, ttl, listVars, gone>>
  /\ Observe

\* SET and EXPIRE as two commands, the second forgotten.
ArrivesForGood(w) ==
  /\ wpc[w] = "send"
  /\ key' = [key EXCEPT ![IdOf[w]] = ModelOf[w]]
  /\ wpc' = [wpc EXCEPT ![w] = "reply"]
  /\ strikes' = [strikes EXCEPT ![w] = 0]
  /\ UNCHANGED <<ttl, left, late, listVars, gone>>
  /\ Observe

-----------------------------------------------------------------------------
(* Worker: heartbeat_loop and register_worker                              *)

\* The process starts, or starts again; its first beat goes out at once.
ComeUp(w) ==
  /\ ~ Up(w)
  /\ wpc' = [wpc EXCEPT ![w] = "send"]
  /\ left' = [left EXCEPT ![w] = Delay]
  /\ gone' = [gone EXCEPT ![w] = 0]
  /\ UNCHANGED <<key, ttl, late, listVars, strikes>>
  /\ Observe

\* A crash, or a stop, which cancels the task: the key is left to its TTL, and a
\* SET already sent is not taken back.
GoDown(w) ==
  /\ Up(w)
  /\ wpc' = [wpc EXCEPT ![w] = "down"]
  /\ left' = [left EXCEPT ![w] = 0]
  /\ late' = IF wpc[w] = "send" THEN [late EXCEPT ![w] = Later(@, left[w] + 1)] ELSE late
  /\ strikes' = [strikes EXCEPT ![w] = 2]
  /\ UNCHANGED <<key, ttl, listVars, gone>>
  /\ Observe

Beat(w) ==
  /\ wpc[w] = "sleep"
  /\ left[w] = 0
  /\ wpc' = [wpc EXCEPT ![w] = "send"]
  /\ left' = [left EXCEPT ![w] = Delay]
  /\ UNCHANGED <<key, ttl, late, listVars, strikes, gone>>
  /\ Observe

\* Redis runs the SET.
Arrives(w) ==
  /\ wpc[w] = "send"
  /\ Register(w)
  /\ wpc' = [wpc EXCEPT ![w] = "reply"]
  /\ strikes' = [strikes EXCEPT ![w] = 0]
  /\ UNCHANGED <<left, late, listVars, gone>>
  /\ Observe

\* The reply, or an exception in its place, which is logged: either way the
\* loop sleeps for the interval.
Returns(w) ==
  /\ wpc[w] = "reply"
  /\ Sleep(w, Interval)
  /\ UNCHANGED <<key, ttl, late, listVars, strikes, gone>>
  /\ Observe

\* "Failed to register heartbeat, will retry": not before the next interval.
\* Whether Redis still runs the SET the exception does not tell.
BeatFails(w) ==
  /\ wpc[w] = "send"
  /\ Sleep(w, Interval)
  /\ late' = [late EXCEPT ![w] = Later(@, left[w] + 1)]
  /\ strikes' = [strikes EXCEPT ![w] = IF @ = 2 THEN 2 ELSE @ + 1]
  /\ UNCHANGED <<key, ttl, listVars, gone>>
  /\ Observe

\* No socket timeout is set: a command may hang until the connection breaks, and
\* a SET may reach Redis as late as that, or later.
Hang(w) ==
  /\ wpc[w] \in {"send", "reply"}
  /\ left[w] = 0
  /\ wpc' = [wpc EXCEPT ![w] = "hung"]
  /\ late' = IF wpc[w] = "send" THEN [late EXCEPT ![w] = Stalled] ELSE late
  /\ strikes' = [strikes EXCEPT ![w] = 2]
  /\ UNCHANGED <<key, ttl, left, listVars, gone>>
  /\ Observe

HangEnds(w) ==
  /\ wpc[w] = "hung"
  /\ Sleep(w, Interval)
  /\ UNCHANGED <<key, ttl, late, listVars, strikes, gone>>
  /\ Observe

\* Redis runs a SET whose worker has stopped waiting for it, and may be down.
ArrivesLate(w) ==
  /\ late[w] > 0
  /\ Register(w)
  /\ gone' = [gone EXCEPT ![w] = IF late[w] = Stalled THEN 0 ELSE @]
  /\ UNCHANGED <<workerVars, late, listVars, strikes>>
  /\ Observe

\* TCP gives up a connection with what is stalled on it.
GiveUp(w) ==
  /\ late[w] = Stalled
  /\ late' = [late EXCEPT ![w] = 0]
  /\ UNCHANGED <<key, ttl, workerVars, listVars, strikes, gone>>
  /\ Observe

-----------------------------------------------------------------------------
(* Gateway: get_active_models and get_available_models                     *)

\* KEYS worker:*
ListKeys ==
  /\ lpc # "get"
  /\ found' = {}
  /\ todo' = {id \in Ids : key[id] # None}
  /\ lpc' = IF todo' = {} THEN "listed" ELSE "get"
  /\ steady' = Trusted
  /\ recent' = Lately
  /\ UNCHANGED <<key, ttl, workerVars, late, strikes, gone>>

\* GET of one key; it may have expired or been overwritten since.
GetKey(id) ==
  /\ lpc = "get"
  /\ id \in todo
  /\ found' = found \cup ({key[id]} \ {None})
  /\ todo' = todo \ {id}
  /\ lpc' = IF todo' = {} THEN "listed" ELSE "get"
  /\ UNCHANGED <<key, ttl, workerVars, late, strikes, gone, sinceKeys>>

\* KEYS or GET raises: an empty list, and so the static one.
ListFails ==
  /\ lpc' = "failed"
  /\ todo' = {}
  /\ found' = {}
  /\ steady' = {}
  /\ recent' = {}
  /\ UNCHANGED <<key, ttl, workerVars, late, strikes, gone>>

-----------------------------------------------------------------------------
\* The clock, and Redis, which drops a key when its time is up.
Tick ==
  /\ \A w \in Workers : ~ Due(w)
  /\ left' = [w \in Workers |-> IF left[w] = 0 THEN 0 ELSE left[w] - 1]
  /\ ttl' = [id \in Ids |-> IF ttl[id] = 0 THEN 0 ELSE ttl[id] - 1]
  /\ key' = [id \in Ids |-> IF ttl'[id] = 0 THEN None ELSE key[id]]
  /\ late' = [w \in Workers |-> IF late[w] \in {0, Stalled} THEN late[w] ELSE late[w] - 1]
  /\ gone' = [w \in Workers |->
                IF Up(w) \/ gone[w] = LongGone THEN gone[w] ELSE gone[w] + 1]
  /\ UNCHANGED <<wpc, listVars, strikes, sinceKeys>>

HeartbeatStep(w) ==
  \/ ComeUp(w) \/ GoDown(w) \/ Beat(w) \/ Arrives(w) \/ Returns(w) \/ BeatFails(w)
  \/ Hang(w) \/ HangEnds(w) \/ ArrivesLate(w) \/ GiveUp(w)

Next ==
  \/ \E w \in Workers : HeartbeatStep(w)
  \/ ListKeys
  \/ \E id \in Ids : GetKey(id)
  \/ ListFails
  \/ Tick

Spec == Init /\ [][Next]_vars

-----------------------------------------------------------------------------
(* Properties                                                              *)

TypeOK ==
  /\ key \in [Ids -> Models \cup {None}]
  /\ ttl \in [Ids -> 0..TTL]
  /\ \A id \in Ids : key[id] = None <=> ttl[id] = 0
  /\ wpc \in [Workers -> {"down", "sleep", "send", "reply", "hung"}]
  /\ left \in [Workers -> 0..Interval]
  /\ late \in [Workers -> 0..Stalled]
  /\ lpc \in {"idle", "get", "listed", "failed"}
  /\ todo \subseteq Ids
  /\ found \subseteq Models
  /\ strikes \in [Workers -> 0..2]
  /\ gone \in [Workers -> 0..LongGone]
  /\ steady \subseteq Workers
  /\ recent \subseteq Workers

\* One failed beat does not cost a worker its key, however the delays of its
\* commands add up; two in a row may, since the third comes too late.
OneFailureTolerated ==
  \A w \in Trusted : key[IdOf[w]] # None

\* A listed model had a worker that was up at most TTL and one Delay before the
\* listing, or of which a stalled SET arrived in that time: a worker that died in
\* the middle of a beat is listed longer than TTL, but no longer than that.
ListedWasServed ==
  lpc = "listed" => \A m \in found : \E w \in recent : ModelOf[w] = m

\* A worker that was up all through the listing, and had missed at most one
\* beat, has its model listed, though other keys expire or appear between KEYS
\* and GET; unless another worker set the same key to another model.
SteadyIsListed ==
  lpc = "listed" =>
    \A w \in steady :
      \/ ModelOf[w] \in found
      \/ \E v \in Workers : IdOf[v] = IdOf[w] /\ ModelOf[v] # ModelOf[w]
=============================================================================
