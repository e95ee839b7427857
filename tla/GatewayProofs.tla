---------------------------- MODULE GatewayProofs ----------------------------
(***************************************************************************)
(* The connection pool of Gateway, for any handlers, routes, pool size and *)
(* outages: it is never overdrawn, and a load it can bear never exhausts   *)
(* it.                                                                     *)
(***************************************************************************)
EXTENDS Gateway, FiniteSetTheorems, TLAPS

-----------------------------------------------------------------------------
(* The inductive invariant                                                 *)

Holding   == Closing \cup {"get2", "listen"}
ChatSteps == ChatCommands \cup Closing \cup {"subscribe", "listen"}
Steps     == Commands \cup Closing \cup Answers \cup Errors \cup
               {"subscribe", "listen", "off", "sleep", "done"}

\* TypeOK without the size of the pool.
Typed ==
  /\ phase \in {"starting", "up", "degraded", "closed"}
  /\ redis \in BOOLEAN
  /\ pc \in [Coroutines -> Steps]
  /\ busy \subseteq {c \in Coroutines : pc[c] \in Commands}
  /\ sub = {h \in Handlers : pc[h] \in Holding}
  /\ leaked \in Nat
  /\ crowded \in BOOLEAN
  /\ lost \in BOOLEAN

\* Only a gateway that is up talks to Redis.
OnlyUpIsBusy == phase # "up" => busy = {}

\* While Redis has not been lost the gateway did start and no listener broke.
Quiet ==
  ~ lost => /\ redis
            /\ phase # "degraded"
            /\ \A h \in Handlers : pc[h] # "close_error"

Bearable == crowded \/ Demand <= PoolSize

IInv == TypeOK /\ OnlyUpIsBusy /\ Quiet /\ Bearable /\ SafeLoad

\* TypeOK in its two parts.
LEMMA TypedAndBounded == TypeOK <=> Typed /\ InUse <= PoolSize
  BY DEF TypeOK, Typed, Steps, Holding

-----------------------------------------------------------------------------
(* The handlers' programs                                                  *)

\* The kinds of steps do not overlap.
LEMMA Kinds ==
  /\ Commands \cap (Answers \cup Errors) = {}
  /\ ChatSteps \cap (Answers \cup Errors) = {}
  /\ Holding \subseteq ChatSteps
  /\ Holding \cap (Answers \cup Errors) = {}
  /\ "subscribe" \notin Commands \cup Holding \cup Answers \cup Errors
  /\ Commands \cap Closing = {}
  /\ "listen" \notin Commands
  BY DEF Commands, ChatCommands, ChatSteps, Closing, Holding, Answers, Errors

\* A reply leads to a step of the same program.  A chat has its PubSub open
\* after it if it had it open before, and no reply is an error.
LEMMA ReplyLeads ==
  ASSUME NEW step \in Commands, NEW next \in AfterReply(step)
  PROVE  /\ next \in Steps
         /\ step \in Holding <=> next \in Holding
         /\ next # "close_error"
         /\ next \notin Errors
         /\ next \in ChatSteps => step \in ChatSteps
  BY DEF Steps, Commands, Closing, ChatCommands, ChatSteps, Holding, Answers, Errors,
     ChatNext, AfterReply, SubmitNext, PollNext, ModelsNext, HealthNext, ReaperNext

\* A closed PubSub is not open.
LEMMA CloseLeads ==
  ASSUME NEW step \in Closing
  PROVE  /\ AfterClose(step) \in Steps \ Holding
         /\ step # "close_error" => AfterClose(step) \notin Errors
         /\ AfterClose(step) # "close_error"
  BY DEF Steps, Commands, Closing, ChatCommands, Holding, Answers, Errors, AfterClose

\* An exception ends the handler's program, or the reaper's pass.
LEMMA ErrorLeads ==
  ASSUME NEW c
  PROVE  OnError(c) \in Steps \ (ChatSteps \cup Commands)
  BY DEF OnError, Steps, Commands, Closing, ChatCommands, ChatSteps, Answers, Errors

\* A request begins with the first command of its route, or with its answer.
LEMMA FirstLeads ==
  ASSUME NEW r \in Routes
  PROVE  /\ FirstStep[r] \in Steps \ (Holding \cup Errors \cup {"close_error"})
         /\ Fallback[r] \in Steps \ (ChatSteps \cup Commands)
<1> USE DEF FirstStep, Fallback, Steps, Commands, Closing, ChatCommands, ChatSteps, Holding,
            Answers, Errors
<1>1. r \in {"chat", "tasks", "poll", "models", "health"}
  BY ConstantsOK
<1>2. CASE r = "chat"
  BY <1>2
<1>3. CASE r = "tasks"
  BY <1>3
<1>4. CASE r = "poll"
  BY <1>4
<1>5. CASE r = "models"
  BY <1>5
<1>6. CASE r = "health"
  BY <1>6
<1> QED
  BY <1>1, <1>2, <1>3, <1>4, <1>5, <1>6

-----------------------------------------------------------------------------
(* Counting                                                                *)

\* All that is counted is finite.
LEMMA Finite ==
  ASSUME Typed
  PROVE  /\ IsFiniteSet(Coroutines)
         /\ IsFiniteSet(busy) /\ Cardinality(busy) \in Nat
         /\ IsFiniteSet(sub) /\ Cardinality(sub) \in Nat
         /\ IsFiniteSet(Active) /\ Cardinality(Active) \in Nat
         /\ IsFiniteSet(Chats) /\ Cardinality(Chats) \in Nat
         /\ InUse \in Nat
         /\ Demand \in Nat
<1>1. IsFiniteSet(Coroutines)
  BY ConstantsOK, FS_AddElement DEF Coroutines
<1>2. IsFiniteSet(busy) /\ IsFiniteSet(sub) /\ IsFiniteSet(Active) /\ IsFiniteSet(Chats)
  BY <1>1, ConstantsOK, FS_Subset DEF Typed, Active, Chats
<1> QED
  BY <1>1, <1>2, FS_CardinalityType DEF InUse, Demand, Typed

\* The same of Demand alone, to be used of the next state.
LEMMA DemandIsNumber == Typed => Demand \in Nat
  BY Finite

\* An exception neither takes a connection nor gives one back.
LEMMA RaiseKeeps ==
  ASSUME Typed, NEW c, Raise(c)
  PROVE  Cardinality(sub') + leaked' = Cardinality(sub) + leaked
<1>1. Cardinality(sub \ {c}) = IF c \in sub THEN Cardinality(sub) - 1 ELSE Cardinality(sub)
  BY Finite, FS_RemoveElement
<1> QED
  BY <1>1, Finite DEF Raise, Typed

\* A step in the program of a handler does not raise the demand.
LEMMA DemandShrinks ==
  ASSUME Typed, NEW c \in Coroutines, NEW step \in Steps, Goto(c, step),
         c \in Handlers => ~ Answered(c) \/ step \in Answers \cup Errors,
         step \in ChatSteps => pc[c] \in ChatSteps
  PROVE  Demand' \in Nat /\ Demand' <= Demand
<1>1. Active' \subseteq Active /\ Chats' \subseteq Chats
  BY DEF Typed, Goto, Active, Answered, Chats, ChatSteps, Coroutines
<1>2. /\ Cardinality(Active') \in Nat /\ Cardinality(Active') <= Cardinality(Active)
      /\ Cardinality(Chats') \in Nat /\ Cardinality(Chats') <= Cardinality(Chats)
  BY <1>1, Finite, FS_Subset, FS_CardinalityType
<1> QED
  BY <1>2, Finite DEF Demand

\* Who holds what, at most.
LEMMA HeldWithinDemand ==
  ASSUME Typed
  PROVE  busy \subseteq Active \cup {Reaper} /\ sub \subseteq Chats
  BY Kinds DEF Typed, Active, Answered, Coroutines, Chats, ChatSteps

\* The reaper adds one connection to those of the requests.
LEMMA ReaperCounts ==
  ASSUME Typed, NEW S \in SUBSET (Active \cup {Reaper})
  PROVE  IsFiniteSet(S) /\ Cardinality(S) \in Nat /\ Cardinality(S) <= Cardinality(Active) + 1
<1>1. IsFiniteSet(Active) /\ Cardinality(Active) \in Nat
  BY Finite
<1>2. /\ IsFiniteSet(Active \cup {Reaper})
      /\ Cardinality(Active \cup {Reaper}) =
           IF Reaper \in Active THEN Cardinality(Active) ELSE Cardinality(Active) + 1
  BY <1>1, FS_AddElement
<1>3. Cardinality(Active \cup {Reaper}) <= Cardinality(Active) + 1
  BY <1>1, <1>2
<1>4. IsFiniteSet(S) /\ Cardinality(S) <= Cardinality(Active \cup {Reaper})
  BY <1>2, FS_Subset
<1>5. Cardinality(S) \in Nat /\ Cardinality(Active \cup {Reaper}) \in Nat
  BY <1>2, <1>4, FS_CardinalityType
<1> QED
  BY <1>1, <1>3, <1>4, <1>5

\* Under a bearable load without leaks there is a connection for every command,
LEMMA RoomForCommand ==
  ASSUME Typed, Demand <= PoolSize, leaked = 0, NEW c \in Coroutines, pc[c] \in Commands,
         c \notin busy
  PROVE  InUse < PoolSize
<1>1. busy \cup {c} \in SUBSET (Active \cup {Reaper})
  BY HeldWithinDemand, Kinds DEF Coroutines, Active, Answered
<1>2. Cardinality(busy) + 1 <= Cardinality(Active) + 1
  <2>1. Cardinality(busy \cup {c}) = Cardinality(busy) + 1
    BY Finite, FS_AddElement
  <2>2. Cardinality(busy \cup {c}) <= Cardinality(Active) + 1
    BY <1>1, ReaperCounts
  <2> QED
    BY <2>1, <2>2
<1>3. Cardinality(sub) <= Cardinality(Chats)
  BY HeldWithinDemand, Finite, FS_Subset
<1> QED
  BY <1>2, <1>3, Finite, ConstantsOK DEF InUse, Demand

\* and for every subscription.
LEMMA RoomForSubscription ==
  ASSUME Typed, Demand <= PoolSize, leaked = 0, NEW h \in Handlers, pc[h] = "subscribe"
  PROVE  InUse < PoolSize
<1>1. sub \cup {h} \subseteq Chats /\ h \notin sub
  BY HeldWithinDemand, Kinds DEF Chats, Typed
<1>2. Cardinality(sub) + 1 <= Cardinality(Chats)
  <2>1. Cardinality(sub \cup {h}) = Cardinality(sub) + 1
    BY <1>1, Finite, FS_AddElement
  <2>2. Cardinality(sub \cup {h}) <= Cardinality(Chats)
    BY <1>1, Finite, FS_Subset
  <2> QED
    BY <2>1, <2>2
<1>3. Cardinality(busy) <= Cardinality(Active) + 1
  BY HeldWithinDemand, ReaperCounts
<1> QED
  BY <1>2, <1>3, Finite, ConstantsOK DEF InUse, Demand

-----------------------------------------------------------------------------
(* Types and the bound of the pool                                         *)

Sound == Typed /\ InUse <= PoolSize /\ OnlyUpIsBusy

\* The steps of the gateway's life and of Redis.
LEMMA LifeSound ==
  ASSUME Sound, Start \/ Teardown \/ RedisLost \/ RedisBack \/ Wake
  PROVE  Sound'
<1> USE DEF Sound, Typed, OnlyUpIsBusy, InUse, history
<1>0. {"off", "sleep", "scan"} \subseteq Steps /\ Reaper \in Coroutines /\ Reaper \notin Handlers
  BY ConstantsOK DEF Steps, Commands, Coroutines
<1>1. CASE Start
  <2>1. busy = {} /\ UNCHANGED <<redis, busy, sub, leaked, crowded, lost>>
    BY <1>1 DEF Start
  <2>2. /\ phase' \in {"up", "degraded"}
        /\ pc' \in [Coroutines -> Steps]
        /\ \A h \in Handlers : pc'[h] = pc[h]
    BY <1>0, <1>1 DEF Start, Goto, Coroutines
  <2>3. InUse' = InUse
    BY <2>1
  <2> QED
    BY <2>1, <2>2, <2>3
<1>2. CASE Teardown
  <2>1. sub = {}
    BY <1>2, Kinds DEF Teardown, Active, Answered
  <2>2. InUse' = 0
    BY <1>2, <2>1, FS_EmptySet DEF Teardown
  <2> QED
    BY <1>0, <1>2, <2>2, ConstantsOK DEF Teardown, Goto
<1>3. CASE RedisLost \/ RedisBack
  BY <1>3 DEF RedisLost, RedisBack
<1>4. CASE Wake
  BY <1>0, <1>4 DEF Wake, Goto, Commands
<1> QED
  BY <1>1, <1>2, <1>3, <1>4

\* Requests come and are turned away.
LEMMA RequestSound ==
  ASSUME Sound, NEW h \in Handlers, Arrive(h) \/ Reject(h)
  PROVE  Sound'
<1> USE DEF Sound, OnlyUpIsBusy, history
<1>1. PICK step \in Steps \ Holding : Goto(h, step)
  <2>1. CASE Arrive(h)
    BY <2>1, FirstLeads, Kinds DEF Arrive
  <2>2. CASE Reject(h)
    BY <2>2 DEF Reject, Steps, Answers, Holding, Closing
  <2> QED
    BY <2>1, <2>2
<1>2. /\ Answered(h)
      /\ UNCHANGED <<phase, redis, busy, sub, leaked, lost>>
      /\ crowded' \in BOOLEAN
  BY DEF Arrive, Reject, Typed
<1>3. h \notin busy /\ h \notin sub
  BY <1>2, Kinds DEF Answered, Typed
<1>4. Typed'
  BY <1>1, <1>2, <1>3 DEF Typed, Goto, Coroutines
<1> QED
  BY <1>2, <1>4 DEF InUse

\* Commands: a connection is taken and given back.
LEMMA CommandSound ==
  ASSUME Sound, NEW c \in Coroutines, CommandStep(c)
  PROVE  Sound'
<1> USE DEF Sound, history
<1>0. /\ IsFiniteSet(busy) /\ Cardinality(busy) \in Nat /\ Cardinality(sub) \in Nat
      /\ leaked \in Nat /\ PoolSize \in Nat
  BY Finite, ConstantsOK DEF Typed
<1>1. CASE Send(c)
  <2>1. Cardinality(busy') = Cardinality(busy) + 1
    BY <1>0, <1>1, FS_AddElement DEF Send, Ready
  <2> QED
    BY <1>0, <1>1, <2>1 DEF Send, Ready, Typed, OnlyUpIsBusy, InUse
<1>2. CASE Refuse(c)
  <2>1. Cardinality(sub') + leaked' = Cardinality(sub) + leaked
    BY <1>2, RaiseKeeps DEF Refuse
  <2>2. Cardinality(sub') \in Nat /\ leaked' \in Nat /\ IsFiniteSet(sub')
    BY <1>0, <1>2, Finite, FS_RemoveElement, FS_CardinalityType DEF Refuse, Raise
  <2>3. Typed'
    BY <1>2, <2>2, ErrorLeads, Kinds DEF Refuse, Raise, Ready, Typed, Goto, Coroutines
  <2> QED
    BY <1>0, <1>2, <2>1, <2>2, <2>3 DEF Refuse, OnlyUpIsBusy, InUse
<1>3. CASE Reply(c)
  <2>1. Cardinality(busy') = Cardinality(busy) - 1
    BY <1>0, <1>3, FS_RemoveElement DEF Reply
  <2>2. PICK step \in AfterReply(pc[c]) : Goto(c, step)
    BY <1>3 DEF Reply
  <2>3. pc[c] \in Commands /\ step \in Steps /\ (pc[c] \in Holding <=> step \in Holding)
    BY <1>3, <2>2, ReplyLeads DEF Reply, Typed
  <2>4. Typed'
    BY <1>3, <2>2, <2>3 DEF Reply, Typed, Goto, Coroutines
  <2> QED
    BY <1>0, <1>3, <2>1, <2>4 DEF Reply, OnlyUpIsBusy, InUse
<1>4. CASE Break(c)
  <2>1. Cardinality(busy') = Cardinality(busy) - 1
    BY <1>0, <1>4, FS_RemoveElement DEF Break
  <2>2. Cardinality(sub') + leaked' = Cardinality(sub) + leaked
    BY <1>4, RaiseKeeps DEF Break
  <2>3. Cardinality(sub') \in Nat /\ leaked' \in Nat /\ IsFiniteSet(sub')
    BY <1>0, <1>4, Finite, FS_RemoveElement, FS_CardinalityType DEF Break, Raise
  <2>4. Typed'
    BY <1>4, <2>3, ErrorLeads, Kinds DEF Break, Raise, Typed, Goto, Coroutines
  <2> QED
    BY <1>0, <1>4, <2>1, <2>2, <2>3, <2>4 DEF Break, OnlyUpIsBusy, InUse
<1> QED
  BY <1>1, <1>2, <1>3, <1>4 DEF CommandStep

\* Subscriptions: a connection is taken, given back or leaked.
LEMMA SubscriptionSound ==
  ASSUME Sound, NEW h \in Handlers, SubscriptionStep(h)
  PROVE  Sound'
<1> USE DEF Sound, history
<1>0. /\ IsFiniteSet(sub) /\ Cardinality(sub) \in Nat /\ Cardinality(busy) \in Nat
      /\ leaked \in Nat /\ PoolSize \in Nat
  BY Finite, ConstantsOK DEF Typed
<1>1. CASE Subscribe(h)
  <2>1. h \notin sub /\ h \notin busy
    BY <1>1, Kinds DEF Subscribe, Typed
  <2>2. Cardinality(sub') = Cardinality(sub) + 1
    BY <1>0, <1>1, <2>1, FS_AddElement DEF Subscribe
  <2>3. "get2" \in Steps /\ "get2" \in Holding
    BY DEF Steps, Commands, ChatCommands, Holding
  <2> QED
    BY <1>0, <1>1, <2>1, <2>2, <2>3 DEF Subscribe, Typed, Goto, Coroutines, OnlyUpIsBusy, InUse
<1>2. CASE SubscribeFails(h)
  <2>1. h \notin sub /\ h \notin busy
    BY <1>2, Kinds DEF SubscribeFails, Typed
  <2>2. "500 error" \in Steps /\ "500 error" \notin Holding
    BY Kinds DEF Steps, Errors, Holding
  <2>3. leaked' \in Nat /\ InUse' <= PoolSize
    <3>1. leaked' = leaked \/ (InUse < PoolSize /\ leaked' = leaked + 1)
      BY <1>2 DEF SubscribeFails
    <3>2. InUse' = Cardinality(busy) + Cardinality(sub) + leaked'
      BY <1>2 DEF SubscribeFails, InUse
    <3> QED
      BY <1>0, <3>1, <3>2 DEF InUse
  <2> QED
    BY <1>2, <2>1, <2>2, <2>3 DEF SubscribeFails, Typed, Goto, Coroutines, OnlyUpIsBusy
<1>3. CASE Notified(h) \/ TimesOut(h) \/ ListenBreaks(h)
  <2>1. h \in sub /\ h \notin busy
    BY <1>3, Kinds DEF Notified, TimesOut, ListenBreaks, Typed, Holding
  <2>2. Closing \subseteq Steps /\ Closing \subseteq Holding
    BY DEF Steps, Holding
  <2>3. PICK step \in Closing : Goto(h, step)
    BY <1>3 DEF Notified, TimesOut, ListenBreaks, Closing
  <2> QED
    BY <1>3, <2>1, <2>2, <2>3 DEF Notified, TimesOut, ListenBreaks, Typed, Goto, Coroutines,
       OnlyUpIsBusy, InUse
<1>4. CASE Close(h)
  <2>1. h \in sub /\ h \notin busy /\ pc[h] \in Closing
    BY <1>4, Kinds DEF Close, Typed, Holding
  <2>2. Cardinality(sub') = Cardinality(sub) - 1
    BY <1>0, <1>4, <2>1, FS_RemoveElement DEF Close
  <2>3. AfterClose(pc[h]) \in Steps \ Holding
    BY <2>1, CloseLeads
  <2> QED
    BY <1>0, <1>4, <2>1, <2>2, <2>3 DEF Close, Typed, Goto, Coroutines, OnlyUpIsBusy, InUse
<1>5. CASE CloseFails(h)
  <2>1. h \in sub /\ h \notin busy
    BY <1>5, Kinds DEF CloseFails, Typed, Holding
  <2>2. Cardinality(sub') + leaked' = Cardinality(sub) + leaked
    BY <1>5, RaiseKeeps DEF CloseFails
  <2>3. Cardinality(sub') \in Nat /\ leaked' \in Nat
    BY <1>0, <1>5, Finite, FS_RemoveElement, FS_CardinalityType DEF CloseFails, Raise
  <2>4. Typed'
    BY <1>5, <2>1, <2>3, ErrorLeads, Kinds DEF CloseFails, Raise, Typed, Goto, Coroutines
  <2> QED
    BY <1>0, <1>5, <2>2, <2>3, <2>4 DEF CloseFails, OnlyUpIsBusy, InUse
<1> QED
  BY <1>1, <1>2, <1>3, <1>4, <1>5 DEF SubscriptionStep

\* Every step keeps the types and the bound of the pool.
LEMMA SoundStep == Sound /\ [Next]_vars => Sound'
<1>1. ASSUME Sound, UNCHANGED vars PROVE Sound'
  BY <1>1 DEF vars, history, Sound, Typed, InUse, OnlyUpIsBusy
<1> QED
  BY <1>1, LifeSound, RequestSound, CommandSound, SubscriptionSound DEF Next

-----------------------------------------------------------------------------
(* Load                                                                    *)

\* A broken command or listener means that Redis was lost.
LEMMA QuietStep ==
  ASSUME Sound, Quiet, [Next]_vars
  PROVE  Quiet'
<1> USE DEF Sound, Typed, Quiet, history
<1>0. ASSUME NEW c \in Coroutines, NEW step, step # "close_error", Goto(c, step),
             UNCHANGED <<redis, lost>>, phase' = "degraded" => phase = "degraded" \/ lost
      PROVE  Quiet'
  BY <1>0 DEF Goto
<1>1. CASE Start \/ Teardown \/ RedisLost \/ RedisBack \/ Wake
  <2>0. Reaper \in Coroutines
    BY DEF Coroutines
  <2>1. CASE Start
    <3>1. CASE redis
      BY <1>0, <2>0, <2>1, <3>1 DEF Start
    <3>2. CASE ~ redis
      BY <2>1, <3>2 DEF Start
    <3> QED
      BY <3>1, <3>2
  <2>2. CASE Teardown
    BY <1>0, <2>0, <2>2 DEF Teardown
  <2>3. CASE RedisLost
    BY <2>3 DEF RedisLost
  <2>4. CASE RedisBack
    BY <2>4 DEF RedisBack
  <2>5. CASE Wake
    BY <1>0, <2>0, <2>5 DEF Wake
  <2> QED
    BY <1>1, <2>1, <2>2, <2>3, <2>4, <2>5
<1>2. ASSUME NEW h \in Handlers, Arrive(h) \/ Reject(h) PROVE Quiet'
  <2>1. PICK step \in Steps : step # "close_error" /\ Goto(h, step)
    <3>1. CASE Arrive(h)
      BY <3>1, FirstLeads DEF Arrive, ChatSteps, Closing
    <3>2. CASE Reject(h)
      BY <3>2 DEF Reject, Steps, Answers
    <3> QED
      BY <1>2, <3>1, <3>2
  <2> QED
    BY <1>2, <2>1 DEF Arrive, Reject, Goto
<1>3. ASSUME NEW c \in Coroutines, CommandStep(c) PROVE Quiet'
  <2>1. CASE Send(c)
    BY <2>1 DEF Send
  <2>2. CASE Refuse(c) \/ Break(c)
    <3>1. OnError(c) # "close_error" /\ Goto(c, OnError(c)) /\ UNCHANGED <<phase, redis, lost>>
      BY <2>2, ErrorLeads DEF Refuse, Break, Raise, ChatSteps, Closing
    <3> QED
      BY <1>0, <3>1
  <2>3. CASE Reply(c)
    BY <2>3, ReplyLeads DEF Reply, Goto
  <2> QED
    BY <1>3, <2>1, <2>2, <2>3 DEF CommandStep
<1>4. ASSUME NEW h \in Handlers, SubscriptionStep(h) PROVE Quiet'
  <2>0. h \in Coroutines
    BY DEF Coroutines
  <2>1. CASE Subscribe(h) \/ SubscribeFails(h) \/ Notified(h) \/ TimesOut(h)
    BY <1>0, <2>0, <2>1 DEF Subscribe, SubscribeFails, Notified, TimesOut
  <2>4. CASE ListenBreaks(h)
    BY <2>4 DEF ListenBreaks
  <2>2. CASE Close(h)
    BY <2>2, CloseLeads DEF Close, Goto
  <2>3. CASE CloseFails(h)
    BY <2>3, ErrorLeads DEF CloseFails, Raise, Goto, ChatSteps, Closing
  <2> QED
    BY <1>4, <2>1, <2>2, <2>3, <2>4 DEF SubscriptionStep
<1>5. CASE UNCHANGED vars
  BY <1>5 DEF vars
<1> QED
  BY <1>1, <1>2, <1>3, <1>4, <1>5 DEF Next

\* Only a new request raises the demand, and then crowded tells.
LEMMA BearableStep ==
  ASSUME Sound, Sound', Bearable, [Next]_vars
  PROVE  Bearable'
<1> USE DEF Sound, history
<1>0. /\ Demand \in Nat /\ Demand' \in Nat /\ PoolSize \in Nat
      /\ crowded \in BOOLEAN /\ Reaper \in Coroutines /\ Reaper \notin Handlers
  <2>1. (Typed => Demand \in Nat)'
    BY DemandIsNumber, PTL
  <2> QED
    BY <2>1, Finite, ConstantsOK DEF Typed, Coroutines
<1>1. ASSUME NEW c \in Coroutines, NEW step \in Steps, Goto(c, step), crowded' = crowded,
             c \in Handlers => ~ Answered(c) \/ step \in Answers \cup Errors,
             step \in ChatSteps => pc[c] \in ChatSteps
      PROVE  Bearable'
  <2>1. Demand' <= Demand
    BY <1>1, DemandShrinks
  <2> QED
    BY <1>0, <1>1, <2>1 DEF Bearable
<1>2. ASSUME UNCHANGED <<pc, crowded>> PROVE Bearable'
  <2>1. Demand' = Demand
    BY <1>2 DEF Demand, Active, Answered, Chats
  <2> QED
    BY <1>2, <2>1 DEF Bearable
<1>3. CASE Start \/ Teardown \/ Wake
  <2>1. {"off", "sleep", "scan"} \subseteq Steps \ ChatSteps
    BY DEF Steps, Commands, ChatCommands, ChatSteps, Closing
  <2> QED
    BY <1>0, <1>1, <1>2, <1>3, <2>1 DEF Start, Teardown, Wake
<1>4. CASE RedisLost \/ RedisBack \/ UNCHANGED vars
  BY <1>2, <1>4 DEF RedisLost, RedisBack, vars
<1>5. ASSUME NEW h \in Handlers, Arrive(h) PROVE Bearable'
  <2>1. crowded' = (crowded \/ Demand' > PoolSize)
    BY <1>5 DEF Arrive
  <2>2. CASE Demand' > PoolSize
    BY <2>1, <2>2, Zenon DEF Bearable
  <2>3. CASE ~ (Demand' > PoolSize)
    BY <1>0, <2>3 DEF Bearable
  <2> QED
    BY <2>2, <2>3
<1>6. ASSUME NEW h \in Handlers, Reject(h) PROVE Bearable'
  <2>1. "401" \in Steps \ ChatSteps /\ "401" \in Answers
    BY DEF Steps, Answers, ChatCommands, ChatSteps, Closing
  <2> QED
    BY <1>1, <1>6, <2>1 DEF Reject, Coroutines
<1>7. ASSUME NEW c \in Coroutines, CommandStep(c) PROVE Bearable'
  <2>1. CASE Send(c)
    BY <1>2, <2>1 DEF Send
  <2>2. CASE Refuse(c) \/ Break(c)
    <3>1. pc[c] \in Commands /\ crowded' = crowded /\ Goto(c, OnError(c))
      BY <2>2 DEF Refuse, Break, Ready, Raise, Typed
    <3>2. ~ Answered(c)
      BY <3>1, Kinds DEF Answered
    <3> QED
      BY <1>1, <3>1, <3>2, ErrorLeads
  <2>3. CASE Reply(c)
    <3>1. pc[c] \in Commands /\ crowded' = crowded /\ \E step \in AfterReply(pc[c]) : Goto(c, step)
      BY <2>3 DEF Reply, Typed
    <3>2. ~ Answered(c)
      BY <3>1, Kinds DEF Answered
    <3> QED
      BY <1>1, <3>1, <3>2, ReplyLeads
  <2> QED
    BY <1>7, <2>1, <2>2, <2>3 DEF CommandStep
<1>8. ASSUME NEW h \in Handlers, SubscriptionStep(h) PROVE Bearable'
  <2>1. pc[h] \in ChatSteps /\ ~ Answered(h) /\ crowded' = crowded /\ h \in Coroutines
    <3>1. pc[h] \in ChatSteps /\ crowded' = crowded
      BY <1>8 DEF SubscriptionStep, Subscribe, SubscribeFails, Notified, TimesOut, ListenBreaks,
         Close, CloseFails, ChatSteps
    <3> QED
      BY <3>1, Kinds DEF Answered, Coroutines
  <2>2. \E step \in Steps : Goto(h, step)
    <3>1. CASE Subscribe(h) \/ SubscribeFails(h) \/ Notified(h) \/ TimesOut(h) \/ ListenBreaks(h)
      BY <3>1 DEF Subscribe, SubscribeFails, Notified, TimesOut, ListenBreaks, Steps, Commands,
         ChatCommands, Closing, Errors
    <3>2. CASE Close(h)
      BY <3>2, CloseLeads DEF Close
    <3>3. CASE CloseFails(h)
      BY <3>3, ErrorLeads DEF CloseFails, Raise
    <3> QED
      BY <1>8, <3>1, <3>2, <3>3 DEF SubscriptionStep
  <2> QED
    BY <1>1, <2>1, <2>2
<1> QED
  BY <1>3, <1>4, <1>5, <1>6, <1>7, <1>8 DEF Next

\* The history is not rewritten.
LEMMA HistoryGrows == [Next]_vars => (crowded => crowded') /\ (lost => lost')
<1> SUFFICES ASSUME [Next]_vars PROVE (crowded => crowded') /\ (lost => lost')
  OBVIOUS
<1> USE DEF history
<1>1. CASE RedisLost
  BY <1>1 DEF RedisLost
<1>2. ASSUME NEW h \in Handlers, Arrive(h) PROVE (crowded => crowded') /\ (lost => lost')
  <2>1. crowded' = (crowded \/ Demand' > PoolSize) /\ lost' = lost
    BY <1>2 DEF Arrive
  <2> QED
    BY <2>1, Zenon
<1>3. CASE Start \/ Teardown \/ RedisBack \/ Wake \/ UNCHANGED vars
  BY <1>3 DEF Start, Teardown, RedisBack, Wake, vars
<1>4. ASSUME NEW h \in Handlers, Reject(h) \/ SubscriptionStep(h)
      PROVE  crowded' = crowded /\ lost' = lost
  BY <1>4 DEF Reject, SubscriptionStep, Subscribe, SubscribeFails, Notified, TimesOut,
     ListenBreaks, Close, CloseFails
<1>5. ASSUME NEW c \in Coroutines, CommandStep(c) PROVE crowded' = crowded /\ lost' = lost
  BY <1>5 DEF CommandStep, Send, Refuse, Reply, Break
<1> QED
  BY <1>1, <1>2, <1>3, <1>4, <1>5 DEF Next

\* Without a loss of Redis an error can only come from an exhausted pool, and a
\* bearable load leaves room.
LEMMA SafeStep ==
  ASSUME Sound, Quiet, Bearable, SafeLoad, [Next]_vars
  PROVE  SafeLoad'
<1> USE DEF Sound, SafeLoad, history
<1>0. SUFFICES ASSUME ~ crowded', ~ lost' PROVE SafeLoad'
  OBVIOUS
<1>1. ~ crowded /\ ~ lost
  BY <1>0, HistoryGrows
<1>2. /\ redis /\ phase # "degraded" /\ \A h \in Handlers : pc[h] # "close_error"
      /\ Demand <= PoolSize
      /\ leaked = 0
      /\ \A h \in Handlers : pc[h] \notin Errors
  BY <1>1 DEF Quiet, Bearable
<1>3. ASSUME NEW c \in Coroutines, NEW step \in Steps \ Errors, Goto(c, step), leaked' = leaked
      PROVE  SafeLoad'
  BY <1>2, <1>3 DEF Goto, Typed
<1>4. CASE Start \/ Teardown \/ RedisLost \/ RedisBack \/ Wake \/ UNCHANGED vars
  <2>0. Reaper \in Coroutines /\ {"sleep", "off", "scan"} \subseteq Steps \ Errors
    BY DEF Coroutines, Steps, Errors, Commands
  <2>1. CASE Start
    BY <1>2, <1>3, <2>0, <2>1 DEF Start
  <2>2. CASE Teardown
    BY <1>2, <1>3, <2>0, <2>2 DEF Teardown
  <2>3. CASE Wake
    BY <1>2, <1>3, <2>0, <2>3 DEF Wake
  <2>4. CASE RedisLost \/ RedisBack \/ UNCHANGED vars
    BY <1>2, <2>4 DEF RedisLost, RedisBack, vars
  <2> QED
    BY <1>4, <2>1, <2>2, <2>3, <2>4
<1>5. ASSUME NEW h \in Handlers, Arrive(h) \/ Reject(h) PROVE SafeLoad'
  <2>1. CASE Arrive(h)
    <3>1. \E r \in Routes : Goto(h, FirstStep[r])
      BY <1>2, <2>1 DEF Arrive
    <3> QED
      BY <1>3, <2>1, <3>1, FirstLeads DEF Arrive, Coroutines
  <2>2. CASE Reject(h)
    <3>1. "401" \in Steps \ Errors
      BY DEF Steps, Answers, Errors
    <3> QED
      BY <1>3, <2>2, <3>1 DEF Reject, Coroutines
  <2> QED
    BY <1>5, <2>1, <2>2
<1>6. ASSUME NEW c \in Coroutines, CommandStep(c) PROVE SafeLoad'
  <2>1. CASE Send(c)
    BY <1>2, <2>1 DEF Send
  <2>2. ~ Refuse(c)
    <3> SUFFICES ASSUME Refuse(c) PROVE FALSE
      OBVIOUS
    <3>1. pc[c] \in Commands /\ c \notin busy /\ InUse >= PoolSize
      BY DEF Refuse, Ready
    <3>2. InUse < PoolSize
      BY <1>2, <3>1, RoomForCommand
    <3> QED
      BY <3>1, <3>2, Finite, ConstantsOK
  <2>3. ~ Break(c)
    BY <1>2 DEF Break
  <2>4. CASE Reply(c)
    <3>1. pc[c] \in Commands
      BY <2>4 DEF Reply, Typed
    <3> QED
      BY <1>3, <2>4, <3>1, ReplyLeads DEF Reply
  <2> QED
    BY <1>6, <2>1, <2>2, <2>3, <2>4 DEF CommandStep
<1>7. ASSUME NEW h \in Handlers, SubscriptionStep(h) PROVE SafeLoad'
  <2>0. h \in Coroutines
    BY DEF Coroutines
  <2>1. CASE Subscribe(h) \/ Notified(h) \/ TimesOut(h)
    <3>1. {"get2", "close_done", "close_timeout"} \subseteq Steps \ Errors
      BY DEF Steps, Commands, ChatCommands, Closing, Errors
    <3> QED
      BY <1>3, <2>0, <2>1, <3>1 DEF Subscribe, Notified, TimesOut
  <2>2. ~ SubscribeFails(h)
    <3> SUFFICES ASSUME SubscribeFails(h) PROVE FALSE
      OBVIOUS
    <3>1. pc[h] = "subscribe" /\ InUse >= PoolSize
      BY <1>2 DEF SubscribeFails
    <3>2. InUse < PoolSize
      BY <1>2, <3>1, RoomForSubscription
    <3> QED
      BY <3>1, <3>2, Finite, ConstantsOK
  <2>3. ~ ListenBreaks(h) /\ ~ CloseFails(h)
    BY <1>2 DEF ListenBreaks, CloseFails
  <2>4. CASE Close(h)
    BY <1>2, <1>3, <2>0, <2>4, CloseLeads DEF Close
  <2> QED
    BY <1>7, <2>1, <2>2, <2>3, <2>4 DEF SubscriptionStep
<1> QED
  BY <1>4, <1>5, <1>6, <1>7 DEF Next

-----------------------------------------------------------------------------
(* Theorems                                                                *)

\* A gateway that starts meets the invariant.
LEMMA InitInv == Init => IInv
<1> SUFFICES ASSUME Init PROVE IInv
  OBVIOUS
<1> USE DEF Init
<1>1. {"none", "off"} \subseteq Steps \ (ChatSteps \cup Errors)
  BY DEF Steps, Answers, Errors, ChatSteps, ChatCommands, Closing
<1>2. sub = {} /\ {h \in Handlers : pc[h] \in Holding} = {}
  BY <1>1, Kinds, ConstantsOK DEF Coroutines
<1>3. Typed
  BY <1>1, <1>2 DEF Typed
<1>4. Active = {} /\ Chats = {}
  BY <1>1, ConstantsOK DEF Active, Answered, Answers, Chats, ChatSteps, Coroutines
<1>5. InUse = 0 /\ Demand = 1
  BY <1>4, FS_EmptySet DEF InUse, Demand
<1>6. TypeOK
  BY <1>3, <1>5, TypedAndBounded, ConstantsOK
<1>7. Quiet /\ SafeLoad
  BY <1>1, ConstantsOK DEF Quiet, SafeLoad, Coroutines, ChatSteps, Closing
<1> QED
  BY <1>5, <1>6, <1>7, ConstantsOK DEF IInv, OnlyUpIsBusy, Bearable

\* The invariant holds in every reachable state.
THEOREM Invariance == Spec => []IInv
<1>1. Init => IInv
  BY InitInv
<1>2. IInv /\ [Next]_vars => IInv'
  <2> SUFFICES ASSUME IInv, [Next]_vars PROVE IInv'
    OBVIOUS
  <2>1. Sound /\ Quiet /\ Bearable /\ SafeLoad
    BY TypedAndBounded DEF IInv, Sound
  <2>2. Sound'
    BY <2>1, SoundStep
  <2>3. Quiet' /\ Bearable' /\ SafeLoad'
    BY <2>1, <2>2, QuietStep, BearableStep, SafeStep
  <2>4. TypeOK'
    BY <2>2, TypedAndBounded, PTL DEF Sound
  <2> QED
    BY <2>2, <2>3, <2>4 DEF IInv, Sound
<1> QED
  BY <1>1, <1>2, PTL DEF Spec

\* Every variable keeps its type, a PubSub is open only at a step that will close
\* or lose it, and no more connections are out than the pool has.
THEOREM PoolNeverOverdrawn == Spec => []TypeOK
<1>1. IInv => TypeOK
  BY DEF IInv
<1> QED
  BY <1>1, Invariance, PTL

\* With any number of handlers and connections: while Redis stays in reach and
\* twice the chats at once, the other requests and one for the reaper fit in the
\* pool, no request meets an error and no connection is leaked.
THEOREM LoadIsSafe == Spec => []SafeLoad
<1>1. IInv => SafeLoad
  BY DEF IInv
<1> QED
  BY <1>1, Invariance, PTL
=============================================================================
