-------------------------- MODULE CompletionProofs --------------------------
(***************************************************************************)
(* Proofs about Completion, for any requests of either kind, any workers   *)
(* and any number of faults of all kinds.                                  *)
(*                                                                         *)
(* Four arguments, each with an invariant of its own on top of TypeOK:     *)
(* where the handler is tells whether it is subscribed (SubscriptionOpen); *)
(* a result that does not expire early is in the cache from before DONE is *)
(* published until the client is answered (StoredBeforeDone); while no     *)
(* reaper took a live worker for dead, whoever runs a task holds it        *)
(* (RunnerHolds), so that nobody else writes its outcome; and a task that  *)
(* was neither put back nor hit by an error is run once (RunOnce).         *)
(***************************************************************************)
EXTENDS Completion, TLAPS

-----------------------------------------------------------------------------
(* Types                                                                   *)

\* A fault counts up to the bound and no further.
LEMMA FaultType ==
  ASSUME TypeOK, NEW kind, Fault(kind)
  PROVE  faults' \in 0..MaxFaults
BY ConstantsOK DEF TypeOK, Fault, ConstantsOK

\* What PUBLISH leaves in the subscriptions.
LEMMA DeliverType ==
  ASSUME TypeOK, NEW q \in Requests, Deliver(q)
  PROVE  inbox' \in [Requests -> BOOLEAN] /\ published' \subseteq Requests
<1>1. (inbox[q] \/ sub[q] = "on") \in BOOLEAN
  OBVIOUS
<1>. QED  BY <1>1 DEF TypeOK, Deliver

\* A step of a request's handler, of its subscription or of the TTL keeps types.
LEMMA GatewayTypes ==
  ASSUME TypeOK, NEW q \in Requests,
         \/ Submit(q) \/ HandlerStep(q) \/ GatewayFails(q)
         \/ SubscribeArrives(q) \/ ResultExpires(q)
  PROVE  TypeOK'
<1> USE DEF TypeOK, Answers, Goto, Fault, queueVars, gatewayVars, storeVars,
      history, workerVars
<1>1. CASE Submit(q)
  BY <1>1 DEF Submit, Queue!Submit
<1>2. CASE Register(q)
  BY <1>2 DEF Register
<1>3. CASE FirstLook(q)
  BY <1>3 DEF FirstLook
<1>4. CASE Subscribe(q)
  BY <1>4 DEF Subscribe
<1>5. CASE SecondLook(q)
  <2>1. PICK there \in {"close_hit", "listen"} : Goto(q, there)
    BY <1>5 DEF SecondLook
  <2>2. faults' \in 0..MaxFaults /\ overtaken' \subseteq Requests
    BY <1>5, FaultType DEF SecondLook
  <2>. QED  BY <1>5, <2>1, <2>2 DEF SecondLook
<1>6. CASE Notified(q)
  BY <1>6 DEF Notified
<1>7. CASE TimesOut(q)
  BY <1>7 DEF TimesOut
<1>8. CASE Close(q)
  <2> USE <1>8 DEF Close
  <2>1. /\ sub' \in [Requests -> {"none", "sent", "on"}]
        /\ inbox' \in [Requests -> BOOLEAN]
    OBVIOUS
  <2>2. PICK there \in Answers \cup {"delete", "fetch"} : Goto(q, there)
    OBVIOUS
  <2>. QED  BY <2>1, <2>2
<1>9. CASE Fetch(q)
  BY <1>9 DEF Fetch
<1>10. CASE Inspect(q)
  BY <1>10 DEF Inspect
<1>11. CASE Serve(q)
  BY <1>11 DEF Serve
<1>12. CASE GatewayFails(q)
  <2> USE <1>12 DEF GatewayFails
  <2>1. \/ Queue!Submit(q)
        \/ UNCHANGED <<place, done, wild>>
    OBVIOUS
  <2> HIDE <1>12
  <2>2. /\ place' \in [Requests -> {"new", "waiting", "held", "gone"}]
        /\ \A p \in Requests : place'[p] = "held" <=> place[p] = "held"
        /\ UNCHANGED <<done, wild>>
    BY <2>1 DEF Queue!Submit
  <2> USE <1>12
  <2>3. /\ sub' \in [Requests -> {"none", "sent", "on"}]
        /\ cache' \in [Requests -> BOOLEAN]
        /\ status' \in [Requests -> {"none", "PENDING", "PROCESSING", "COMPLETED", "FAILED"}]
    OBVIOUS
  <2>4. PICK there \in Answers \cup {"close_error"} : Goto(q, there)
    OBVIOUS
  <2>5. /\ faults' \in 0..MaxFaults
        /\ UNCHANGED <<holder, overtaken, inbox, result, workerVars>>
    BY FaultType
  <2> HIDE <1>12
  <2>. QED  BY <2>2, <2>3, <2>4, <2>5
<1>13. CASE SubscribeArrives(q)
  BY <1>13 DEF SubscribeArrives
<1>14. CASE ResultExpires(q)
  BY <1>14 DEF ResultExpires
<1>. QED
  BY <1>1, <1>2, <1>3, <1>4, <1>5, <1>6, <1>7, <1>8, <1>9, <1>10, <1>11, <1>12, <1>13,
     <1>14 DEF HandlerStep

\* So does a step of process_task, with all that can go wrong in it.
LEMMA WorkerTypes ==
  ASSUME TypeOK, NEW w \in Workers,
         \/ \E q \in Requests : Take(w, q) \/ TakeReplyLost(w, q)
         \/ ProcessStep(w) \/ WorkerFault(w)
  PROVE  TypeOK'
<1> USE DEF TypeOK, Continue, Finally, Deliver, Remove, Fault, queueVars,
      gatewayVars, storeVars, history, workerVars, Queue!Finish, Queue!Discharge
<1>0. None \notin Requests /\ None \notin Workers
  BY ConstantsOK DEF ConstantsOK
<1>1. ASSUME NEW q \in Requests, Take(w, q)
      PROVE  TypeOK'
  BY <1>1, <1>0 DEF Take, Queue!Take
<1>2. ASSUME NEW q \in Requests, TakeReplyLost(w, q)
      PROVE  TypeOK'
  BY <1>2, <1>0, FaultType DEF TakeReplyLost, Queue!Take
<1>3. CASE SetProcessing(w)
  BY <1>3 DEF SetProcessing
<1>4. CASE Generate(w)
  BY <1>4 DEF Generate
<1>5. CASE GenerateFails(w)
  BY <1>5, <1>0, FaultType DEF GenerateFails
<1>6. CASE StoreResult(w)
  BY <1>6 DEF StoreResult
<1>7. CASE SetCompleted(w)
  BY <1>7 DEF SetCompleted
<1>8. CASE Publish(w)
  BY <1>8 DEF Publish
<1>9. CASE SetFailed(w)
  BY <1>9 DEF SetFailed
<1>10. CASE Ack(w)
  BY <1>10 DEF Ack
<1>11. CASE CommandFails(w)
  <2> USE <1>11 DEF CommandFails
  <2>1. wreq[w] \in Requests
    OBVIOUS
  <2>2. /\ cache' \in [Requests -> BOOLEAN]
        /\ result' \in [Requests -> BOOLEAN]
    BY <2>1
  <2>3. status' \in [Requests -> {"none", "PENDING", "PROCESSING", "COMPLETED", "FAILED"}]
    BY <2>1
  <2> HIDE DEF Deliver
  <2>4. inbox' \in [Requests -> BOOLEAN] /\ published' \subseteq Requests
    BY <2>1, DeliverType
  <2>5. /\ wpc[w] # "idle" /\ wpc[w] # "down" /\ Continue(w, "fail")
        /\ faults' \in 0..MaxFaults
        /\ broken' \subseteq Requests
        /\ UNCHANGED <<queueVars, gatewayVars, wreq, redelivered>>
    BY <2>1, FaultType
  <2> HIDE <1>11
  <2>. QED  BY <2>1, <2>2, <2>3, <2>4, <2>5
<1>12. CASE SetFailedFails(w)
  BY <1>12, <1>0, FaultType DEF SetFailedFails
<1>13. CASE AckFails(w)
  BY <1>13, <1>0, FaultType DEF AckFails
<1>14. CASE Crash(w)
  BY <1>14, <1>0, FaultType DEF Crash
<1>. QED
  BY <1>1, <1>2, <1>3, <1>4, <1>5, <1>6, <1>7, <1>8, <1>9, <1>10, <1>11, <1>12, <1>13,
     <1>14 DEF ProcessStep, WorkerFault

\* And so do the reapers.
LEMMA ReaperTypes ==
  ASSUME TypeOK, Misjudge \/ \E q \in Requests : Redeliver(q) \/ Drop(q)
  PROVE  TypeOK'
<1> USE DEF TypeOK, Fault, queueVars, gatewayVars, storeVars, history,
      workerVars
<1>1. CASE Misjudge
  BY <1>1, FaultType DEF Misjudge, Queue!GoWild
<1>2. ASSUME NEW q \in Requests, Redeliver(q)
      PROVE  TypeOK'
  BY <1>2 DEF Redeliver, Queue!Return
<1>3. ASSUME NEW q \in Requests, Drop(q)
      PROVE  TypeOK'
  BY <1>3 DEF Drop, Queue!Drop
<1>. QED  BY <1>1, <1>2, <1>3

\* Variables keep their types: in particular a task is held exactly while some
\* worker's list has it, and a worker has a request exactly in process_task.
THEOREM TypeCorrect == Spec => []TypeOK
<1>1. Init => TypeOK
  <2> SUFFICES ASSUME Init PROVE TypeOK
    OBVIOUS
  <2> USE DEF Init, Queue!Init
  <2>1. None \notin Workers /\ 0 \in 0..MaxFaults
    BY ConstantsOK DEF ConstantsOK
  <2>2. /\ place \in [Requests -> {"new", "waiting", "held", "gone"}]
        /\ wild \in BOOLEAN
        /\ done \subseteq Requests
        /\ \A q \in Requests : place[q] = "held" <=> holder[q] # None
    OBVIOUS
  <2>3. /\ pc \in [Requests -> Answers \cup
             {"new", "register", "get1", "subscribe", "get2", "listen", "close_hit",
              "close_done", "close_timeout", "close_error", "fetch", "inspect", "delete"}]
        /\ sub \in [Requests -> {"none", "sent", "on"}]
    OBVIOUS
  <2>4. /\ inbox \in [Requests -> BOOLEAN]
        /\ cache \in [Requests -> BOOLEAN]
        /\ result \in [Requests -> BOOLEAN]
    OBVIOUS
  <2>5. /\ wpc \in [Workers -> {"down", "idle", "start", "generate", "store", "complete",
                                "publish", "fail", "ack"}]
        /\ wreq \in [Workers -> Requests \cup {None}]
        /\ \A w \in Workers : wpc[w] \in {"down", "idle"} <=> wreq[w] = None
    OBVIOUS
  <2>. QED  BY <2>1, <2>2, <2>3, <2>4, <2>5 DEF TypeOK
<1>2. TypeOK /\ [Next]_vars => TypeOK'
  <2> SUFFICES ASSUME TypeOK, [Next]_vars PROVE TypeOK'
    OBVIOUS
  <2>1. CASE UNCHANGED vars
    BY <2>1 DEF TypeOK, Answers, vars, queueVars, gatewayVars, storeVars, history, workerVars
  <2>2. CASE Next
    BY <2>2, GatewayTypes, WorkerTypes, ReaperTypes DEF Next
  <2>. QED  BY <2>1, <2>2
<1>. QED  BY <1>1, <1>2, PTL DEF Spec

-----------------------------------------------------------------------------
(* What a step leaves alone                                                *)

\* A worker's step writes neither what the handlers are at nor a subscription;
\* of the cache it only adds to, and it puts no task back.
LEMMA WorkerFrame ==
  ASSUME TypeOK, NEW w \in Workers,
         \/ \E q \in Requests : Take(w, q) \/ TakeReplyLost(w, q)
         \/ ProcessStep(w) \/ WorkerFault(w)
  PROVE  /\ UNCHANGED <<pc, sub, overtaken, wild, redelivered>>
         /\ broken \subseteq broken'
         /\ \A v \in Workers \ {w} : wpc'[v] = wpc[v] /\ wreq'[v] = wreq[v]
<1> USE DEF gatewayVars, queueVars, workerVars, history, Continue, Finally, Deliver, Remove,
      Queue!Take, Queue!Finish, Queue!Discharge
<1>0. /\ wpc = [v \in Workers |-> wpc[v]]
      /\ wreq = [v \in Workers |-> wreq[v]]
  BY DEF TypeOK
<1>1. ASSUME NEW q \in Requests, Take(w, q) \/ TakeReplyLost(w, q)
      PROVE  /\ UNCHANGED <<pc, sub, overtaken, wild, redelivered>>
             /\ broken \subseteq broken'
             /\ \A v \in Workers \ {w} : wpc'[v] = wpc[v] /\ wreq'[v] = wreq[v]
  BY <1>0, <1>1 DEF Take, TakeReplyLost
<1>2. ASSUME ProcessStep(w)
      PROVE  /\ UNCHANGED <<pc, sub, overtaken, wild, redelivered>>
             /\ broken \subseteq broken'
             /\ \A v \in Workers \ {w} : wpc'[v] = wpc[v] /\ wreq'[v] = wreq[v]
  BY <1>0, <1>2 DEF ProcessStep, SetProcessing, Generate, StoreResult, SetCompleted, Publish,
     SetFailed, Ack
<1>3. ASSUME WorkerFault(w)
      PROVE  /\ UNCHANGED <<pc, sub, overtaken, wild, redelivered>>
             /\ broken \subseteq broken'
             /\ \A v \in Workers \ {w} : wpc'[v] = wpc[v] /\ wreq'[v] = wreq[v]
  BY <1>0, <1>3 DEF WorkerFault, GenerateFails, CommandFails, SetFailedFails, AckFails, Crash
<1>. QED  BY <1>1, <1>2, <1>3

\* A reaper's step writes only the queue and the history.
LEMMA ReaperFrame ==
  ASSUME Misjudge \/ \E q \in Requests : Redeliver(q) \/ Drop(q)
  PROVE  /\ UNCHANGED <<pc, sub, overtaken, inbox, cache, status, result, wpc, wreq>>
         /\ UNCHANGED <<published, broken, done>>
         /\ wild => wild'
BY DEF Misjudge, Redeliver, Drop, Queue!GoWild, Queue!Return, Queue!Drop, gatewayVars,
   storeVars, workerVars, history

\* A step of a handler, of a subscription or of the TTL writes nothing of a
\* worker's and no other request's state.
LEMMA GatewayFrame ==
  ASSUME TypeOK, NEW q \in Requests,
         \/ Submit(q) \/ HandlerStep(q) \/ GatewayFails(q)
         \/ SubscribeArrives(q) \/ ResultExpires(q)
  PROVE  /\ UNCHANGED <<done, wild, holder, result, wpc, wreq, published, broken, redelivered>>
         /\ overtaken \subseteq overtaken'
         /\ \A p \in Requests \ {q} :
              UNCHANGED <<place[p], pc[p], sub[p], inbox[p], cache[p], status[p]>>
<1> USE DEF Goto, queueVars, gatewayVars, storeVars, workerVars, history, Queue!Submit, TypeOK
<1>1. CASE Submit(q)
  BY <1>1 DEF Submit
<1>2. CASE Register(q) \/ FirstLook(q) \/ Subscribe(q) \/ Notified(q) \/ TimesOut(q)
  BY <1>2 DEF Register, FirstLook, Subscribe, Notified, TimesOut
<1>3. CASE Fetch(q) \/ Inspect(q) \/ Serve(q)
  BY <1>3 DEF Fetch, Inspect, Serve
<1>4. CASE SecondLook(q)
  BY <1>4 DEF SecondLook
<1>5. CASE Close(q)
  BY <1>5 DEF Close
<1>6. CASE GatewayFails(q)
  BY <1>6 DEF GatewayFails
<1>7. CASE SubscribeArrives(q)
  BY <1>7 DEF SubscribeArrives
<1>8. CASE ResultExpires(q)
  BY <1>8 DEF ResultExpires
<1>. QED
  BY <1>1, <1>2, <1>3, <1>4, <1>5, <1>6, <1>7, <1>8 DEF HandlerStep

-----------------------------------------------------------------------------
(* The handler and its subscription                                        *)

\* Between SUBSCRIBE and the close the subscription is there, and only there
\* or where the exception fell outside the try block; whoever listens without
\* having got ahead of SUBSCRIBE has it confirmed.
Subscribed(q) ==
  /\ pc[q] \in {"get2", "listen"} => sub[q] # "none"
  /\ pc[q] = "listen" /\ q \notin overtaken => sub[q] = "on"
  /\ sub[q] # "none" =>
       pc[q] \in {"get2", "listen", "close_hit", "close_done", "close_timeout", "close_error",
                  "500 error"}

\* Every subscription is where its request's handler expects it.
SubscriptionOpen == \A q \in Requests : Subscribed(q)

\* Only the handler and the confirmation of SUBSCRIBE touch a subscription.
LEMMA SubscriptionStep ==
  ASSUME TypeOK, SubscriptionOpen, [Next]_vars
  PROVE  SubscriptionOpen'
<1> USE DEF SubscriptionOpen, Subscribed
<1>1. ASSUME NEW q \in Requests,
             \/ Submit(q) \/ HandlerStep(q) \/ GatewayFails(q)
             \/ SubscribeArrives(q) \/ ResultExpires(q)
      PROVE  SubscriptionOpen'
  <2>1. Subscribed(q)'
    <3> USE DEF Goto, gatewayVars
    <3>1. /\ pc \in [Requests -> Answers \cup
                {"new", "register", "get1", "subscribe", "get2", "listen", "close_hit",
                 "close_done", "close_timeout", "close_error", "fetch", "inspect", "delete"}]
          /\ sub \in [Requests -> {"none", "sent", "on"}]
      BY DEF TypeOK
    <3>2. CASE Submit(q)
      BY <3>1, <3>2 DEF Submit
    <3>3. CASE Register(q) \/ FirstLook(q) \/ Subscribe(q) \/ Notified(q) \/ TimesOut(q)
      BY <3>1, <3>3 DEF Register, FirstLook, Subscribe, Notified, TimesOut
    <3>4. CASE Fetch(q) \/ Inspect(q) \/ Serve(q)
      BY <3>1, <3>4 DEF Fetch, Inspect, Serve
    <3>5. CASE SecondLook(q)
      BY <3>1, <3>5 DEF SecondLook
    <3>6. CASE Close(q)
      BY <3>1, <3>6 DEF Close
    <3>7. CASE GatewayFails(q)
      BY <3>1, <3>7 DEF GatewayFails
    <3>8. CASE SubscribeArrives(q)
      BY <3>1, <3>8 DEF SubscribeArrives
    <3>9. CASE ResultExpires(q)
      BY <3>1, <3>9 DEF ResultExpires
    <3>. QED
      BY <1>1, <3>2, <3>3, <3>4, <3>5, <3>6, <3>7, <3>8, <3>9 DEF HandlerStep
  <2>2. overtaken \subseteq overtaken'
    BY <1>1, GatewayFrame
  <2>3. \A p \in Requests \ {q} : pc'[p] = pc[p] /\ sub'[p] = sub[p]
    BY <1>1, GatewayFrame
  <2>4. ASSUME NEW p \in Requests \ {q}
        PROVE  Subscribed(p)'
    BY <2>2, <2>3
  <2> HIDE DEF Subscribed
  <2>. QED  BY <2>1, <2>4
<1>2. ASSUME NEW w \in Workers,
             \/ \E q \in Requests : Take(w, q) \/ TakeReplyLost(w, q)
             \/ ProcessStep(w) \/ WorkerFault(w)
      PROVE  SubscriptionOpen'
  BY <1>2, WorkerFrame
<1>3. ASSUME Misjudge \/ \E q \in Requests : Redeliver(q) \/ Drop(q)
      PROVE  SubscriptionOpen'
  BY <1>3, ReaperFrame
<1>4. CASE UNCHANGED vars
  BY <1>4 DEF vars, gatewayVars
<1>. QED  BY <1>1, <1>2, <1>3, <1>4 DEF Next

\* Of the ways out of the handler only an exception leaves a subscription, and of
\* the places where one can be raised only those with a subscription to leave.
LEMMA LeftOpenStep ==
  ASSUME TypeOK, SubscriptionOpen, [Next]_vars, NEW p \in Requests, LeavesOpen(p)
  PROVE  pc[p] \in Exposed /\ pc'[p] = "500 error"
<1>1. Subscribed(p) /\ Subscribed(p)'
  BY SubscriptionStep DEF SubscriptionOpen
<1>2. pc'[p] = "500 error"
  BY <1>1 DEF Subscribed, LeavesOpen, Answered, Answers
<1>3. pc'[p] # pc[p]
  BY <1>2 DEF LeavesOpen, Answered
<1>4. PICK q \in Requests : \/ Submit(q) \/ HandlerStep(q) \/ GatewayFails(q)
                            \/ SubscribeArrives(q) \/ ResultExpires(q)
  BY <1>3, WorkerFrame, ReaperFrame DEF Next, vars, gatewayVars
<1>5. q = p
  BY <1>3, <1>4, GatewayFrame
<1>6. pc = [r \in Requests |-> pc[r]] /\ sub = [r \in Requests |-> sub[r]]
  BY DEF TypeOK
<1> USE <1>2, <1>6 DEF Goto
<1>7. CASE GatewayFails(p)
  <2>1. pc[p] \notin {"new", "register", "get1", "listen", "fetch", "inspect", "delete"}
    BY <1>1, <1>7 DEF GatewayFails, Subscribed, LeavesOpen
  <2>. QED  BY <1>7, <2>1 DEF GatewayFails, Exposed
<1>8. CASE Close(p)
  BY <1>8 DEF Close, LeavesOpen
<1>9. CASE Submit(p) \/ Register(p) \/ FirstLook(p) \/ Subscribe(p) \/ SecondLook(p)
  BY <1>9 DEF Submit, Register, FirstLook, Subscribe, SecondLook
<1>10. CASE Notified(p) \/ TimesOut(p) \/ Fetch(p) \/ Inspect(p) \/ Serve(p)
  BY <1>10 DEF Notified, TimesOut, Fetch, Inspect, Serve
<1>11. CASE SubscribeArrives(p) \/ ResultExpires(p)
  BY <1>3, <1>11 DEF SubscribeArrives, ResultExpires, gatewayVars
<1>. QED
  BY <1>4, <1>5, <1>7, <1>8, <1>9, <1>10, <1>11 DEF HandlerStep

\* A handler leaves its subscription open only if subscribe(), the second GET,
\* unsubscribe() or close() raises; the timeout and what is raised while it listens
\* are closed behind.
THEOREM SubscriptionsReturned == Spec => SubscriptionGivenBack
<1>1. Init => SubscriptionOpen
  BY DEF Init, SubscriptionOpen, Subscribed
<1>2. TypeOK /\ SubscriptionOpen /\ [Next]_vars => SubscriptionOpen'
  BY SubscriptionStep
<1>3. TypeOK /\ SubscriptionOpen /\ [Next]_vars =>
        [\A q \in Requests : LeavesOpen(q) => pc[q] \in Exposed /\ pc'[q] = "500 error"]_vars
  BY LeftOpenStep
<1>. QED  BY <1>1, <1>2, <1>3, TypeCorrect, PTL DEF Spec, SubscriptionGivenBack

-----------------------------------------------------------------------------
(* DONE and the cached result                                              *)

\* A worker only ever adds to the cache, sends DONE only at PUBLISH, and gets to
\* COMPLETED and PUBLISH only by way of SET result:<id>.
LEMMA WorkerStores ==
  ASSUME TypeOK, NEW w \in Workers,
         \/ \E q \in Requests : Take(w, q) \/ TakeReplyLost(w, q)
         \/ ProcessStep(w) \/ WorkerFault(w)
  PROVE  /\ \A q \in Requests : cache[q] => cache'[q]
         /\ \/ UNCHANGED <<inbox, published>>
            \/ wpc[w] = "publish" /\ wreq[w] \in Requests /\ Deliver(wreq[w])
         /\ wpc'[w] \in {"complete", "publish"} =>
              /\ wreq'[w] = wreq[w]
              /\ wpc[w] = "complete" \/ cache'[wreq[w]]
<1> USE DEF Continue, Finally, storeVars, history, workerVars
<1>0. /\ wpc = [v \in Workers |-> wpc[v]]
      /\ wreq = [v \in Workers |-> wreq[v]]
      /\ cache = [q \in Requests |-> cache[q]]
      /\ wpc[w] \notin {"idle", "down"} => wreq[w] \in Requests
  BY ConstantsOK DEF TypeOK, ConstantsOK
<1>1. CASE \E q \in Requests : Take(w, q) \/ TakeReplyLost(w, q)
  BY <1>0, <1>1 DEF Take, TakeReplyLost
<1>2. CASE ProcessStep(w)
  BY <1>0, <1>2 DEF ProcessStep, SetProcessing, Generate, StoreResult, SetCompleted, Publish,
     SetFailed, Ack
<1>3. CASE CommandFails(w)
  BY <1>0, <1>3 DEF CommandFails
<1>4. CASE GenerateFails(w) \/ SetFailedFails(w) \/ AckFails(w) \/ Crash(w)
  BY <1>0, <1>4 DEF GenerateFails, SetFailedFails, AckFails, Crash
<1>. QED  BY <1>1, <1>2, <1>3, <1>4 DEF WorkerFault

\* Until the client is answered, DONE and the steps that lead to it find the
\* result in the cache.
Stored(q) ==
  ~ Answered(q) =>
    /\ q \in published => cache[q]
    /\ \A w \in Workers :
         Running(w, q) /\ wpc[w] \in {"complete", "publish"} => cache[q]

\* Nobody is notified of what was not published.
DoneSent(q) == inbox[q] \/ pc[q] \in {"close_done", "fetch"} => q \in published

\* What the two say, of every request.
StoredBeforeDone == \A q \in Requests : Stored(q) /\ DoneSent(q)

\* A handler's step keeps what is said of its own request.
LEMMA HandlerStored ==
  ASSUME TypeOK, ~ ShortTTL, NEW q \in Requests, Stored(q), DoneSent(q),
         \/ Submit(q) \/ HandlerStep(q) \/ GatewayFails(q)
         \/ SubscribeArrives(q) \/ ResultExpires(q)
  PROVE  Stored(q)' /\ DoneSent(q)'
<1> USE DEF Stored, DoneSent, Answered, Answers, Running, Goto, queueVars, gatewayVars,
        storeVars, workerVars, history
<1>1. /\ pc = [p \in Requests |-> pc[p]]
      /\ cache = [p \in Requests |-> cache[p]]
      /\ inbox = [p \in Requests |-> inbox[p]]
  BY DEF TypeOK
<1>2. CASE Submit(q)
  BY <1>1, <1>2 DEF Submit
<1>3. CASE Register(q) \/ FirstLook(q) \/ Subscribe(q) \/ Notified(q) \/ TimesOut(q)
  BY <1>1, <1>3 DEF Register, FirstLook, Subscribe, Notified, TimesOut
<1>4. CASE Fetch(q) \/ Inspect(q) \/ Serve(q)
  BY <1>1, <1>4 DEF Fetch, Inspect, Serve
<1>5. CASE SecondLook(q)
  BY <1>1, <1>5 DEF SecondLook
<1>6. CASE Close(q)
  BY <1>1, <1>6 DEF Close
<1>7. CASE GatewayFails(q)
  BY <1>1, <1>7 DEF GatewayFails
<1>8. CASE SubscribeArrives(q)
  BY <1>1, <1>8 DEF SubscribeArrives
<1>9. CASE ResultExpires(q)
  BY <1>1, <1>9 DEF ResultExpires
<1>. QED
  BY <1>2, <1>3, <1>4, <1>5, <1>6, <1>7, <1>8, <1>9 DEF HandlerStep

\* SET comes before PUBLISH in process_task, and the TTL outlives the wait.
LEMMA StoredStep ==
  ASSUME TypeOK, ~ ShortTTL, StoredBeforeDone, [Next]_vars
  PROVE  StoredBeforeDone'
<1> USE DEF StoredBeforeDone
<1>1. ASSUME NEW q \in Requests,
             \/ Submit(q) \/ HandlerStep(q) \/ GatewayFails(q)
             \/ SubscribeArrives(q) \/ ResultExpires(q)
      PROVE  StoredBeforeDone'
  <2>1. Stored(q)' /\ DoneSent(q)'
    BY <1>1, HandlerStored
  <2>2. /\ \A p \in Requests \ {q} :
             pc'[p] = pc[p] /\ inbox'[p] = inbox[p] /\ cache'[p] = cache[p]
        /\ UNCHANGED <<wpc, wreq, published>>
    BY <1>1, GatewayFrame
  <2>3. ASSUME NEW p \in Requests \ {q}
        PROVE  Stored(p)' /\ DoneSent(p)'
    BY <2>2 DEF Stored, DoneSent, Answered, Running
  <2>. QED  BY <2>1, <2>3
<1>2. ASSUME NEW w \in Workers,
             \/ \E q \in Requests : Take(w, q) \/ TakeReplyLost(w, q)
             \/ ProcessStep(w) \/ WorkerFault(w)
      PROVE  StoredBeforeDone'
  <2>1. pc' = pc /\ \A v \in Workers \ {w} : wpc'[v] = wpc[v] /\ wreq'[v] = wreq[v]
    BY <1>2, WorkerFrame
  <2>2. /\ \A q \in Requests : cache[q] => cache'[q]
        /\ \/ UNCHANGED <<inbox, published>>
           \/ wpc[w] = "publish" /\ wreq[w] \in Requests /\ Deliver(wreq[w])
        /\ wpc'[w] \in {"complete", "publish"} =>
             /\ wreq'[w] = wreq[w]
             /\ wpc[w] = "complete" \/ cache'[wreq[w]]
    BY <1>2, WorkerStores
  <2>3. ASSUME NEW q \in Requests
        PROVE  Stored(q)'
    <3> SUFFICES ASSUME ~ Answered(q)
                 PROVE  /\ q \in published' => cache'[q]
                        /\ \A v \in Workers :
                             Running(v, q)' /\ wpc'[v] \in {"complete", "publish"} => cache'[q]
      BY <2>1 DEF Stored, Answered
    <3>1. q \in published' => cache'[q]
      BY <2>2 DEF Stored, Running, Deliver
    <3>2. ASSUME NEW v \in Workers, Running(v, q)', wpc'[v] \in {"complete", "publish"}
          PROVE  cache'[q]
      <4>1. CASE v = w
        BY <2>2, <3>2, <4>1 DEF Stored, Running
      <4>2. CASE v # w
        BY <2>1, <2>2, <3>2, <4>2 DEF Stored, Running
      <4>. QED  BY <4>1, <4>2
    <3>. QED  BY <3>1, <3>2
  <2>4. ASSUME NEW q \in Requests
        PROVE  DoneSent(q)'
    <3>1. inbox'[q] => inbox[q] \/ q \in published'
      BY <2>2 DEF Deliver, TypeOK
    <3>2. published \subseteq published'
      BY <2>2 DEF Deliver
    <3>. QED  BY <2>1, <3>1, <3>2 DEF DoneSent
  <2>. QED  BY <2>3, <2>4
<1>3. ASSUME Misjudge \/ \E q \in Requests : Redeliver(q) \/ Drop(q)
      PROVE  StoredBeforeDone'
  BY <1>3, ReaperFrame DEF Stored, DoneSent, Answered, Running
<1>4. CASE UNCHANGED vars
  BY <1>4 DEF vars, gatewayVars, storeVars, workerVars, history, Stored, DoneSent,
     Answered, Running
<1>. QED  BY <1>1, <1>2, <1>3, <1>4 DEF Next

\* The invariant of the two looks, the subscription and DONE.
NotificationInv ==
  /\ SubscriptionOpen
  /\ StoredBeforeDone
  /\ NoLostWakeup
  /\ NotifiedFindsResult

\* The strengthened invariant is inductive.
LEMMA NotificationStep ==
  ASSUME TypeOK, ~ ShortTTL, NotificationInv, [Next]_vars
  PROVE  NotificationInv'
<1>1. SubscriptionOpen' /\ StoredBeforeDone'
  BY SubscriptionStep, StoredStep DEF NotificationInv
<1>2. ASSUME NEW q \in Requests,
             \/ Submit(q) \/ HandlerStep(q) \/ GatewayFails(q)
             \/ SubscribeArrives(q) \/ ResultExpires(q)
      PROVE  NoLostWakeup' /\ NotifiedFindsResult'
  <2>1. /\ pc'[q] = "listen" /\ q \in published' /\ q \notin overtaken' => inbox'[q]
        /\ pc'[q] \notin {"inspect", "500 failed", "500 empty"}
    <3> USE DEF NotificationInv, StoredBeforeDone, Stored, DoneSent, NoLostWakeup,
            NotifiedFindsResult, Answered, Answers, Goto, gatewayVars, storeVars,
            workerVars, history
    <3>1. pc = [p \in Requests |-> pc[p]]
      BY DEF TypeOK
    <3>2. CASE Submit(q)
      BY <3>1, <3>2 DEF Submit
    <3>3. CASE Register(q) \/ FirstLook(q) \/ Subscribe(q) \/ Notified(q) \/ TimesOut(q)
      BY <3>1, <3>3 DEF Register, FirstLook, Subscribe, Notified, TimesOut
    <3>4. CASE Fetch(q) \/ Inspect(q) \/ Serve(q)
      BY <3>1, <3>4 DEF Fetch, Inspect, Serve
    <3>5. CASE SecondLook(q)
      BY <3>1, <3>5 DEF SecondLook
    <3>6. CASE Close(q)
      BY <3>1, <3>6 DEF Close
    <3>7. CASE GatewayFails(q)
      BY <3>1, <3>7 DEF GatewayFails
    <3>8. CASE SubscribeArrives(q) \/ ResultExpires(q)
      BY <3>1, <3>8 DEF SubscribeArrives, ResultExpires
    <3>. QED
      BY <1>2, <3>2, <3>3, <3>4, <3>5, <3>6, <3>7, <3>8 DEF HandlerStep
  <2>2. /\ \A p \in Requests \ {q} : pc'[p] = pc[p] /\ inbox'[p] = inbox[p]
        /\ published' = published
    BY <1>2, GatewayFrame
  <2>3. overtaken \subseteq overtaken'
    BY <1>2, GatewayFrame
  <2>. QED  BY <2>1, <2>2, <2>3 DEF NotificationInv, NoLostWakeup, NotifiedFindsResult
<1>3. ASSUME NEW w \in Workers,
             \/ \E q \in Requests : Take(w, q) \/ TakeReplyLost(w, q)
             \/ ProcessStep(w) \/ WorkerFault(w)
      PROVE  NoLostWakeup' /\ NotifiedFindsResult'
  <2>1. UNCHANGED <<pc, sub, overtaken>>
    BY <1>3, WorkerFrame
  <2>2. \/ UNCHANGED <<inbox, published>>
        \/ wreq[w] \in Requests /\ Deliver(wreq[w])
    BY <1>3, WorkerStores
  <2>3. ASSUME NEW q \in Requests, pc[q] = "listen", q \in published', q \notin overtaken
        PROVE  inbox'[q]
    <3>1. CASE q \in published /\ UNCHANGED inbox
      BY <2>3, <3>1 DEF NotificationInv, NoLostWakeup
    <3>2. CASE Deliver(wreq[w]) /\ wreq[w] \in Requests
      <4>1. sub[q] = "on"
        BY <2>3 DEF NotificationInv, SubscriptionOpen, Subscribed
      <4>2. inbox \in [Requests -> BOOLEAN]
        BY DEF TypeOK
      <4>3. CASE q = wreq[w]
        BY <3>2, <4>1, <4>2, <4>3 DEF Deliver
      <4>4. CASE q # wreq[w]
        BY <2>3, <3>2, <4>2, <4>4 DEF Deliver, NotificationInv, NoLostWakeup
      <4>. QED  BY <4>3, <4>4
    <3>. QED  BY <2>2, <2>3, <3>1, <3>2
  <2>. QED  BY <2>1, <2>3 DEF NotificationInv, NoLostWakeup, NotifiedFindsResult
<1>4. ASSUME Misjudge \/ \E q \in Requests : Redeliver(q) \/ Drop(q)
      PROVE  NoLostWakeup' /\ NotifiedFindsResult'
  BY <1>4, ReaperFrame DEF NotificationInv, NoLostWakeup, NotifiedFindsResult
<1>5. CASE UNCHANGED vars
  BY <1>1, <1>5 DEF vars, gatewayVars, storeVars, workerVars, history, NotificationInv,
     NoLostWakeup, NotifiedFindsResult
<1>. QED  BY <1>1, <1>2, <1>3, <1>4, <1>5 DEF Next, NotificationInv

\* It holds at first and after every step.
LEMMA NotificationHolds ==
  ASSUME ~ ShortTTL
  PROVE  Spec => []NotificationInv
<1>1. Init => NotificationInv
  BY DEF Init, NotificationInv, SubscriptionOpen, Subscribed, StoredBeforeDone, Stored,
     DoneSent, NoLostWakeup, NotifiedFindsResult, Running
<1>2. TypeOK /\ NotificationInv /\ [Next]_vars => NotificationInv'
  BY NotificationStep
<1>. QED  BY <1>1, <1>2, TypeCorrect, PTL DEF Spec

\* No wake-up is lost, wherever SET and PUBLISH fall between the two looks and
\* the subscription, if a result outlives the wait for it as with the
\* repository's settings (300 s against 30 s).
THEOREM WakeupNotLost ==
  ASSUME ~ ShortTTL
  PROVE  Spec => []NoLostWakeup
<1>1. NotificationInv => NoLostWakeup
  BY DEF NotificationInv
<1>. QED  BY <1>1, NotificationHolds, PTL

\* Under the same condition a notified client finds the result, also when the
\* task is run twice, a worker dies after PUBLISH or a reaper takes it away.
THEOREM DoneFindsResult ==
  ASSUME ~ ShortTTL
  PROVE  Spec => []NotifiedFindsResult
<1>1. NotificationInv => NotifiedFindsResult
  BY DEF NotificationInv
<1>. QED  BY <1>1, NotificationHolds, PTL

-----------------------------------------------------------------------------
(* Who runs a task holds it                                                *)

\* As long as no reaper has drained a live worker, a task is held by the
\* worker that runs it.
RunnerHolds ==
  ~ wild => \A w \in Workers, q \in Requests : Running(w, q) => holder[q] = w

\* The finally clause comes after the outcome.
AckIsDone == \A w \in Workers : wpc[w] = "ack" => wreq[w] \in done

\* Both together are inductive.
Ownership == RunnerHolds /\ AckIsDone

\* Popping a task leaves every other worker with what it holds.
LEMMA TakeOwnership ==
  ASSUME TypeOK, Ownership, NEW w \in Workers, NEW q \in Requests,
         Take(w, q) \/ TakeReplyLost(w, q)
  PROVE  Ownership'
<1> USE DEF Take, TakeReplyLost, Queue!Take, Continue
<1>1. /\ w # None
      /\ wpc[w] = "idle" => wreq[w] = None
      /\ None \notin Requests
      /\ holder[q] = None
  BY ConstantsOK DEF TypeOK, ConstantsOK
<1>2. /\ wpc = [v \in Workers |-> wpc[v]]
      /\ wreq = [v \in Workers |-> wreq[v]]
      /\ holder = [p \in Requests |-> holder[p]]
  BY DEF TypeOK
<1>3. \A v \in Workers, p \in Requests : Running(v, p)' => Running(v, p) \/ (v = w /\ p = q)
  BY <1>1, <1>2 DEF Running
<1>4. ~ wild => \A v \in Workers : ~ Running(v, q)
  BY <1>1, ConstantsOK DEF Ownership, RunnerHolds, ConstantsOK
<1>5. RunnerHolds'
  BY <1>2, <1>3, <1>4 DEF Ownership, RunnerHolds
<1>6. AckIsDone'
  BY <1>2 DEF Ownership, AckIsDone
<1>. QED  BY <1>5, <1>6 DEF Ownership

\* A step inside process_task moves no task and ends in the finally clause only
\* by way of Finish.
LEMMA ProcessOwnership ==
  ASSUME TypeOK, Ownership, NEW w \in Workers,
         \/ SetProcessing(w) \/ Generate(w) \/ StoreResult(w) \/ SetCompleted(w)
         \/ Publish(w) \/ SetFailed(w)
         \/ GenerateFails(w) \/ CommandFails(w) \/ SetFailedFails(w)
  PROVE  Ownership'
<1> USE DEF Continue, Finally, Queue!Finish, queueVars
<1>1. /\ UNCHANGED <<wild, holder, wreq>>
      /\ done \subseteq done'
      /\ \A v \in Workers : wpc'[v] = "ack" => wpc[v] = "ack" \/ (v = w /\ wreq[w] \in done')
  <2>1. wpc = [v \in Workers |-> wpc[v]]
    BY DEF TypeOK
  <2>. QED  BY <2>1 DEF SetProcessing, Generate, StoreResult, SetCompleted, Publish, SetFailed,
            GenerateFails, CommandFails, SetFailedFails
<1>. QED  BY <1>1 DEF Ownership, RunnerHolds, AckIsDone, Running

\* LREM takes the task from its worker alone, and a crash ends the run.
LEMMA LeaveOwnership ==
  ASSUME TypeOK, Ownership, NEW w \in Workers, Ack(w) \/ AckFails(w) \/ Crash(w)
  PROVE  Ownership'
<1> USE DEF Ack, AckFails, Crash, Remove, Queue!Discharge, Continue, queueVars
<1>1. /\ wreq' = [wreq EXCEPT ![w] = None]
      /\ wpc' \in {[wpc EXCEPT ![w] = "idle"], [wpc EXCEPT ![w] = "down"]}
      /\ UNCHANGED <<wild, done>>
      /\ \/ UNCHANGED holder
         \/ holder[wreq[w]] = w /\ holder' = [holder EXCEPT ![wreq[w]] = None]
  OBVIOUS
<1>2. /\ wpc = [v \in Workers |-> wpc[v]]
      /\ wreq = [v \in Workers |-> wreq[v]]
      /\ holder = [p \in Requests |-> holder[p]]
      /\ None \notin Requests
  BY ConstantsOK DEF TypeOK, ConstantsOK
<1>3. \A v \in Workers, p \in Requests : Running(v, p)' => Running(v, p) /\ v # w
  BY <1>1, <1>2 DEF Running
<1>4. \A v \in Workers, p \in Requests : holder[p] = v /\ v # w => holder'[p] = v
  BY <1>1, <1>2
<1>5. RunnerHolds'
  BY <1>1, <1>3, <1>4 DEF Ownership, RunnerHolds
<1>6. AckIsDone'
  BY <1>1, <1>2 DEF Ownership, AckIsDone
<1>. QED  BY <1>5, <1>6 DEF Ownership

\* A task changes hands by BRPOPLPUSH of its new worker or by a reaper, and a
\* reaper takes nothing from a live worker without misjudging it.
LEMMA OwnershipStep ==
  ASSUME TypeOK, Ownership, [Next]_vars
  PROVE  Ownership'
<1>1. ASSUME NEW q \in Requests,
             \/ Submit(q) \/ HandlerStep(q) \/ GatewayFails(q)
             \/ SubscribeArrives(q) \/ ResultExpires(q)
      PROVE  Ownership'
  BY <1>1, GatewayFrame DEF Ownership, RunnerHolds, AckIsDone, Running
<1>2. ASSUME NEW w \in Workers,
             \/ \E q \in Requests : Take(w, q) \/ TakeReplyLost(w, q)
             \/ ProcessStep(w) \/ WorkerFault(w)
      PROVE  Ownership'
  BY <1>2, TakeOwnership, ProcessOwnership, LeaveOwnership DEF ProcessStep, WorkerFault
<1>3. CASE Misjudge
  BY <1>3, ReaperFrame DEF Misjudge, Queue!GoWild, Ownership, RunnerHolds, AckIsDone
<1>4. ASSUME NEW q \in Requests, Redeliver(q)
      PROVE  Ownership'
  <2>1. ~ wild => \A w \in Workers : ~ Running(w, q)
    BY <1>4, ConstantsOK DEF Redeliver, Ownership, RunnerHolds, Running, TypeOK, ConstantsOK
  <2>2. \A p \in Requests \ {q} : holder'[p] = holder[p]
    BY <1>4 DEF Redeliver, TypeOK
  <2>. QED  BY <1>4, <2>1, <2>2 DEF Redeliver, Queue!Return, Ownership, RunnerHolds,
               AckIsDone, Running
<1>5. ASSUME NEW q \in Requests, Drop(q)
      PROVE  Ownership'
  BY <1>5 DEF Drop, Queue!Drop, workerVars, Ownership, RunnerHolds, AckIsDone
<1>6. CASE UNCHANGED vars
  BY <1>6 DEF vars, queueVars, workerVars, Ownership, RunnerHolds, AckIsDone, Running
<1>. QED  BY <1>1, <1>2, <1>3, <1>4, <1>5, <1>6 DEF Next

\* The invariant of Ownership, from the first state on.
LEMMA OwnershipHolds == Spec => []Ownership
<1>1. Init => Ownership
  BY ConstantsOK DEF Init, Ownership, RunnerHolds, AckIsDone, Running, ConstantsOK
<1>2. TypeOK /\ Ownership /\ [Next]_vars => Ownership'
  BY OwnershipStep
<1>. QED  BY <1>1, <1>2, TypeCorrect, PTL DEF Spec

\* What Finally and Remove ask of the queue and process_task does not.
QueueGuardsHold ==
  \A w \in Workers :
    /\ wpc[w] \in {"publish", "fail"} => place[wreq[w]] = "held" \/ wild
    /\ wpc[w] = "ack" /\ holder[wreq[w]] = w =>
         place[wreq[w]] = "held" /\ wreq[w] \in done

\* A worker is never held up by a guard that the code does not have: the
\* conditions under which TaskDelivery lets a task be finished and discharged
\* are met whenever process_task reaches its finally clause and its LREM.
THEOREM WorkerNeverBlocked == Spec => []QueueGuardsHold
<1>1. TypeOK /\ Ownership => QueueGuardsHold
  <2> SUFFICES ASSUME TypeOK, Ownership, NEW w \in Workers
               PROVE  /\ wpc[w] \in {"publish", "fail"} => place[wreq[w]] = "held" \/ wild
                      /\ wpc[w] = "ack" /\ holder[wreq[w]] = w =>
                           place[wreq[w]] = "held" /\ wreq[w] \in done
    BY DEF QueueGuardsHold
  <2>1. wpc[w] \in {"publish", "fail", "ack"} => wreq[w] \in Requests
    BY DEF TypeOK
  <2>. QED  BY <2>1, ConstantsOK DEF TypeOK, ConstantsOK, Ownership, RunnerHolds,
               AckIsDone, Running
<1>. QED  BY <1>1, TypeCorrect, OwnershipHolds, PTL

-----------------------------------------------------------------------------
(* The outcome on record                                                   *)

\* The hash says FAILED, or COMPLETED with a result in it.
HasOutcome(q) == (status[q] = "COMPLETED" /\ result[q]) \/ status[q] = "FAILED"

\* From the end of the try block or of the except clause on, the outcome is in
\* the hash.
Recorded(q) ==
  Kind[q] = "sync" /\ q \notin broken /\ ~ wild =>
    /\ place[q] = "gone" => HasOutcome(q)
    /\ \A w \in Workers :
         Running(w, q) =>
           /\ wpc[w] = "publish" => status[q] = "COMPLETED" /\ result[q]
           /\ wpc[w] = "ack" => HasOutcome(q)

\* What is recorded, of every request; only /infer/async writes PENDING.
OutcomeOnRecord ==
  \A q \in Requests : /\ pc[q] = "register" => Kind[q] = "async"
                      /\ Recorded(q)

\* The handler writes the hash only to register a request that nobody runs.
LEMMA HandlerRecorded ==
  ASSUME TypeOK, OutcomeOnRecord, NEW q \in Requests,
         \/ Submit(q) \/ HandlerStep(q) \/ GatewayFails(q)
         \/ SubscribeArrives(q) \/ ResultExpires(q)
  PROVE  OutcomeOnRecord'
<1>1. /\ pc = [p \in Requests |-> pc[p]]
      /\ place = [p \in Requests |-> place[p]]
      /\ Kind[q] \in {"sync", "async"}
  BY ConstantsOK DEF TypeOK, ConstantsOK
<1>2. /\ pc'[q] = "register" => Kind[q] = "async"
      /\ Kind[q] = "sync" => status'[q] = status[q]
      /\ place'[q] = "gone" => place[q] = "gone"
  <2> USE DEF OutcomeOnRecord, Goto, queueVars, storeVars, gatewayVars, Answers
  <2>1. CASE Submit(q)
    BY <1>1, <2>1 DEF Submit, Queue!Submit
  <2>2. CASE Register(q) \/ FirstLook(q) \/ Subscribe(q) \/ Notified(q) \/ TimesOut(q)
    BY <1>1, <2>2 DEF Register, FirstLook, Subscribe, Notified, TimesOut
  <2>3. CASE Fetch(q) \/ Inspect(q) \/ Serve(q)
    BY <1>1, <2>3 DEF Fetch, Inspect, Serve
  <2>4. CASE SecondLook(q)
    BY <1>1, <2>4 DEF SecondLook
  <2>5. CASE Close(q)
    BY <1>1, <2>5 DEF Close
  <2>6. CASE GatewayFails(q)
    BY <1>1, <2>6 DEF GatewayFails, Queue!Submit
  <2>7. CASE SubscribeArrives(q) \/ ResultExpires(q)
    BY <1>1, <2>7 DEF SubscribeArrives, ResultExpires
  <2>. QED
    BY <2>1, <2>2, <2>3, <2>4, <2>5, <2>6, <2>7 DEF HandlerStep
<1>3. /\ UNCHANGED <<wild, result, wpc, wreq, broken>>
      /\ \A p \in Requests \ {q} :
           place'[p] = place[p] /\ pc'[p] = pc[p] /\ status'[p] = status[p]
  BY GatewayFrame
<1>. QED
  BY <1>2, <1>3 DEF OutcomeOnRecord, Recorded, HasOutcome, Running

\* A worker writes the hash of no task but its own.
LEMMA WorkerWrites ==
  ASSUME TypeOK, NEW w \in Workers,
         \/ \E q \in Requests : Take(w, q) \/ TakeReplyLost(w, q)
         \/ ProcessStep(w) \/ WorkerFault(w)
  PROVE  \A q \in Requests :
           ~ Running(w, q) => /\ status'[q] = status[q]
                              /\ result'[q] = result[q]
                              /\ cache'[q] = cache[q]
                              /\ place'[q] = "gone" => place[q] = "gone"
<1> USE DEF Finally, Remove, Running, storeVars, queueVars, Queue!Finish, Queue!Discharge
<1>0. /\ place = [q \in Requests |-> place[q]]
      /\ status = [q \in Requests |-> status[q]]
      /\ result = [q \in Requests |-> result[q]]
      /\ cache = [q \in Requests |-> cache[q]]
  BY DEF TypeOK
<1>1. CASE \E q \in Requests : Take(w, q) \/ TakeReplyLost(w, q)
  BY <1>0, <1>1 DEF Take, TakeReplyLost, Queue!Take
<1>2. CASE SetProcessing(w) \/ Generate(w) \/ StoreResult(w) \/ SetCompleted(w)
  BY <1>0, <1>2 DEF SetProcessing, Generate, StoreResult, SetCompleted
<1>3. CASE Publish(w) \/ SetFailed(w) \/ Ack(w)
  BY <1>0, <1>3 DEF Publish, SetFailed, Ack
<1>4. CASE CommandFails(w)
  BY <1>0, <1>4 DEF CommandFails
<1>5. CASE GenerateFails(w) \/ SetFailedFails(w) \/ AckFails(w) \/ Crash(w)
  BY <1>0, <1>5 DEF GenerateFails, SetFailedFails, AckFails, Crash
<1>. QED  BY <1>1, <1>2, <1>3, <1>4, <1>5 DEF ProcessStep, WorkerFault

\* What a worker's step does to its own task, unless a command raises.
LEMMA RunnerRecords ==
  ASSUME TypeOK, Ownership, NEW w \in Workers, NEW q \in Requests, Running(w, q),
         Kind[q] = "sync", ~ wild, Recorded(q), q \notin broken',
         ProcessStep(w) \/ WorkerFault(w)
  PROVE  /\ place'[q] = "gone" => HasOutcome(q)'
         /\ wreq'[w] = q =>
              /\ wpc'[w] = "publish" => status'[q] = "COMPLETED" /\ result'[q]
              /\ wpc'[w] = "ack" => HasOutcome(q)'
<1> USE DEF Continue, Finally, Remove, Running, HasOutcome, queueVars, storeVars, history,
      Queue!Finish, Queue!Discharge
<1>0. /\ place = [p \in Requests |-> place[p]]
      /\ status = [p \in Requests |-> status[p]]
      /\ result = [p \in Requests |-> result[p]]
      /\ wpc = [v \in Workers |-> wpc[v]]
      /\ q # None
  BY ConstantsOK DEF TypeOK, ConstantsOK
<1>1. place[q] # "gone"
  BY <1>0, ConstantsOK DEF TypeOK, ConstantsOK, Ownership, RunnerHolds
<1>2. q \notin broken
  BY WorkerFrame
<1>3. /\ wpc[w] = "publish" => status[q] = "COMPLETED" /\ result[q]
      /\ wpc[w] = "ack" => HasOutcome(q)
  BY <1>2 DEF Recorded
<1>4. CASE SetProcessing(w) \/ Generate(w) \/ StoreResult(w) \/ GenerateFails(w) \/ Crash(w)
  BY <1>0, <1>1, <1>4 DEF SetProcessing, Generate, StoreResult, GenerateFails, Crash
<1>5. CASE SetCompleted(w)
  BY <1>0, <1>1, <1>5 DEF SetCompleted
<1>6. CASE Publish(w)
  BY <1>0, <1>1, <1>3, <1>6 DEF Publish
<1>7. CASE SetFailed(w)
  BY <1>0, <1>1, <1>7 DEF SetFailed
<1>8. CASE Ack(w)
  BY <1>0, <1>3, <1>8 DEF Ack
<1>9. CASE CommandFails(w) \/ SetFailedFails(w) \/ AckFails(w)
  BY <1>9 DEF CommandFails, SetFailedFails, AckFails
<1>. QED  BY <1>4, <1>5, <1>6, <1>7, <1>8, <1>9 DEF ProcessStep, WorkerFault

\* The outcome is written before the worker leaves its try block or its
\* except clause.
LEMMA RecordedStep ==
  ASSUME TypeOK, Ownership, OutcomeOnRecord, [Next]_vars
  PROVE  OutcomeOnRecord'
<1>1. ASSUME NEW q \in Requests,
             \/ Submit(q) \/ HandlerStep(q) \/ GatewayFails(q)
             \/ SubscribeArrives(q) \/ ResultExpires(q)
      PROVE  OutcomeOnRecord'
  BY <1>1, HandlerRecorded
<1>2. ASSUME NEW w \in Workers,
             \/ \E q \in Requests : Take(w, q) \/ TakeReplyLost(w, q)
             \/ ProcessStep(w) \/ WorkerFault(w)
      PROVE  OutcomeOnRecord'
  <2>1. /\ UNCHANGED <<pc, wild>>
        /\ broken \subseteq broken'
        /\ \A v \in Workers \ {w} : wpc'[v] = wpc[v] /\ wreq'[v] = wreq[v]
    BY <1>2, WorkerFrame
  <2> SUFFICES ASSUME NEW q \in Requests, Kind[q] = "sync", q \notin broken', ~ wild
               PROVE  /\ place'[q] = "gone" => HasOutcome(q)'
                      /\ \A v \in Workers :
                           Running(v, q)' =>
                             /\ wpc'[v] = "publish" => status'[q] = "COMPLETED" /\ result'[q]
                             /\ wpc'[v] = "ack" => HasOutcome(q)'
    BY <2>1 DEF OutcomeOnRecord, Recorded
  <2>2. Recorded(q) /\ q \notin broken
    BY <2>1 DEF OutcomeOnRecord
  <2>3. CASE ~ Running(w, q)
    <3>1. /\ status'[q] = status[q]
          /\ result'[q] = result[q]
          /\ place'[q] = "gone" => place[q] = "gone"
      BY <1>2, <2>3, WorkerWrites
    <3>2. Running(w, q)' => wpc'[w] = "start"
      <4>1. wreq'[w] \in {wreq[w], None} \/ wpc'[w] = "start"
        BY <1>2 DEF TypeOK, Take, TakeReplyLost, ProcessStep, WorkerFault, SetProcessing,
           Generate, StoreResult, SetCompleted, Publish, SetFailed, Ack, GenerateFails,
           CommandFails, SetFailedFails, AckFails, Crash, Continue
      <4>. QED  BY <2>3, <4>1, ConstantsOK DEF Running, ConstantsOK
    <3>3. \A v \in Workers \ {w} : Running(v, q)' => Running(v, q)
      BY <2>1 DEF Running
    <3>. QED  BY <2>1, <2>2, <3>1, <3>2, <3>3 DEF Recorded, HasOutcome
  <2>4. CASE Running(w, q)
    <3>1. ProcessStep(w) \/ WorkerFault(w)
      BY <1>2, <2>4, ConstantsOK DEF Take, TakeReplyLost, Running, TypeOK, ConstantsOK
    <3>2. /\ place'[q] = "gone" => HasOutcome(q)'
          /\ wreq'[w] = q =>
               /\ wpc'[w] = "publish" => status'[q] = "COMPLETED" /\ result'[q]
               /\ wpc'[w] = "ack" => HasOutcome(q)'
      BY <2>2, <2>4, <3>1, RunnerRecords
    <3>3. \A v \in Workers : Running(v, q)' => v = w
      BY <2>1, <2>4 DEF Ownership, RunnerHolds, Running
    <3>. QED  BY <3>2, <3>3 DEF Running
  <2>. QED  BY <2>3, <2>4
<1>3. CASE Misjudge
  BY <1>3, ReaperFrame DEF Misjudge, Queue!GoWild, OutcomeOnRecord, Recorded
<1>4. ASSUME NEW q \in Requests, Redeliver(q)
      PROVE  OutcomeOnRecord'
  <2>1. \A p \in Requests : place'[p] = "gone" => place[p] = "gone"
    BY <1>4 DEF Redeliver, Queue!Return, TypeOK
  <2>. QED  BY <1>4, <2>1, ReaperFrame DEF Redeliver, Queue!Return, OutcomeOnRecord,
               Recorded, HasOutcome, Running
<1>5. ASSUME NEW q \in Requests, Drop(q)
      PROVE  OutcomeOnRecord'
  BY <1>5, ReaperFrame DEF Drop, Queue!Drop, OutcomeOnRecord, Recorded
<1>6. CASE UNCHANGED vars
  BY <1>6 DEF vars, queueVars, gatewayVars, storeVars, workerVars, history, OutcomeOnRecord,
     Recorded, HasOutcome, Running
<1>. QED  BY <1>1, <1>2, <1>3, <1>4, <1>5, <1>6 DEF Next

\* The task of a synchronous request is not discharged before its outcome is on
\* record, whichever worker died at whichever command, but for a command that
\* raised in the worker or a worker taken for dead.
THEOREM OutcomeBeforeDischarge == Spec => []SettledHasOutcome
<1>1. Init => OutcomeOnRecord
  BY ConstantsOK DEF Init, Queue!Init, OutcomeOnRecord, Recorded, Running, ConstantsOK
<1>2. TypeOK /\ Ownership /\ OutcomeOnRecord /\ [Next]_vars => OutcomeOnRecord'
  BY RecordedStep
<1>3. OutcomeOnRecord => SettledHasOutcome
  BY DEF OutcomeOnRecord, Recorded, HasOutcome, SettledHasOutcome, Settled
<1>. QED  BY <1>1, <1>2, <1>3, TypeCorrect, OwnershipHolds, PTL DEF Spec

-----------------------------------------------------------------------------
(* A task that is run once                                                 *)

\* The result has been stored, as the cache or the handler that found it shows.
HasResult(q) == cache[q] \/ pc[q] \in {"close_hit", "delete", "200"}

\* Before its run there is neither a result nor a failure of the task; the run
\* leaves one of them and not both.
RunOnce(q) ==
  q \notin broken \cup redelivered =>
    /\ place[q] \in {"new", "waiting"} =>
         /\ ~ HasResult(q) /\ status[q] # "FAILED"
         /\ \A w \in Workers : ~ Running(w, q)
    /\ \A v, w \in Workers : Running(v, q) /\ Running(w, q) => v = w
    /\ \A w \in Workers :
         Running(w, q) =>
           /\ wpc[w] \in {"start", "generate", "store", "fail"} => ~ HasResult(q)
           /\ wpc[w] # "ack" => status[q] # "FAILED"
    /\ status[q] = "FAILED" => ~ HasResult(q)

\* What RunOnce says, of every request.
AllRunOnce == \A q \in Requests : RunOnce(q)

\* The handler takes results over from the cache and makes none.
LEMMA HandlerRunOnce ==
  ASSUME TypeOK, AllRunOnce, NEW q \in Requests,
         \/ Submit(q) \/ HandlerStep(q) \/ GatewayFails(q)
         \/ SubscribeArrives(q) \/ ResultExpires(q)
  PROVE  AllRunOnce'
<1>1. /\ pc = [p \in Requests |-> pc[p]]
      /\ place = [p \in Requests |-> place[p]]
      /\ cache = [p \in Requests |-> cache[p]]
      /\ status = [p \in Requests |-> status[p]]
  BY DEF TypeOK
<1>2. /\ HasResult(q)' => HasResult(q)
      /\ status'[q] = "FAILED" => status[q] = "FAILED"
      /\ place'[q] \in {"new", "waiting"} => place[q] \in {"new", "waiting"}
  <2> USE <1>1 DEF HasResult, Goto, queueVars, storeVars, gatewayVars
  <2>1. CASE Submit(q)
    BY <2>1 DEF Submit, Queue!Submit
  <2>2. CASE Register(q) \/ FirstLook(q) \/ Subscribe(q) \/ Notified(q) \/ TimesOut(q)
    BY <2>2 DEF Register, FirstLook, Subscribe, Notified, TimesOut
  <2>3. CASE Fetch(q) \/ Inspect(q) \/ Serve(q)
    BY <2>3 DEF Fetch, Inspect, Serve
  <2>4. CASE SecondLook(q)
    BY <2>4 DEF SecondLook
  <2>5. CASE Close(q)
    BY <2>5 DEF Close
  <2>6. CASE GatewayFails(q)
    BY <2>6 DEF GatewayFails, Queue!Submit
  <2>7. CASE SubscribeArrives(q) \/ ResultExpires(q)
    BY <2>7 DEF SubscribeArrives, ResultExpires
  <2>. QED
    BY <2>1, <2>2, <2>3, <2>4, <2>5, <2>6, <2>7 DEF HandlerStep
<1>3. /\ UNCHANGED <<wpc, wreq, broken, redelivered>>
      /\ \A p \in Requests \ {q} : /\ place'[p] = place[p] /\ pc'[p] = pc[p]
                                   /\ cache'[p] = cache[p] /\ status'[p] = status[p]
  BY GatewayFrame
<1>4. RunOnce(q)'
  BY <1>2, <1>3 DEF AllRunOnce, RunOnce, Running
<1>5. ASSUME NEW p \in Requests \ {q}
      PROVE  RunOnce(p)'
  BY <1>3 DEF AllRunOnce, RunOnce, Running, HasResult
<1>. QED  BY <1>4, <1>5 DEF AllRunOnce

\* The run of a task: SET of the result on the one way, HSET FAILED on the other.
LEMMA RunnerRunOnce ==
  ASSUME TypeOK, NEW w \in Workers, NEW q \in Requests, Running(w, q), RunOnce(q),
         q \notin broken' \cup redelivered', ProcessStep(w) \/ WorkerFault(w)
  PROVE  RunOnce(q)'
<1>1. /\ UNCHANGED <<pc, redelivered>>
      /\ broken \subseteq broken'
      /\ \A v \in Workers \ {w} : wpc'[v] = wpc[v] /\ wreq'[v] = wreq[v]
  BY WorkerFrame
<1>2. /\ place[q] \notin {"new", "waiting"}
      /\ \A v \in Workers : Running(v, q) => v = w
      /\ wpc[w] \in {"start", "generate", "store", "fail"} => ~ HasResult(q)
      /\ wpc[w] # "ack" => status[q] # "FAILED"
      /\ status[q] = "FAILED" => ~ HasResult(q)
  BY <1>1 DEF RunOnce
<1>3. \A v \in Workers : Running(v, q)' => v = w
  BY <1>1, <1>2 DEF Running
<1>4. /\ place'[q] \notin {"new", "waiting"}
      /\ wreq'[w] = q =>
           /\ wpc'[w] \in {"start", "generate", "store", "fail"} => ~ HasResult(q)'
           /\ wpc'[w] # "ack" => status'[q] # "FAILED"
      /\ status'[q] = "FAILED" => ~ HasResult(q)'
  <2> USE <1>2 DEF Continue, Finally, Remove, Running, HasResult, queueVars, storeVars,
          history, Queue!Finish, Queue!Discharge
  <2>0. /\ place = [p \in Requests |-> place[p]]
        /\ status = [p \in Requests |-> status[p]]
        /\ cache = [p \in Requests |-> cache[p]]
        /\ wpc = [v \in Workers |-> wpc[v]]
        /\ wreq = [v \in Workers |-> wreq[v]]
        /\ q # None
    BY ConstantsOK DEF TypeOK, ConstantsOK
  <2>1. CASE SetProcessing(w) \/ Generate(w) \/ GenerateFails(w) \/ Crash(w)
    BY <1>1, <2>0, <2>1 DEF SetProcessing, Generate, GenerateFails, Crash
  <2>2. CASE StoreResult(w) \/ SetCompleted(w)
    BY <1>1, <2>0, <2>2 DEF StoreResult, SetCompleted
  <2>3. CASE Publish(w) \/ SetFailed(w)
    BY <1>1, <2>0, <2>3 DEF Publish, SetFailed
  <2>4. CASE Ack(w)
    BY <1>1, <2>0, <2>4 DEF Ack
  <2>5. CASE CommandFails(w) \/ SetFailedFails(w) \/ AckFails(w)
    BY <2>5 DEF CommandFails, SetFailedFails, AckFails
  <2>. QED  BY <2>1, <2>2, <2>3, <2>4, <2>5 DEF ProcessStep, WorkerFault
<1>. QED  BY <1>3, <1>4 DEF RunOnce, Running

\* A run of process_task whose commands do not fail leaves either a result or
\* FAILED.
LEMMA RunOnceStep ==
  ASSUME TypeOK, AllRunOnce, [Next]_vars
  PROVE  AllRunOnce'
<1>1. ASSUME NEW q \in Requests,
             \/ Submit(q) \/ HandlerStep(q) \/ GatewayFails(q)
             \/ SubscribeArrives(q) \/ ResultExpires(q)
      PROVE  AllRunOnce'
  BY <1>1, HandlerRunOnce
<1>2. ASSUME NEW w \in Workers, NEW p \in Requests, Take(w, p) \/ TakeReplyLost(w, p)
      PROVE  AllRunOnce'
  <2>1. /\ wpc = [v \in Workers |-> wpc[v]]
        /\ wreq = [v \in Workers |-> wreq[v]]
        /\ place = [q \in Requests |-> place[q]]
        /\ wpc[w] = "idle" => wreq[w] = None
        /\ None \notin Requests
    BY ConstantsOK DEF TypeOK, ConstantsOK
  <2>2. /\ place[p] = "waiting" /\ place' = [place EXCEPT ![p] = "held"]
        /\ UNCHANGED <<pc, cache, status, redelivered>>
        /\ broken \subseteq broken'
    BY <1>2 DEF Take, TakeReplyLost, Queue!Take, gatewayVars, storeVars, history
  <2>3. ASSUME NEW q \in Requests \ {p}
        PROVE  RunOnce(q)'
    <3>1. /\ place'[q] = place[q]
          /\ \A v \in Workers : Running(v, q)' => Running(v, q) /\ wpc'[v] = wpc[v]
      BY <1>2, <2>1, <2>2 DEF Take, TakeReplyLost, Continue, Running
    <3>. QED  BY <2>2, <3>1 DEF AllRunOnce, RunOnce, HasResult
  <2>4. RunOnce(p)'
    <3> SUFFICES ASSUME p \notin broken' \cup redelivered'
                 PROVE  RunOnce(p)'
      BY DEF RunOnce
    <3>1. /\ ~ HasResult(p) /\ status[p] # "FAILED"
          /\ \A v \in Workers : ~ Running(v, p)
      BY <2>2 DEF AllRunOnce, RunOnce
    <3>2. \A v \in Workers : Running(v, p)' => v = w /\ wpc'[v] = "start"
      BY <1>2, <2>1, <3>1 DEF Take, TakeReplyLost, Continue, Running
    <3>. QED  BY <2>1, <2>2, <3>1, <3>2 DEF RunOnce, HasResult
  <2>. QED  BY <2>3, <2>4 DEF AllRunOnce
<1>3. ASSUME NEW w \in Workers, ProcessStep(w) \/ WorkerFault(w)
      PROVE  AllRunOnce'
  <2>1. /\ UNCHANGED <<pc, redelivered>>
        /\ broken \subseteq broken'
        /\ \A v \in Workers \ {w} : wpc'[v] = wpc[v] /\ wreq'[v] = wreq[v]
    BY <1>3, WorkerFrame
  <2>2. wreq'[w] \in {wreq[w], None}
    BY <1>3 DEF TypeOK, ProcessStep, WorkerFault, SetProcessing, Generate, StoreResult,
       SetCompleted, Publish, SetFailed, Ack, GenerateFails, CommandFails,
       SetFailedFails, AckFails, Crash
  <2>3. ASSUME NEW q \in Requests, Running(w, q), q \notin broken' \cup redelivered'
        PROVE  RunOnce(q)'
    BY <1>3, <2>3, RunnerRunOnce DEF AllRunOnce
  <2>4. ASSUME NEW q \in Requests, ~ Running(w, q)
        PROVE  RunOnce(q)'
    <3>1. status'[q] = status[q] /\ cache'[q] = cache[q]
      BY <1>3, <2>4, WorkerWrites
    <3>2. place'[q] \in {"new", "waiting"} => place[q] \in {"new", "waiting"}
      BY <1>3 DEF TypeOK, ProcessStep, WorkerFault, SetProcessing, Generate, StoreResult,
         SetCompleted, Publish, SetFailed, Ack, GenerateFails, CommandFails,
         SetFailedFails, AckFails, Crash, Finally, Remove, Queue!Finish, Queue!Discharge,
         queueVars
    <3>3. \A v \in Workers : Running(v, q)' => Running(v, q) /\ wpc'[v] = wpc[v]
      BY <2>1, <2>2, <2>4, ConstantsOK DEF Running, ConstantsOK
    <3>. QED  BY <2>1, <3>1, <3>2, <3>3 DEF AllRunOnce, RunOnce, HasResult
  <2>. QED  BY <2>3, <2>4 DEF AllRunOnce, RunOnce
<1>4. CASE Misjudge
  BY <1>4, ReaperFrame DEF Misjudge, Queue!GoWild, workerVars, history, AllRunOnce,
     RunOnce, HasResult, Running
<1>5. ASSUME NEW p \in Requests, Redeliver(p) \/ Drop(p)
      PROVE  AllRunOnce'
  <2>1. /\ UNCHANGED <<pc, cache, status, wpc, wreq, broken>>
        /\ redelivered \subseteq redelivered'
        /\ \A q \in Requests :
             place'[q] \in {"new", "waiting"} =>
               place[q] \in {"new", "waiting"} \/ q \in redelivered'
    BY <1>5 DEF Redeliver, Drop, Queue!Return, Queue!Drop, gatewayVars, storeVars,
       workerVars, history, TypeOK
  <2>. QED  BY <2>1 DEF AllRunOnce, RunOnce, HasResult, Running
<1>6. CASE UNCHANGED vars
  BY <1>6 DEF vars, queueVars, gatewayVars, storeVars, workerVars, history, AllRunOnce,
     RunOnce, HasResult, Running
<1>. QED  BY <1>1, <1>2, <1>3, <1>4, <1>5, <1>6 DEF Next

\* The answer and the record agree: HTTP 200 for a task on record as FAILED
\* takes a second execution, or a command that raised in the worker.
THEOREM AnswerMatchesRecord == Spec => []OutcomesAgree
<1>1. Init => AllRunOnce
  BY ConstantsOK DEF Init, Queue!Init, AllRunOnce, RunOnce, HasResult, Running, ConstantsOK
<1>2. TypeOK /\ AllRunOnce /\ [Next]_vars => AllRunOnce'
  BY RunOnceStep
<1>3. AllRunOnce => OutcomesAgree
  BY DEF AllRunOnce, RunOnce, HasResult, OutcomesAgree
<1>. QED  BY <1>1, <1>2, <1>3, TypeCorrect, PTL DEF Spec

=============================================================================
