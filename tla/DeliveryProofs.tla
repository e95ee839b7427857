--------------------------- MODULE DeliveryProofs ---------------------------
(***************************************************************************)
(* ReliableQueue implements TaskDelivery: the lists, seen through Place,   *)
(* only ever make the steps TaskDelivery allows.  Most steps leave every   *)
(* task where it is; the moves between lists are Submit, Take and Return,  *)
(* a report is Finish, LREM is Discharge or nothing, and the DEL of a list *)
(* is nothing, or Drop once an id was misjudged.                           *)
(***************************************************************************)
EXTENDS ReliableQueueProofs

\* Where the tasks are is decided by the lists and by who has been pushed.
LEMMA SamePlaces ==
  ASSUME \A u \in Tasks : InQueue(u)' <=> InQueue(u),
         \A u \in Tasks : InProcessing(u)' <=> InProcessing(u),
         \A u \in Tasks : Pushed(u)' <=> Pushed(u)
  PROVE  [u \in Tasks |-> Place(u)'] = [u \in Tasks |-> Place(u)]
BY DEF Place

\* A step that moves no task, reports none and misjudges nobody, or misjudges.
LEMMA QuietMaps ==
  ASSUME queue' = queue, processing' = processing, executed' = executed,
         misjudged \subseteq misjudged',
         \A u \in Tasks : Pushed(u)' <=> Pushed(u)
  PROVE  [Delivery!Next]_(Delivery!vars)
<1>1. [u \in Tasks |-> Place(u)'] = [u \in Tasks |-> Place(u)]
  BY SameLists, SamePlaces
<1>2. CASE misjudged' = {} \/ misjudged # {}
  <2>1. (misjudged # {})' = (misjudged # {})
    BY <1>2
  <2>. QED  BY <1>1, <2>1 DEF Delivery!vars
<1>3. CASE misjudged' # {} /\ misjudged = {}
  <2>1. Delivery!GoWild
    BY <1>1, <1>3 DEF Delivery!GoWild
  <2>. QED  BY <2>1 DEF Delivery!Next
<1>. QED  BY <1>2, <1>3

\* LPUSH.
LEMMA PushMaps ==
  ASSUME IInv, NEW t \in Tasks, request[t] = "admitted",
         queue' = [queue EXCEPT ![TaskModel[t]] = Cons(t, @)],
         processing' = processing, executed' = executed, misjudged' = misjudged,
         \A u \in Tasks : Pushed(u)' <=> Pushed(u) \/ u = t
  PROVE  Delivery!Submit(t)
<1>1. /\ TaskModel[t] \in Models
      /\ ~ Pushed(t) /\ ~ InQueue(t) /\ ~ InProcessing(t)
  BY ConstantsOK DEF IInv, Fresh, Pushed, ConstantsOK
<1>2. /\ \A u \in Tasks : InQueue(u)' <=> InQueue(u) \/ u = t
      /\ \A u \in Tasks : InProcessing(u)' <=> InProcessing(u)
  BY <1>1, PushEffect DEF IInv
<1>3. Place(t) = "new"
  BY <1>1 DEF Place
<1>4. \A u \in Tasks : Place(u)' = IF u = t THEN "waiting" ELSE Place(u)
  BY <1>2 DEF Place
<1>. QED  BY <1>3, <1>4 DEF Delivery!Submit

\* BRPOPLPUSH.
LEMMA TakeMaps ==
  ASSUME IInv, NEW m \in Models, NEW k \in Keys, MoveToProcessing(m, k),
         executed' = executed, misjudged' = misjudged, request' = request
  PROVE  \E t \in Tasks : Delivery!Take(t)
<1> DEFINE t == Last(queue[m])
<1>1. /\ t \in Tasks
      /\ InQueue(t)
      /\ \A u \in Tasks : InQueue(u)' <=> InQueue(u) /\ u # t
      /\ \A u \in Tasks : InProcessing(u)' <=> InProcessing(u) \/ u = t
  BY MoveEffect DEF IInv
<1> HIDE DEF t
<1>2. Place(t) = "waiting"
  BY <1>1 DEF Place
<1>3. \A u \in Tasks : Place(u)' = IF u = t THEN "held" ELSE Place(u)
  BY <1>1 DEF Place, Pushed
<1>. QED  BY <1>1, <1>2, <1>3 DEF Delivery!Take

\* A task in a processing list is held.
LEMMA HeldPlace ==
  ASSUME OneCopy, NEW t \in Tasks, InProcessing(t)
  PROVE  Place(t) = "held"
BY DEF OneCopy, InProcessing, InQueue, Place

\* process_task run to its finally clause is Finish: the worker holds the task, or
\* some reaper drained its id.
LEMMA ExecuteMaps ==
  ASSUME IInv, NEW w \in Workers, Execute(w)
  PROVE  [Delivery!Next]_(Delivery!vars)
<1> DEFINE t == wtask[w]
<1>1. /\ t \in Tasks /\ Runs(w, t)
      /\ queue' = queue /\ processing' = processing /\ request' = request
      /\ misjudged' = misjudged /\ executed' = executed \cup {t}
  BY DEF IInv, TypeOK, Execute, Runs, brokerVars, gatewayVars
<1> HIDE DEF t
<1>2. [u \in Tasks |-> Place(u)'] = [u \in Tasks |-> Place(u)]
  BY <1>1, SameLists, SamePlaces DEF Pushed
<1>3. Place(t) = "held" \/ misjudged # {}
  <2>1. Key(w) \in Keys
    BY ConstantsOK DEF ConstantsOK, Key, Keys
  <2>2. CASE misjudged = {}
    <3>1. InProcessing(t)
      BY <1>1, <2>1, <2>2 DEF IInv, RunningIsRecoverable, InProcessing
    <3>. QED  BY <1>1, <3>1, HeldPlace DEF IInv
  <2>. QED  BY <2>2
<1>4. Delivery!Finish(t)
  BY <1>1, <1>2, <1>3 DEF Delivery!Finish
<1>. QED  BY <1>1, <1>4 DEF Delivery!Next

\* LREM is Discharge if the task was still in the list, and a stutter otherwise.
LEMMA AckMaps ==
  ASSUME IInv, NEW w \in Workers, Ack(w)
  PROVE  [Delivery!Next]_(Delivery!vars)
<1> DEFINE k == Key(w)
<1>0. PICK t \in Tasks : wpc[w] = "ack" /\ t = wtask[w]
  BY DEF Ack, IInv, TypeOK
<1>1. /\ wpc[w] = "ack"
      /\ processing' = [processing EXCEPT ![k] = RemoveFirst(@, t)]
      /\ UNCHANGED <<queue, request, executed, misjudged>>
  BY <1>0 DEF Ack, gatewayVars, historyVars
<1>2. t \in Tasks /\ k \in Keys /\ t \in executed
  BY <1>0, ConstantsOK DEF IInv, TypeOK, AckIsExecuted, ConstantsOK, Key, Keys
<1> HIDE DEF k
<1>3. /\ processing' \in [Keys -> Seq(Tasks)]
      /\ \A u \in Tasks : InQueue(u)' <=> InQueue(u)
      /\ \A u \in Tasks : InProcessing(u)' => InProcessing(u)
      /\ \A u \in Tasks : InProcessing(u) /\ u # t => InProcessing(u)'
      /\ \A l \in Keys : l # k => processing'[l] = processing[l]
      /\ t \notin ToSet(processing'[k])
  BY <1>1, <1>2, AckEffect DEF IInv
<1>4. CASE InProcessing(t)' \/ ~ InProcessing(t)
  <2>1. \A u \in Tasks : InProcessing(u)' <=> InProcessing(u)
    BY <1>3, <1>4
  <2>2. [u \in Tasks |-> Place(u)'] = [u \in Tasks |-> Place(u)]
    BY <1>1, <1>3, <2>1, SamePlaces DEF Pushed
  <2>. QED  BY <1>1, <2>2 DEF Delivery!vars
<1>5. CASE InProcessing(t) /\ ~ InProcessing(t)'
  <2>1. Place(t) = "held" /\ ~ InQueue(t) /\ Pushed(t)
    BY <1>2, <1>5, HeldPlace DEF IInv, Fresh, Place
  <2>2. \A u \in Tasks : Place(u)' = IF u = t THEN "gone" ELSE Place(u)
    BY <1>1, <1>3, <1>5, <2>1 DEF Place, Pushed
  <2>3. Delivery!Discharge(t)
    BY <1>1, <1>2, <2>1, <2>2 DEF Delivery!Discharge
  <2>. QED  BY <1>2, <2>3 DEF Delivery!Next
<1>. QED  BY <1>4, <1>5

\* RPOPLPUSH by a reaper is Return; on an empty list it is a stutter.
LEMMA RequeueMaps ==
  ASSUME IInv, NEW r \in Reapers, Requeue(r)
  PROVE  [Delivery!Next]_(Delivery!vars)
<1> DEFINE k == target[r]
           t == Last(processing[k])
<1>1. k \in Keys /\ k[1] \in Models
      /\ UNCHANGED <<request, executed, misjudged>>
  BY DEF Requeue, gatewayVars, IInv, TypeOK, Keys
<1>2. CASE processing[k] = <<>>
  <2>1. UNCHANGED <<queue, processing>>
    BY <1>2 DEF Requeue
  <2>. QED  BY <1>1, <2>1, QuietMaps DEF Pushed
<1>3. CASE processing[k] # <<>>
  <2>1. /\ processing' = [processing EXCEPT ![k] = Front(@)]
        /\ queue' = [queue EXCEPT ![k[1]] = Cons(t, @)]
    BY <1>3 DEF Requeue
  <2>2. /\ t \in Tasks /\ t \in ToSet(processing[k])
        /\ \A u \in Tasks : InQueue(u)' <=> InQueue(u) \/ u = t
        /\ \A u \in Tasks : InProcessing(u)' <=> InProcessing(u) /\ u # t
    BY <1>1, <1>3, <2>1, RequeueEffect DEF IInv
  <2> HIDE DEF k, t
  <2>3. Place(t) = "held"
    BY <1>1, <2>2, HeldPlace DEF IInv, InProcessing
  <2>4. \A u \in Tasks : Place(u)' = IF u = t THEN "waiting" ELSE Place(u)
    BY <1>1, <2>2 DEF Place, Pushed
  <2>5. Delivery!Return(t)
    BY <1>1, <2>2, <2>3, <2>4 DEF Delivery!Return
  <2>. QED  BY <2>2, <2>5 DEF Delivery!Next
<1>. QED  BY <1>2, <1>3

\* DEL is Drop of whatever tasks came into the list since the last RPOPLPUSH.
LEMMA DeleteKeyMaps ==
  ASSUME IInv, NEW r \in Reapers, DeleteKey(r)
  PROVE  [Delivery!Next]_(Delivery!vars)
<1> DEFINE k == target[r]
           S == ToSet(processing[k])
<1>1. /\ rpc[r] = "delete"
      /\ processing' = [processing EXCEPT ![k] = <<>>]
      /\ UNCHANGED <<queue, request, executed, misjudged>>
  BY DEF DeleteKey, gatewayVars, historyVars
<1>2. k \in Keys /\ (k[2] \in misjudged \/ processing[k] = <<>>)
  BY <1>1 DEF IInv, TypeOK, EmptyAtDelete
<1>3. /\ \A l \in Keys : l # k => processing'[l] = processing[l]
      /\ processing'[k] = <<>>
      /\ processing[k] = <<>> => processing' = processing
      /\ \A u \in Tasks : InQueue(u)' <=> InQueue(u)
  BY <1>1, <1>2, DeleteEffect DEF IInv
<1> HIDE DEF k
<1>4. CASE processing[k] = <<>>
  BY <1>1, <1>3, <1>4, QuietMaps DEF Pushed
<1>5. CASE misjudged # {}
  <2>1. S \subseteq Tasks
    BY <1>2 DEF IInv, TypeOK, ToSet
  <2>2. \A u \in S : Place(u) = "held" /\ ~ InQueue(u) /\ Pushed(u)
    <3> SUFFICES ASSUME NEW u \in S
                 PROVE  Place(u) = "held" /\ ~ InQueue(u) /\ Pushed(u)
      OBVIOUS
    <3>1. u \in Tasks /\ InProcessing(u)
      BY <1>2, <2>1 DEF InProcessing
    <3>. QED  BY <3>1, HeldPlace DEF IInv, Fresh, Place
  <2>3. \A u \in Tasks : InProcessing(u)' <=> InProcessing(u) /\ u \notin S
    <3>1. ToSet(<<>>) = {}
      BY DEF ToSet
    <3>2. \A l \in Keys : l # k => ToSet(processing[l]) \cap S = {}
      BY <1>2 DEF IInv, OneCopy
    <3>. QED  BY <1>2, <1>3, <3>1, <3>2 DEF InProcessing
  <2>4. \A u \in Tasks : Place(u)' = IF u \in S THEN "gone" ELSE Place(u)
    BY <1>1, <1>3, <2>2, <2>3 DEF Place, Pushed
  <2> HIDE DEF S
  <2>5. Delivery!Drop(S)
    BY <1>1, <1>5, <2>1, <2>2, <2>4 DEF Delivery!Drop
  <2>. QED  BY <2>1, <2>5 DEF Delivery!Next
<1>. QED  BY <1>2, <1>4, <1>5

\* In the initial state every task is new.
LEMMA InitMaps == Init => Delivery!Init
<1> SUFFICES ASSUME Init PROVE Delivery!Init
  OBVIOUS
<1>1. /\ \A m \in Models : queue[m] = <<>>
      /\ \A k \in Keys : processing[k] = <<>>
      /\ ToSet(<<>>) = {}
  BY DEF Init, ToSet
<1>2. \A t \in Tasks : ~ InQueue(t) /\ ~ InProcessing(t) /\ ~ Pushed(t)
  BY <1>1 DEF InQueue, InProcessing, Pushed, Init
<1>. QED  BY <1>2 DEF Delivery!Init, Place, Init

\* Every step of the queue is a step of TaskDelivery or a stutter.
LEMMA StepMaps == IInv /\ [Next]_vars => [Delivery!Next]_(Delivery!vars)
<1> SUFFICES ASSUME IInv, [Next]_vars PROVE [Delivery!Next]_(Delivery!vars)
  OBVIOUS
<1> USE DEF brokerVars, gatewayVars, historyVars
<1>1. CASE UNCHANGED vars
  BY <1>1, QuietMaps DEF vars, Pushed
<1>2. ASSUME NEW t \in Tasks, CheckDepth(t)
      PROVE  [Delivery!Next]_(Delivery!vars)
  <2>1. \A u \in Tasks : Pushed(u)' <=> Pushed(u)
    BY <1>2 DEF CheckDepth, Pushed, IInv, TypeOK
  <2>. QED  BY <1>2, <2>1, QuietMaps DEF CheckDepth
<1>3. ASSUME NEW t \in Tasks, Enqueue(t)
      PROVE  [Delivery!Next]_(Delivery!vars)
  <2>1. \A u \in Tasks : Pushed(u)' <=> Pushed(u) \/ u = t
    BY <1>3 DEF Enqueue, Pushed, IInv, TypeOK
  <2>2. Delivery!Submit(t)
    BY <1>3, <2>1, PushMaps DEF Enqueue
  <2>. QED  BY <2>2 DEF Delivery!Next
<1>4. ASSUME NEW t \in Tasks, EnqueueFails(t)
      PROVE  [Delivery!Next]_(Delivery!vars)
  <2>1. CASE UNCHANGED queue /\ request' = [request EXCEPT ![t] = "failed"]
             /\ request[t] \in {"new", "admitted"}
    <3>1. \A u \in Tasks : Pushed(u)' <=> Pushed(u)
      BY <2>1 DEF Pushed, IInv, TypeOK
    <3>. QED  BY <1>4, <2>1, <3>1, QuietMaps DEF EnqueueFails
  <2>2. CASE request[t] = "admitted"
             /\ request' = [request EXCEPT ![t] = "unknown"]
             /\ queue' = [queue EXCEPT ![TaskModel[t]] = Cons(t, @)]
    <3>1. \A u \in Tasks : Pushed(u)' <=> Pushed(u) \/ u = t
      BY <2>2 DEF Pushed, IInv, TypeOK
    <3>2. Delivery!Submit(t)
      BY <1>4, <2>2, <3>1, PushMaps DEF EnqueueFails
    <3>. QED  BY <3>2 DEF Delivery!Next
  <2>. QED  BY <1>4, <2>1, <2>2 DEF EnqueueFails
<1>5. ASSUME NEW w \in Workers, Dequeue(w) \/ DequeueReplyLost(w)
      PROVE  [Delivery!Next]_(Delivery!vars)
  <2>1. ModelOf[w] \in Models /\ Key(w) \in Keys
    BY ConstantsOK DEF ConstantsOK, Key, Keys
  <2>2. \E t \in Tasks : Delivery!Take(t)
    BY <1>5, <2>1, TakeMaps DEF Dequeue, DequeueReplyLost
  <2>. QED  BY <2>2 DEF Delivery!Next
<1>6. ASSUME NEW w \in Workers,
             PollOrExit(w) \/ PollTimeout(w) \/ AckFails(w) \/ StopSignal(w)
               \/ Crash(w) \/ Restart(w) \/ Heartbeat(w)
      PROVE  [Delivery!Next]_(Delivery!vars)
  BY <1>6, QuietMaps
  DEF PollOrExit, PollTimeout, AckFails, StopSignal, Crash, Restart, Heartbeat, Pushed
<1>7. ASSUME NEW id \in Ids, Expire(id) \/ Lapse(id)
      PROVE  [Delivery!Next]_(Delivery!vars)
  BY <1>7, QuietMaps DEF Expire, Lapse, Pushed
<1>8. ASSUME NEW r \in Reapers,
             Scan(r) \/ SkipKey(r) \/ FindAlive(r) \/ FindDead(r) \/ ReapFails(r)
      PROVE  [Delivery!Next]_(Delivery!vars)
  BY <1>8, QuietMaps DEF Scan, SkipKey, FindAlive, FindDead, ReapFails, Pushed
<1>. QED
  BY <1>1, <1>2, <1>3, <1>4, <1>5, <1>6, <1>7, <1>8,
     ExecuteMaps, AckMaps, RequeueMaps, DeleteKeyMaps
  DEF Next, GatewayStep, WorkerStep, WorkerFault, ReaperStep

\* The Redis lists keep the promise of TaskDelivery: a submitted task leaves
\* only after a worker has run it and never comes back after that, unless
\* a reaper drained an id while a worker had it.
THEOREM Refinement == Spec => DeliverySpec
<1>. QED  BY InitMaps, StepMaps, Invariance, PTL DEF Spec, DeliverySpec, Delivery!Spec
=============================================================================
