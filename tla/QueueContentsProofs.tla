------------------------ MODULE QueueContentsProofs ------------------------
(***************************************************************************)
(* What the lists of ReliableQueue hold: tasks of their own model, what a  *)
(* worker is running and nothing else, and no more than the limit allows.  *)
(*                                                                         *)
(* The three arguments are independent of each other and of what is        *)
(* misjudged.  Each needs only which commands touch the lists (ListFrame)  *)
(* and what they do to the set of tasks in each of them.                   *)
(***************************************************************************)
EXTENDS ReliableQueueProofs, FiniteSetTheorems

-----------------------------------------------------------------------------
(* Sets of tasks                                                           *)

\* What is popped was in the list.
LEMMA LastInside ==
  ASSUME NEW s \in Seq(Tasks), s # <<>>
  PROVE  Last(s) \in ToSet(s) /\ Last(s) \in Tasks
<1>1. /\ ToSet(s) = ToSet(Front(s)) \cup {Last(s)}
      /\ Last(s) \in Tasks
  BY PopLemma
<1>. QED  BY <1>1

\* A list of no tasks is empty.
LEMMA EmptySets ==
  ASSUME NEW s \in Seq(Tasks), ToSet(s) = {}
  PROVE  s = <<>>
<1>1. Len(s) \in Nat /\ \A i \in 1..Len(s) : s[i] \in ToSet(s)
  BY DEF ToSet
<1>2. Len(s) = 0
  BY <1>1
<1>. QED  BY <1>2, EmptySeq

\* A list has no more tasks than its length.
LEMMA ListSize ==
  ASSUME NEW s \in Seq(Tasks)
  PROVE  /\ IsFiniteSet(ToSet(s))
         /\ Cardinality(ToSet(s)) \in Nat
         /\ Cardinality(ToSet(s)) <= Len(s)
<1>1. Len(s) \in Nat /\ DOMAIN s = 1..Len(s)
  OBVIOUS
<1>2. s \in Surjection(1..Len(s), ToSet(s))
  BY <1>1 DEF Surjection, ToSet
<1>3. IsFiniteSet(1..Len(s)) /\ Cardinality(1..Len(s)) = Len(s)
  BY <1>1, FS_Interval
<1>4. IsFiniteSet(ToSet(s)) /\ Cardinality(ToSet(s)) <= Cardinality(1..Len(s))
  BY <1>2, <1>3, FS_Surjection
<1>. QED  BY <1>3, <1>4, FS_CardinalityType

\* Six operations touch the lists.
LEMMA ListFrame ==
  ASSUME [Next]_vars
  PROVE  \/ UNCHANGED <<queue, processing>>
         \/ \E t \in Tasks : Enqueue(t) \/ EnqueueFails(t)
         \/ \E w \in Workers : Dequeue(w) \/ DequeueReplyLost(w) \/ Ack(w)
         \/ \E r \in Reapers : Requeue(r) \/ DeleteKey(r)
<1> USE DEF brokerVars
<1>1. CASE UNCHANGED vars
  BY <1>1 DEF vars
<1>2. ASSUME NEW t \in Tasks, CheckDepth(t)
      PROVE  UNCHANGED <<queue, processing>>
  BY <1>2 DEF CheckDepth
<1>3. ASSUME NEW w \in Workers,
             \/ PollOrExit(w) \/ PollTimeout(w) \/ Execute(w) \/ AckFails(w)
             \/ StopSignal(w) \/ Crash(w) \/ Restart(w) \/ Heartbeat(w)
      PROVE  UNCHANGED <<queue, processing>>
  BY <1>3 DEF PollOrExit, PollTimeout, Execute, AckFails, StopSignal, Crash, Restart, Heartbeat
<1>4. ASSUME NEW id \in Ids, Expire(id) \/ Lapse(id)
      PROVE  UNCHANGED <<queue, processing>>
  BY <1>4 DEF Expire, Lapse
<1>5. ASSUME NEW r \in Reapers,
             Scan(r) \/ SkipKey(r) \/ FindAlive(r) \/ FindDead(r) \/ ReapFails(r)
      PROVE  UNCHANGED <<queue, processing>>
  BY <1>5 DEF Scan, SkipKey, FindAlive, FindDead, ReapFails
<1>. QED
  BY <1>1, <1>2, <1>3, <1>4, <1>5 DEF Next, GatewayStep, WorkerStep, WorkerFault, ReaperStep

\* A processing list gets its tasks from BRPOPLPUSH of its worker alone; every
\* other command leaves it as it is or takes out of it.
LEMMA ProcessingSets ==
  ASSUME TypeOK, [Next]_vars
  PROVE  \/ \A k \in Keys : ToSet(processing'[k]) \subseteq ToSet(processing[k])
         \/ \E w \in Workers :
              /\ Dequeue(w) \/ DequeueReplyLost(w)
              /\ Last(queue[ModelOf[w]]) \in ToSet(queue[ModelOf[w]])
              /\ \A k \in Keys :
                   ToSet(processing'[k]) =
                     ToSet(processing[k])
                       \cup IF k = Key(w) THEN {Last(queue[ModelOf[w]])} ELSE {}
<1>0. /\ queue \in [Models -> Seq(Tasks)]
      /\ processing \in [Keys -> Seq(Tasks)]
  BY DEF TypeOK
<1>1. CASE UNCHANGED <<queue, processing>>
  BY <1>1
<1>2. ASSUME NEW t \in Tasks, Enqueue(t) \/ EnqueueFails(t)
      PROVE  processing' = processing
  BY <1>2 DEF Enqueue, EnqueueFails
<1>3. ASSUME NEW w \in Workers, Dequeue(w) \/ DequeueReplyLost(w)
      PROVE  /\ Last(queue[ModelOf[w]]) \in ToSet(queue[ModelOf[w]])
             /\ \A k \in Keys :
                  ToSet(processing'[k]) =
                    ToSet(processing[k])
                      \cup IF k = Key(w) THEN {Last(queue[ModelOf[w]])} ELSE {}
  <2>1. MoveToProcessing(ModelOf[w], Key(w))
    BY <1>3 DEF Dequeue, DequeueReplyLost
  <2>2. ModelOf[w] \in Models /\ Key(w) \in Keys
    BY ConstantsOK DEF ConstantsOK, Key, Keys
  <2>3. /\ Last(queue[ModelOf[w]]) \in ToSet(queue[ModelOf[w]])
        /\ Last(queue[ModelOf[w]]) \in Tasks
    <3>1. queue[ModelOf[w]] \in Seq(Tasks) /\ queue[ModelOf[w]] # <<>>
      BY <1>0, <2>1, <2>2 DEF MoveToProcessing
    <3>. QED  BY <3>1, LastInside
  <2>4. ToSet(Cons(Last(queue[ModelOf[w]]), processing[Key(w)])) =
          ToSet(processing[Key(w)]) \cup {Last(queue[ModelOf[w]])}
    BY <1>0, <2>2, <2>3, PushLemma
  <2>5. processing' = [processing EXCEPT ![Key(w)] = Cons(Last(queue[ModelOf[w]]), @)]
    BY <2>1 DEF MoveToProcessing
  <2>. QED  BY <1>0, <2>2, <2>3, <2>4, <2>5
<1>4. ASSUME NEW w \in Workers, Ack(w)
      PROVE  \A k \in Keys : ToSet(processing'[k]) \subseteq ToSet(processing[k])
  <2>1. Key(w) \in Keys
    BY ConstantsOK DEF ConstantsOK, Key, Keys
  <2>2. ToSet(RemoveFirst(processing[Key(w)], wtask[w])) \subseteq ToSet(processing[Key(w)])
    BY <1>0, <2>1, RemLemma
  <2>. QED  BY <1>0, <1>4, <2>1, <2>2 DEF Ack
<1>5. ASSUME NEW r \in Reapers, Requeue(r)
      PROVE  \A k \in Keys : ToSet(processing'[k]) \subseteq ToSet(processing[k])
  <2>1. target[r] \in Keys
    BY <1>5 DEF Requeue, TypeOK
  <2>2. CASE processing[target[r]] # <<>>
    <3>1. ToSet(Front(processing[target[r]])) \subseteq ToSet(processing[target[r]])
      BY <1>0, <2>1, <2>2, PopLemma
    <3>2. processing' = [processing EXCEPT ![target[r]] = Front(@)]
      BY <1>5, <2>2 DEF Requeue
    <3>. QED  BY <1>0, <2>1, <3>1, <3>2
  <2>3. CASE processing[target[r]] = <<>>
    BY <1>5, <2>3 DEF Requeue
  <2>. QED  BY <2>2, <2>3
<1>6. ASSUME NEW r \in Reapers, DeleteKey(r)
      PROVE  \A k \in Keys : ToSet(processing'[k]) \subseteq ToSet(processing[k])
  <2>1. ToSet(<<>>) = {}
    BY DEF ToSet
  <2>. QED  BY <1>0, <1>6, <2>1 DEF DeleteKey
<1>. QED  BY <1>1, <1>2, <1>3, <1>4, <1>5, <1>6, ListFrame

\* A queue gets its tasks from LPUSH of a gateway and from RPOPLPUSH of a reaper
\* that read its model in the name of the list.
LEMMA QueueSets ==
  ASSUME TypeOK, [Next]_vars
  PROVE  \/ \A m \in Models : ToSet(queue'[m]) \subseteq ToSet(queue[m])
         \/ \E t \in Tasks :
              /\ Enqueue(t) \/ EnqueueFails(t)
              /\ \A m \in Models :
                   ToSet(queue'[m]) \subseteq
                     ToSet(queue[m]) \cup IF m = TaskModel[t] THEN {t} ELSE {}
         \/ \E k \in Keys : \E t \in ToSet(processing[k]) :
              /\ t \in requeued'
              /\ \A m \in Models :
                   ToSet(queue'[m]) \subseteq
                     ToSet(queue[m]) \cup IF m = k[1] THEN {t} ELSE {}
<1>0. /\ queue \in [Models -> Seq(Tasks)]
      /\ processing \in [Keys -> Seq(Tasks)]
  BY DEF TypeOK
<1>1. CASE UNCHANGED <<queue, processing>>
  BY <1>1
<1>2. ASSUME NEW t \in Tasks, Enqueue(t) \/ EnqueueFails(t)
      PROVE  \A m \in Models :
               ToSet(queue'[m]) \subseteq
                 ToSet(queue[m]) \cup IF m = TaskModel[t] THEN {t} ELSE {}
  <2>1. TaskModel[t] \in Models
    BY ConstantsOK DEF ConstantsOK
  <2>2. \/ UNCHANGED queue
        \/ queue' = [queue EXCEPT ![TaskModel[t]] = Cons(t, @)]
    BY <1>2 DEF Enqueue, EnqueueFails
  <2>3. ToSet(Cons(t, queue[TaskModel[t]])) = ToSet(queue[TaskModel[t]]) \cup {t}
    BY <1>0, <2>1, PushLemma
  <2>. QED  BY <1>0, <2>1, <2>2, <2>3
<1>3. ASSUME NEW w \in Workers, Dequeue(w) \/ DequeueReplyLost(w)
      PROVE  \A m \in Models : ToSet(queue'[m]) \subseteq ToSet(queue[m])
  <2>1. ModelOf[w] \in Models
    BY ConstantsOK DEF ConstantsOK
  <2>2. MoveToProcessing(ModelOf[w], Key(w))
    BY <1>3 DEF Dequeue, DequeueReplyLost
  <2>3. ToSet(Front(queue[ModelOf[w]])) \subseteq ToSet(queue[ModelOf[w]])
    BY <1>0, <2>1, <2>2, PopLemma DEF MoveToProcessing
  <2>. QED  BY <1>0, <2>1, <2>2, <2>3 DEF MoveToProcessing
<1>4. ASSUME NEW w \in Workers, Ack(w)
      PROVE  queue' = queue
  BY <1>4 DEF Ack
<1>5. ASSUME NEW r \in Reapers, Requeue(r)
      PROVE  \/ queue' = queue
             \/ \E k \in Keys : \E t \in ToSet(processing[k]) :
                  /\ t \in requeued'
                  /\ \A m \in Models :
                       ToSet(queue'[m]) \subseteq
                         ToSet(queue[m]) \cup IF m = k[1] THEN {t} ELSE {}
  <2>1. target[r] \in Keys
    BY <1>5 DEF Requeue, TypeOK
  <2> DEFINE k == target[r]
             t == Last(processing[k])
  <2>2. CASE processing[k] # <<>>
    <3>0. processing[k] \in Seq(Tasks)
      BY <1>0, <2>1
    <3>1. t \in ToSet(processing[k]) /\ t \in Tasks
      BY <2>2, <3>0, LastInside
    <3>2. /\ queue' = [queue EXCEPT ![k[1]] = Cons(t, @)]
          /\ t \in requeued'
      BY <1>5, <2>2 DEF Requeue
    <3>3. k[1] \in Models
      BY <2>1 DEF Keys
    <3> HIDE DEF t, k
    <3>4. ToSet(Cons(t, queue[k[1]])) = ToSet(queue[k[1]]) \cup {t}
      BY <1>0, <3>1, <3>3, PushLemma
    <3>5. \A m \in Models :
            ToSet(queue'[m]) \subseteq ToSet(queue[m]) \cup IF m = k[1] THEN {t} ELSE {}
      BY <1>0, <3>2, <3>3, <3>4
    <3>6. k \in Keys
      BY <2>1 DEF k
    <3>. QED  BY <3>1, <3>2, <3>5, <3>6
  <2>3. CASE processing[k] = <<>>
    BY <1>5, <2>3 DEF Requeue
  <2>. QED  BY <2>2, <2>3
<1>6. ASSUME NEW r \in Reapers, DeleteKey(r)
      PROVE  queue' = queue
  BY <1>6 DEF DeleteKey
<1>. QED  BY <1>1, <1>2, <1>3, <1>4, <1>5, <1>6, ListFrame

-----------------------------------------------------------------------------
(* Tasks stay with their model                                             *)

\* What a worker runs it has just popped, or ran before.
LEMMA RunsWhatItPopped ==
  ASSUME TypeOK, [Next]_vars, NEW w \in Workers, NEW t \in Tasks, Runs(w, t)'
  PROVE  Runs(w, t) \/ t \in ToSet(queue[ModelOf[w]])
<1>0. /\ wpc = [v \in Workers |-> wpc[v]]
      /\ wtask = [v \in Workers |-> wtask[v]]
      /\ queue \in [Models -> Seq(Tasks)]
  BY DEF TypeOK
<1> USE DEF Runs, workerVars
<1>1. CASE UNCHANGED vars
  BY <1>1 DEF vars
<1>2. ASSUME NEW u \in Tasks, GatewayStep(u) \/ EnqueueFails(u)
      PROVE  Runs(w, t)
  BY <1>2 DEF GatewayStep, CheckDepth, Enqueue, EnqueueFails
<1>3. ASSUME NEW v \in Workers, v # w, WorkerStep(v) \/ WorkerFault(v)
      PROVE  Runs(w, t)
  BY <1>0, <1>3 DEF WorkerStep, WorkerFault, PollOrExit, PollTimeout, Dequeue, Execute, Ack,
     DequeueReplyLost, AckFails, StopSignal, Crash, Restart
<1>4. CASE Dequeue(w)
  <2>1. t = Last(queue[ModelOf[w]])
    BY <1>0, <1>4 DEF Dequeue
  <2>2. queue[ModelOf[w]] \in Seq(Tasks) /\ queue[ModelOf[w]] # <<>>
    BY <1>0, <1>4, ConstantsOK DEF Dequeue, MoveToProcessing, ConstantsOK
  <2>. QED  BY <2>1, <2>2, LastInside
<1>5. CASE \/ PollOrExit(w) \/ PollTimeout(w) \/ Execute(w) \/ Ack(w)
           \/ WorkerFault(w)
  BY <1>0, <1>5 DEF PollOrExit, PollTimeout, Execute, Ack, WorkerFault, DequeueReplyLost,
     AckFails, StopSignal, Crash, Restart
<1>6. ASSUME NEW v \in Workers, Heartbeat(v)
      PROVE  Runs(w, t)
  BY <1>6 DEF Heartbeat
<1>7. ASSUME NEW id \in Ids, Expire(id) \/ Lapse(id)
      PROVE  Runs(w, t)
  BY <1>7 DEF Expire, Lapse
<1>8. ASSUME NEW r \in Reapers, ReaperStep(r) \/ ReapFails(r)
      PROVE  Runs(w, t)
  BY <1>8 DEF ReaperStep, Scan, SkipKey, FindAlive, FindDead, Requeue, DeleteKey, ReapFails
<1>. QED
  BY <1>1, <1>2, <1>3, <1>4, <1>5, <1>6, <1>7, <1>8 DEF Next, WorkerStep

\* Every command moves a task between lists of one model.
LEMMA IsolationStep ==
  ASSUME TypeOK, ModelIsolation, [Next]_vars
  PROVE  ModelIsolation'
<1>1. ASSUME NEW m \in Models, NEW t \in ToSet(queue'[m])
      PROVE  TaskModel[t] = m
  BY <1>1, QueueSets DEF ModelIsolation
<1>2. ASSUME NEW k \in Keys, NEW t \in ToSet(processing'[k])
      PROVE  TaskModel[t] = k[1]
  <2>1. ASSUME NEW w \in Workers
        PROVE  /\ ModelOf[w] \in Models
               /\ Key(w)[1] = ModelOf[w]
    BY ConstantsOK DEF ConstantsOK, Key
  <2>. QED  BY <1>2, <2>1, ProcessingSets DEF ModelIsolation
<1>3. ASSUME NEW w \in Workers, NEW t \in Tasks, Runs(w, t)'
      PROVE  TaskModel[t] = ModelOf[w]
  <2>1. ModelOf[w] \in Models
    BY ConstantsOK DEF ConstantsOK
  <2>. QED  BY <1>3, <2>1, RunsWhatItPopped DEF ModelIsolation
<1>. QED  BY <1>1, <1>2, <1>3 DEF ModelIsolation

\* A task waits, is held and is run only where its model is served, also after
\* a reaper put it back by the model name it read in the key of a list.
THEOREM TasksStayWithModel == Spec => []ModelIsolation
<1>1. Init => ModelIsolation
  <2>1. ToSet(<<>>) = {}
    BY DEF ToSet
  <2>. QED  BY <2>1, ConstantsOK DEF Init, ModelIsolation, Runs
<1>2. TypeOK /\ ModelIsolation /\ [Next]_vars => ModelIsolation'
  BY IsolationStep
<1>. QED  BY <1>1, <1>2, TypeCorrect, PTL DEF Spec

-----------------------------------------------------------------------------
(* A graceful stop leaves nothing behind                                   *)

\* The list of a worker holds the task it is working on and no other.
OwnListOnly ==
  \A w \in Workers :
    ToSet(processing[Key(w)]) \subseteq IF wpc[w] \in {"busy", "ack"} THEN {wtask[w]} ELSE {}

\* No two workers use the same list; shared ids are the finding of the run
\* queue_shared_id.
DistinctLists == \A v, w \in Workers : v # w => Key(v) # Key(w)

\* A worker takes the next task only after LREM has emptied its list.
LEMMA OwnListStep ==
  ASSUME TypeOK, OneCopy, OwnListOnly, [Next]_vars,
         DistinctLists, FaultKinds \cap {"crash", "reply"} = {}
  PROVE  OwnListOnly'
<1>0. /\ wpc = [v \in Workers |-> wpc[v]]
      /\ wtask = [v \in Workers |-> wtask[v]]
      /\ \A v \in Workers : Key(v) \in Keys
  BY ConstantsOK DEF TypeOK, ConstantsOK, Key, Keys
<1> USE DEF workerVars
<1>1. ASSUME NEW w \in Workers, Dequeue(w)
      PROVE  OwnListOnly'
  <2>1. /\ ToSet(processing[Key(w)]) = {}
        /\ wpc'[w] = "busy" /\ wtask'[w] = Last(queue[ModelOf[w]])
        /\ \A v \in Workers \ {w} : wpc'[v] = wpc[v] /\ wtask'[v] = wtask[v]
    BY <1>0, <1>1 DEF Dequeue, OwnListOnly
  <2>2. MoveToProcessing(ModelOf[w], Key(w)) /\ ModelOf[w] \in Models
    BY <1>1, ConstantsOK DEF Dequeue, ConstantsOK
  <2>3. /\ ToSet(processing'[Key(w)]) =
             ToSet(processing[Key(w)]) \cup {Last(queue[ModelOf[w]])}
        /\ \A l \in Keys : l # Key(w) => processing'[l] = processing[l]
    BY <1>0, <2>2, MoveEffect
  <2>4. ASSUME NEW v \in Workers, v # w
        PROVE  processing'[Key(v)] = processing[Key(v)]
    BY <1>0, <2>3, <2>4 DEF DistinctLists
  <2>. QED  BY <2>1, <2>3, <2>4 DEF OwnListOnly
<1>2. ASSUME NEW w \in Workers, Ack(w)
      PROVE  OwnListOnly'
  <2>1. PICK t \in Tasks : t = wtask[w]
    BY <1>2 DEF Ack, TypeOK
  <2>2. /\ t \notin ToSet(processing'[Key(w)])
        /\ \A l \in Keys : l # Key(w) => processing'[l] = processing[l]
    BY <1>0, <1>2, <2>1, AckEffect DEF Ack
  <2>3. ToSet(processing'[Key(w)]) \subseteq ToSet(processing[Key(w)])
    <3>1. processing[Key(w)] \in Seq(Tasks)
      BY <1>0 DEF TypeOK
    <3>2. processing'[Key(w)] = RemoveFirst(processing[Key(w)], t)
      BY <1>0, <1>2, <2>1 DEF Ack, TypeOK
    <3>. QED  BY <3>1, <3>2, RemLemma
  <2>4. ToSet(processing'[Key(w)]) = {}
    BY <1>2, <2>1, <2>2, <2>3 DEF Ack, OwnListOnly
  <2>5. ASSUME NEW v \in Workers, v # w
        PROVE  /\ processing'[Key(v)] = processing[Key(v)]
               /\ wpc'[v] = wpc[v] /\ wtask'[v] = wtask[v]
    BY <1>0, <1>2, <2>2, <2>5 DEF Ack, DistinctLists
  <2>. QED  BY <2>4, <2>5 DEF OwnListOnly
<1>3. ASSUME \A k \in Keys : ToSet(processing'[k]) \subseteq ToSet(processing[k]),
             \A v \in Workers : wpc[v] \in {"busy", "ack"} =>
                                 wpc'[v] \in {"busy", "ack"} /\ wtask'[v] = wtask[v]
      PROVE  OwnListOnly'
  BY <1>0, <1>3 DEF OwnListOnly
<1>4. CASE \A w \in Workers : ~ Dequeue(w) /\ ~ Ack(w)
  <2>1. ASSUME NEW kind \in {"crash", "reply"}
        PROVE  ~ Fault(kind)
    BY DEF Fault
  <2>2. ASSUME NEW w \in Workers
        PROVE  ~ DequeueReplyLost(w) /\ ~ AckFails(w) /\ ~ Crash(w)
    BY <2>1 DEF DequeueReplyLost, AckFails, Crash
  <2>3. \A k \in Keys : ToSet(processing'[k]) \subseteq ToSet(processing[k])
    BY <1>4, <2>2, ProcessingSets
  <2>4. ASSUME NEW v \in Workers, wpc[v] \in {"busy", "ack"}
        PROVE  wpc'[v] \in {"busy", "ack"} /\ wtask'[v] = wtask[v]
    <3>1. CASE UNCHANGED vars
      BY <2>4, <3>1 DEF vars
    <3>2. ASSUME NEW t \in Tasks, GatewayStep(t) \/ EnqueueFails(t)
          PROVE  UNCHANGED <<wpc, wtask>>
      BY <3>2 DEF GatewayStep, CheckDepth, Enqueue, EnqueueFails
    <3>3. ASSUME NEW w \in Workers, WorkerStep(w) \/ WorkerFault(w)
          PROVE  wpc'[v] \in {"busy", "ack"} /\ wtask'[v] = wtask[v]
      BY <1>0, <1>4, <2>2, <2>4, <3>3 DEF WorkerStep, WorkerFault, PollOrExit,
         PollTimeout, Execute, StopSignal, Restart
    <3>4. ASSUME NEW w \in Workers, Heartbeat(w)
          PROVE  UNCHANGED <<wpc, wtask>>
      BY <3>4 DEF Heartbeat
    <3>5. ASSUME NEW id \in Ids, Expire(id) \/ Lapse(id)
          PROVE  UNCHANGED <<wpc, wtask>>
      BY <3>5 DEF Expire, Lapse
    <3>6. ASSUME NEW r \in Reapers, ReaperStep(r) \/ ReapFails(r)
          PROVE  UNCHANGED <<wpc, wtask>>
      BY <3>6 DEF ReaperStep, Scan, SkipKey, FindAlive, FindDead, Requeue, DeleteKey, ReapFails
    <3>. QED  BY <2>4, <3>1, <3>2, <3>3, <3>4, <3>5, <3>6 DEF Next
  <2>. QED  BY <1>3, <2>3, <2>4
<1>. QED  BY <1>1, <1>2, <1>4

\* A worker that left its loop on SIGTERM or SIGINT leaves no task in its list,
\* whatever reapers, restarts and lapsed heartbeats do meanwhile, if workers have
\* lists of their own and neither a process nor a command fails.
THEOREM StopLeavesNothing ==
  ASSUME DistinctLists, FaultKinds \cap {"crash", "reply"} = {}
  PROVE  Spec => []GracefulStopDrains
<1>1. Init => OwnListOnly
  <2>1. ToSet(<<>>) = {}
    BY DEF ToSet
  <2>. QED  BY <2>1, ConstantsOK DEF Init, OwnListOnly, Key, Keys, ConstantsOK
<1>2. TypeOK /\ OneCopy /\ OwnListOnly /\ [Next]_vars => OwnListOnly'
  BY OwnListStep
<1>3. TypeOK /\ OwnListOnly => GracefulStopDrains
  <2> SUFFICES ASSUME TypeOK, OwnListOnly, NEW w \in Workers, wpc[w] = "down"
               PROVE  processing[Key(w)] = <<>>
    BY DEF GracefulStopDrains
  <2>1. ToSet(processing[Key(w)]) = {}
    BY DEF OwnListOnly
  <2>2. processing[Key(w)] \in Seq(Tasks)
    BY ConstantsOK DEF TypeOK, ConstantsOK, Key, Keys
  <2>. QED  BY <2>1, <2>2, EmptySets
<1>. QED  BY <1>1, <1>2, <1>3, TypeCorrect, NoDuplicates, PTL DEF Spec

-----------------------------------------------------------------------------
(* How far a queue overshoots its limit                                    *)

\* Tasks that clients put in queue:<m>.
Waiting(m) == ToSet(queue[m]) \ requeued

\* Tasks whose call has found room there and has not pushed them yet.
Coming(m) == {t \in Admitted : TaskModel[t] = m}

\* No more calls than MaxHandlers are between LLEN and LPUSH.
HandlersBound == IsFiniteSet(Admitted) /\ Cardinality(Admitted) <= MaxHandlers

\* Both sets are finite, so that their sizes can be compared.
LEMMA BoundSets ==
  ASSUME TypeOK, HandlersBound, NEW m \in Models
  PROVE  /\ IsFiniteSet(Waiting(m)) /\ Cardinality(Waiting(m)) \in Nat
         /\ Cardinality(Waiting(m)) <= Len(queue[m])
         /\ IsFiniteSet(Coming(m)) /\ Cardinality(Coming(m)) \in Nat
         /\ Cardinality(Coming(m)) <= Cardinality(Admitted)
         /\ Cardinality(Admitted) \in Nat
         /\ Len(queue[m]) \in Nat
<1>1. queue[m] \in Seq(Tasks)
  BY DEF TypeOK
<1>2. /\ IsFiniteSet(ToSet(queue[m]))
      /\ Cardinality(ToSet(queue[m])) \in Nat
      /\ Cardinality(ToSet(queue[m])) <= Len(queue[m])
  BY <1>1, ListSize
<1>3. Waiting(m) \in SUBSET ToSet(queue[m]) /\ Coming(m) \in SUBSET Admitted
  BY DEF Waiting, Coming
<1>4. /\ IsFiniteSet(Waiting(m))
      /\ Cardinality(Waiting(m)) <= Cardinality(ToSet(queue[m]))
  BY <1>2, <1>3, FS_Subset
<1>5. IsFiniteSet(Admitted)
  BY DEF HandlersBound
<1>6. IsFiniteSet(Coming(m)) /\ Cardinality(Coming(m)) <= Cardinality(Admitted)
  BY <1>3, <1>5, FS_Subset
<1>7. /\ Cardinality(Waiting(m)) \in Nat
      /\ Cardinality(Coming(m)) \in Nat
      /\ Cardinality(Admitted) \in Nat
  BY <1>4, <1>5, <1>6, FS_CardinalityType
<1>8. Len(queue[m]) \in Nat
  BY <1>1
<1>. QED  BY <1>2, <1>4, <1>6, <1>7, <1>8

\* Sets that only shrink keep the bound.
LEMMA BoundShrinks ==
  ASSUME TypeOK, HandlersBound, QueueBound,
         Admitted' \subseteq Admitted,
         \A m \in Models : Waiting(m)' \subseteq Waiting(m)
  PROVE  HandlersBound' /\ QueueBound'
<1>1. MaxHandlers \in Nat /\ MaxQueueDepth \in Nat
  BY ConstantsOK DEF ConstantsOK
<1>2. IsFiniteSet(Admitted) /\ Admitted' \in SUBSET Admitted
  BY DEF HandlersBound
<1>3. IsFiniteSet(Admitted') /\ Cardinality(Admitted') <= Cardinality(Admitted)
  BY <1>2, FS_Subset
<1>4. Cardinality(Admitted) \in Nat /\ Cardinality(Admitted') \in Nat
  BY <1>2, <1>3, FS_CardinalityType
<1>5. HandlersBound'
  BY <1>1, <1>3, <1>4 DEF HandlersBound
<1>6. ASSUME NEW m \in Models
      PROVE  Cardinality(Waiting(m)') + Cardinality(Coming(m)')
               <= MaxQueueDepth - 1 + MaxHandlers
  <2>1. /\ IsFiniteSet(Waiting(m)) /\ Cardinality(Waiting(m)) \in Nat
        /\ IsFiniteSet(Coming(m)) /\ Cardinality(Coming(m)) \in Nat
    BY BoundSets
  <2>2. Waiting(m)' \in SUBSET Waiting(m) /\ Coming(m)' \in SUBSET Coming(m)
    BY DEF Coming
  <2>3. IsFiniteSet(Waiting(m)') /\ Cardinality(Waiting(m)') <= Cardinality(Waiting(m))
    BY <2>1, <2>2, FS_Subset
  <2>4. IsFiniteSet(Coming(m)') /\ Cardinality(Coming(m)') <= Cardinality(Coming(m))
    BY <2>1, <2>2, FS_Subset
  <2>5. Cardinality(Waiting(m)') \in Nat /\ Cardinality(Coming(m)') \in Nat
    BY <2>3, <2>4, FS_CardinalityType
  <2>6. Cardinality(Waiting(m)) + Cardinality(Coming(m)) <= MaxQueueDepth - 1 + MaxHandlers
    BY DEF QueueBound, Waiting, Coming
  <2>. QED  BY <1>1, <2>1, <2>3, <2>4, <2>5, <2>6
<1>7. QueueBound'
  BY <1>6 DEF QueueBound, Waiting, Coming
<1>. QED  BY <1>5, <1>7

\* LPUSH turns a task that was coming into one that waits.
LEMMA BoundPush ==
  ASSUME TypeOK, HandlersBound, QueueBound,
         NEW t \in Tasks, t \in Admitted, Admitted' = Admitted \ {t},
         \A m \in Models :
           Waiting(m)' \subseteq Waiting(m) \cup IF m = TaskModel[t] THEN {t} ELSE {}
  PROVE  HandlersBound' /\ QueueBound'
<1>1. MaxHandlers \in Nat /\ MaxQueueDepth \in Nat
  BY ConstantsOK DEF ConstantsOK
<1>2. IsFiniteSet(Admitted) /\ Admitted' \in SUBSET Admitted
  BY DEF HandlersBound
<1>3. IsFiniteSet(Admitted') /\ Cardinality(Admitted') <= Cardinality(Admitted)
  BY <1>2, FS_Subset
<1>4. Cardinality(Admitted) \in Nat /\ Cardinality(Admitted') \in Nat
  BY <1>2, <1>3, FS_CardinalityType
<1>5. HandlersBound'
  BY <1>1, <1>3, <1>4 DEF HandlersBound
<1>6. ASSUME NEW m \in Models
      PROVE  Cardinality(Waiting(m)') + Cardinality(Coming(m)')
               <= MaxQueueDepth - 1 + MaxHandlers
  <2>1. /\ IsFiniteSet(Waiting(m)) /\ Cardinality(Waiting(m)) \in Nat
        /\ IsFiniteSet(Coming(m)) /\ Cardinality(Coming(m)) \in Nat
    BY BoundSets
  <2>2. Cardinality(Waiting(m)) + Cardinality(Coming(m)) <= MaxQueueDepth - 1 + MaxHandlers
    BY DEF QueueBound, Waiting, Coming
  <2>3. CASE m = TaskModel[t]
    <3>1. /\ Waiting(m)' \in SUBSET (Waiting(m) \cup {t})
          /\ Coming(m)' = Coming(m) \ {t}
          /\ t \in Coming(m)
      BY <2>3 DEF Coming
    <3>2. /\ IsFiniteSet(Waiting(m) \cup {t})
          /\ Cardinality(Waiting(m) \cup {t}) =
               IF t \in Waiting(m) THEN Cardinality(Waiting(m))
                                 ELSE Cardinality(Waiting(m)) + 1
      BY <2>1, FS_AddElement
    <3>3. /\ IsFiniteSet(Waiting(m)')
          /\ Cardinality(Waiting(m)') <= Cardinality(Waiting(m) \cup {t})
      BY <3>1, <3>2, FS_Subset
    <3>4. /\ IsFiniteSet(Coming(m) \ {t})
          /\ Cardinality(Coming(m) \ {t}) =
               IF t \in Coming(m) THEN Cardinality(Coming(m)) - 1 ELSE Cardinality(Coming(m))
      BY <2>1, FS_RemoveElement
    <3>5. /\ Cardinality(Waiting(m)') \in Nat
          /\ Cardinality(Waiting(m)') <= Cardinality(Waiting(m)) + 1
      BY <2>1, <3>2, <3>3, FS_CardinalityType
    <3>6. Cardinality(Coming(m)') = Cardinality(Coming(m)) - 1
      BY <3>1, <3>4
    <3>. QED  BY <1>1, <2>1, <2>2, <3>5, <3>6
  <2>4. CASE m # TaskModel[t]
    <3>1. /\ Waiting(m)' \in SUBSET Waiting(m)
          /\ Coming(m)' = Coming(m)
      BY <2>4 DEF Coming
    <3>2. IsFiniteSet(Waiting(m)') /\ Cardinality(Waiting(m)') <= Cardinality(Waiting(m))
      BY <2>1, <3>1, FS_Subset
    <3>3. Cardinality(Waiting(m)') \in Nat
      BY <3>2, FS_CardinalityType
    <3>. QED  BY <1>1, <2>1, <2>2, <3>1, <3>2, <3>3
  <2>. QED  BY <2>3, <2>4
<1>7. QueueBound'
  BY <1>6 DEF QueueBound, Waiting, Coming
<1>. QED  BY <1>5, <1>7

\* LLEN lets a task in only while the queue is shorter than the limit and a
\* handler is free.
LEMMA BoundAdmit ==
  ASSUME TypeOK, HandlersBound, QueueBound, NEW t \in Tasks, CheckDepth(t)
  PROVE  HandlersBound' /\ QueueBound'
<1>0. /\ MaxHandlers \in Nat /\ MaxQueueDepth \in Nat \ {0}
      /\ TaskModel[t] \in Models
  BY ConstantsOK DEF ConstantsOK
<1>1. /\ request = [u \in Tasks |-> request[u]]
      /\ request[t] = "new"
      /\ Cardinality(Admitted) < MaxHandlers
      /\ queue' = queue /\ requeued' = requeued
  BY DEF CheckDepth, TypeOK, brokerVars, historyVars
<1>2. \A m \in Models : Waiting(m)' = Waiting(m)
  BY <1>1 DEF Waiting
<1>3. CASE Len(queue[TaskModel[t]]) >= MaxQueueDepth
  <2>1. request' = [request EXCEPT ![t] = "rejected"]
    BY <1>3 DEF CheckDepth
  <2>2. Admitted' = Admitted
    BY <1>1, <2>1 DEF Admitted
  <2>. QED  BY <1>2, <2>2, BoundShrinks
<1>4. CASE ~ (Len(queue[TaskModel[t]]) >= MaxQueueDepth)
  <2>1. request' = [request EXCEPT ![t] = "admitted"]
    BY <1>4 DEF CheckDepth
  <2>2. Admitted' = Admitted \cup {t} /\ t \notin Admitted
    BY <1>1, <2>1 DEF Admitted
  <2>3. /\ IsFiniteSet(Admitted \cup {t})
        /\ Cardinality(Admitted \cup {t}) =
             IF t \in Admitted THEN Cardinality(Admitted) ELSE Cardinality(Admitted) + 1
    BY FS_AddElement DEF HandlersBound
  <2>4. Cardinality(Admitted) \in Nat
    BY FS_CardinalityType DEF HandlersBound
  <2>5. HandlersBound'
    BY <1>0, <1>1, <2>2, <2>3, <2>4 DEF HandlersBound
  <2>6. ASSUME NEW m \in Models
        PROVE  Cardinality(Waiting(m)') + Cardinality(Coming(m)')
                 <= MaxQueueDepth - 1 + MaxHandlers
    <3>1. /\ Cardinality(Waiting(m)) \in Nat /\ Cardinality(Waiting(m)) <= Len(queue[m])
          /\ Cardinality(Coming(m)) \in Nat /\ Len(queue[m]) \in Nat
      BY BoundSets
    <3>2. Waiting(m)' = Waiting(m)
      BY <1>2
    <3>3. CASE m = TaskModel[t]
      <4>1. Cardinality(Waiting(m)) <= MaxQueueDepth - 1
        BY <1>0, <1>4, <3>1, <3>3
      <4>2. IsFiniteSet(Admitted') /\ Coming(m)' \in SUBSET Admitted'
        BY <2>5 DEF HandlersBound, Coming
      <4>3. IsFiniteSet(Coming(m)') /\ Cardinality(Coming(m)') <= Cardinality(Admitted')
        BY <4>2, FS_Subset
      <4>4. Cardinality(Coming(m)') \in Nat /\ Cardinality(Admitted') \in Nat
        BY <4>2, <4>3, FS_CardinalityType
      <4>5. Cardinality(Coming(m)') <= MaxHandlers
        BY <1>0, <2>5, <4>3, <4>4 DEF HandlersBound
      <4>. QED  BY <1>0, <3>1, <3>2, <4>1, <4>4, <4>5
    <3>4. CASE m # TaskModel[t]
      <4>1. Coming(m)' = Coming(m)
        BY <2>2, <3>4 DEF Coming
      <4>. QED  BY <3>2, <4>1 DEF QueueBound, Waiting, Coming
    <3>. QED  BY <3>3, <3>4
  <2>7. QueueBound'
    BY <2>6 DEF QueueBound, Waiting, Coming
  <2>. QED  BY <2>5, <2>7
<1>. QED  BY <1>3, <1>4

\* LPUSH, also the one whose reply is lost, or a command that failed before.
LEMMA BoundEnqueue ==
  ASSUME TypeOK, HandlersBound, QueueBound,
         NEW t \in Tasks, Enqueue(t) \/ EnqueueFails(t)
  PROVE  HandlersBound' /\ QueueBound'
<1>0. /\ request = [u \in Tasks |-> request[u]]
      /\ queue \in [Models -> Seq(Tasks)]
      /\ TaskModel[t] \in Models
      /\ requeued' = requeued
  BY ConstantsOK DEF ConstantsOK, TypeOK, Enqueue, EnqueueFails, historyVars
<1>1. CASE /\ request[t] = "admitted"
           /\ request' = [request EXCEPT ![t] = "accepted"]
              \/ request' = [request EXCEPT ![t] = "unknown"]
           /\ queue' = [queue EXCEPT ![TaskModel[t]] = Cons(t, @)]
  <2>1. t \in Admitted /\ Admitted' = Admitted \ {t}
    BY <1>0, <1>1 DEF Admitted
  <2>2. ToSet(Cons(t, queue[TaskModel[t]])) = ToSet(queue[TaskModel[t]]) \cup {t}
    BY <1>0, PushLemma
  <2>3. \A m \in Models :
          Waiting(m)' \subseteq Waiting(m) \cup IF m = TaskModel[t] THEN {t} ELSE {}
    BY <1>0, <1>1, <2>2 DEF Waiting
  <2>. QED  BY <2>1, <2>3, BoundPush
<1>2. CASE request' = [request EXCEPT ![t] = "failed"] /\ UNCHANGED queue
  <2>1. Admitted' \subseteq Admitted
    BY <1>0, <1>2 DEF Admitted
  <2>2. \A m \in Models : Waiting(m)' \subseteq Waiting(m)
    BY <1>0, <1>2 DEF Waiting
  <2>. QED  BY <2>1, <2>2, BoundShrinks
<1>. QED  BY <1>1, <1>2 DEF Enqueue, EnqueueFails

\* Nothing else lets clients' tasks in: what a reaper puts back counts as
\* requeued from then on.
LEMMA BoundOthers ==
  ASSUME TypeOK, [Next]_vars,
         \A t \in Tasks : ~ CheckDepth(t) /\ ~ Enqueue(t) /\ ~ EnqueueFails(t)
  PROVE  /\ Admitted' = Admitted
         /\ \A m \in Models : Waiting(m)' \subseteq Waiting(m)
<1>1. request' = request /\ requeued \subseteq requeued'
  <2> USE DEF gatewayVars, historyVars
  <2>1. CASE UNCHANGED vars
    BY <2>1 DEF vars
  <2>2. ASSUME NEW w \in Workers, WorkerStep(w) \/ WorkerFault(w) \/ Heartbeat(w)
        PROVE  request' = request /\ requeued' = requeued
    BY <2>2 DEF WorkerStep, WorkerFault, PollOrExit, PollTimeout, Dequeue, Execute, Ack,
       DequeueReplyLost, AckFails, StopSignal, Crash, Restart, Heartbeat
  <2>3. ASSUME NEW id \in Ids, Expire(id) \/ Lapse(id)
        PROVE  request' = request /\ requeued' = requeued
    BY <2>3 DEF Expire, Lapse
  <2>4. ASSUME NEW r \in Reapers, ReaperStep(r) \/ ReapFails(r)
        PROVE  request' = request /\ requeued \subseteq requeued'
    BY <2>4 DEF ReaperStep, Scan, SkipKey, FindAlive, FindDead, Requeue, DeleteKey, ReapFails
  <2>. QED  BY <2>1, <2>2, <2>3, <2>4 DEF Next, GatewayStep
<1>2. Admitted' = Admitted
  BY <1>1 DEF Admitted
<1>3. CASE \A m \in Models : ToSet(queue'[m]) \subseteq ToSet(queue[m])
  BY <1>1, <1>2, <1>3 DEF Waiting
<1>4. CASE \E t \in requeued' : \A m \in Models :
             ToSet(queue'[m]) \subseteq ToSet(queue[m]) \cup {t}
  BY <1>1, <1>2, <1>4 DEF Waiting
<1>5. \/ \A m \in Models : ToSet(queue'[m]) \subseteq ToSet(queue[m])
      \/ \E t \in requeued' : \A m \in Models :
           ToSet(queue'[m]) \subseteq ToSet(queue[m]) \cup {t}
  BY QueueSets
<1>. QED  BY <1>3, <1>4, <1>5

\* LLEN and LPUSH are two commands, so concurrent calls overshoot the limit, by
\* at most one task per call in flight.
THEOREM LimitOvershootBounded == Spec => []QueueBound
<1>1. Init => HandlersBound /\ QueueBound
  <2> SUFFICES ASSUME Init
               PROVE  HandlersBound /\ QueueBound
    OBVIOUS
  <2>1. MaxHandlers \in Nat /\ MaxQueueDepth \in Nat \ {0}
    BY ConstantsOK DEF ConstantsOK
  <2>2. Admitted = {}
    BY DEF Init, Admitted
  <2>3. ASSUME NEW m \in Models
        PROVE  Waiting(m) = {} /\ Coming(m) = {}
    BY <2>2 DEF Init, Waiting, Coming, ToSet
  <2>4. HandlersBound
    BY <2>1, <2>2, FS_EmptySet DEF HandlersBound
  <2>5. \A m \in Models : Cardinality(Waiting(m)) = 0 /\ Cardinality(Coming(m)) = 0
    BY <2>3, FS_EmptySet
  <2>6. QueueBound
    BY <2>1, <2>5 DEF QueueBound, Waiting, Coming
  <2>. QED  BY <2>4, <2>6
<1>2. TypeOK /\ HandlersBound /\ QueueBound /\ [Next]_vars => HandlersBound' /\ QueueBound'
  BY BoundAdmit, BoundEnqueue, BoundOthers, BoundShrinks
<1>. QED  BY <1>1, <1>2, TypeCorrect, PTL DEF Spec
=============================================================================
