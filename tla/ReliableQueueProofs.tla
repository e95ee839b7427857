------------------------ MODULE ReliableQueueProofs ------------------------
(***************************************************************************)
(* Proofs about ReliableQueue, for any number of tasks, models, workers,   *)
(* reapers, any assignment of worker ids and any number of faults.         *)
(*                                                                         *)
(* The argument.  The Redis commands only hand a task from one list to     *)
(* another (OneCopy; the only source is LPUSH of a task that was in no     *)
(* list, Fresh).  So a worker that takes a task from the queue takes it    *)
(* away from every processing list, and whoever still runs it must have    *)
(* lost it to a reaper (Exclusive).  A reaper touches a list only after it *)
(* saw no heartbeat; from then to its DEL every worker of that id is down, *)
(* or the id goes on record as misjudged (DeadIsDown, EmptyAtDelete).      *)
(* Hence a task leaves a processing list only by the LREM of a worker that *)
(* has executed it (AckIsExecuted), or with an id on record.               *)
(***************************************************************************)
EXTENDS ReliableQueue, ListFacts

-----------------------------------------------------------------------------
(* The inductive invariant                                                 *)

Fresh == \A t \in Tasks : ~ Pushed(t) => ~ InQueue(t) /\ ~ InProcessing(t)

Exclusive ==
  \A v, w \in Workers, t \in Tasks :
    Runs(v, t) /\ Runs(w, t) /\ v # w =>
      IdOf[v] \in misjudged \/ IdOf[w] \in misjudged

DeadIsDown ==
  \A r \in Reapers :
    rpc[r] \in {"drain", "delete"} =>
      target[r][2] \in misjudged \/ ~ Up(target[r][2])

EmptyAtDelete ==
  \A r \in Reapers :
    rpc[r] = "delete" =>
      target[r][2] \in misjudged \/ processing[target[r]] = <<>>

AckIsExecuted == \A w \in Workers : wpc[w] = "ack" => wtask[w] \in executed

IInv ==
  /\ TypeOK
  /\ OneCopy
  /\ Fresh
  /\ RunningIsRecoverable
  /\ Exclusive
  /\ DeadIsDown
  /\ EmptyAtDelete
  /\ AckIsExecuted
  /\ LostOnlyIfMisjudged

-----------------------------------------------------------------------------
(* What the commands do to the lists                                       *)

\* LPUSH of a task that is in no list.
LEMMA PushEffect ==
  ASSUME TypeOK, OneCopy, NEW m \in Models, NEW t \in Tasks,
         ~ InQueue(t), ~ InProcessing(t),
         queue' = [queue EXCEPT ![m] = Cons(t, @)], processing' = processing
  PROVE  /\ queue' \in [Models -> Seq(Tasks)]
         /\ processing' \in [Keys -> Seq(Tasks)]
         /\ OneCopy'
         /\ \A u \in Tasks : InQueue(u)' <=> InQueue(u) \/ u = t
         /\ \A u \in Tasks : InProcessing(u)' <=> InProcessing(u)
         /\ \A k \in Keys : ToSet(processing'[k]) = ToSet(processing[k])
<1>1. /\ queue \in [Models -> Seq(Tasks)]
      /\ processing \in [Keys -> Seq(Tasks)]
  BY DEF TypeOK
<1>2. /\ Cons(t, queue[m]) \in Seq(Tasks)
      /\ ToSet(Cons(t, queue[m])) = ToSet(queue[m]) \cup {t}
      /\ IsInjective(queue[m]) /\ t \notin ToSet(queue[m])
           => IsInjective(Cons(t, queue[m]))
  BY <1>1, PushLemma
<1>3. /\ queue'[m] = Cons(t, queue[m])
      /\ \A n \in Models : n # m => queue'[n] = queue[n]
  BY <1>1
<1>4. OneCopy'
  <2>1. \A n \in Models : IsInjective(queue'[n])
    BY <1>2, <1>3 DEF OneCopy, InQueue
  <2>2. /\ \A k \in Keys : IsInjective(processing'[k])
        /\ \A k1, k2 \in Keys :
             k1 # k2 => ToSet(processing'[k1]) \cap ToSet(processing'[k2]) = {}
    BY DEF OneCopy
  <2>3. \A n \in Models, k \in Keys : ToSet(queue'[n]) \cap ToSet(processing'[k]) = {}
    BY <1>2, <1>3 DEF OneCopy, InProcessing
  <2>4. \A n \in Models : /\ ToSet(queue'[n]) =
                                ToSet(queue[n]) \cup IF n = m THEN {t} ELSE {}
                          /\ t \notin ToSet(queue[n])
    BY <1>2, <1>3 DEF InQueue
  <2>5. \A n1, n2 \in Models :
          n1 # n2 => ToSet(queue'[n1]) \cap ToSet(queue'[n2]) = {}
    BY <2>4 DEF OneCopy
  <2>. QED  BY <2>1, <2>2, <2>3, <2>5 DEF OneCopy
<1>5. \A u \in Tasks : InQueue(u)' <=> InQueue(u) \/ u = t
  BY <1>2, <1>3 DEF InQueue
<1>. QED  BY <1>1, <1>2, <1>4, <1>5 DEF InProcessing

\* BRPOPLPUSH: one task leaves the queue and enters one processing list.
LEMMA MoveEffect ==
  ASSUME TypeOK, OneCopy, NEW m \in Models, NEW k \in Keys, MoveToProcessing(m, k)
  PROVE  /\ queue' \in [Models -> Seq(Tasks)]
         /\ processing' \in [Keys -> Seq(Tasks)]
         /\ Last(queue[m]) \in Tasks
         /\ InQueue(Last(queue[m])) /\ ~ InProcessing(Last(queue[m]))
         /\ OneCopy'
         /\ \A u \in Tasks : InQueue(u)' <=> InQueue(u) /\ u # Last(queue[m])
         /\ \A u \in Tasks : InProcessing(u)' <=> InProcessing(u) \/ u = Last(queue[m])
         /\ ToSet(processing'[k]) = ToSet(processing[k]) \cup {Last(queue[m])}
         /\ \A l \in Keys : l # k => processing'[l] = processing[l]
<1> DEFINE t == Last(queue[m])
<1>1. /\ queue \in [Models -> Seq(Tasks)]
      /\ processing \in [Keys -> Seq(Tasks)]
      /\ queue[m] # <<>>
  BY DEF TypeOK, MoveToProcessing
<1>2. /\ Front(queue[m]) \in Seq(Tasks)
      /\ t \in Tasks
      /\ ToSet(queue[m]) = ToSet(Front(queue[m])) \cup {t}
      /\ IsInjective(queue[m]) =>
           IsInjective(Front(queue[m])) /\ t \notin ToSet(Front(queue[m]))
  BY <1>1, PopLemma
<1>3. /\ queue'[m] = Front(queue[m])
      /\ \A n \in Models : n # m => queue'[n] = queue[n]
      /\ processing'[k] = Cons(t, processing[k])
      /\ \A l \in Keys : l # k => processing'[l] = processing[l]
      /\ queue' = [queue EXCEPT ![m] = Front(@)]
      /\ processing' = [processing EXCEPT ![k] = Cons(t, @)]
  BY <1>1 DEF MoveToProcessing
<1> HIDE DEF t
<1>4. /\ Cons(t, processing[k]) \in Seq(Tasks)
      /\ ToSet(Cons(t, processing[k])) = ToSet(processing[k]) \cup {t}
      /\ IsInjective(processing[k]) /\ t \notin ToSet(processing[k])
           => IsInjective(Cons(t, processing[k]))
  BY <1>1, <1>2, PushLemma
<1>5. /\ \A l \in Keys : t \notin ToSet(processing[l])
      /\ \A n \in Models : n # m => t \notin ToSet(queue[n])
  BY <1>2 DEF OneCopy
<1>6. OneCopy'
  <2>1. \A n \in Models : IsInjective(queue'[n])
    BY <1>2, <1>3 DEF OneCopy
  <2>2. \A l \in Keys : IsInjective(processing'[l])
    BY <1>3, <1>4, <1>5 DEF OneCopy
  <2>3. \A n \in Models : ToSet(queue'[n]) \subseteq ToSet(queue[n]) \ {t}
    BY <1>2, <1>3, <1>5 DEF OneCopy
  <2>4. \A l \in Keys : ToSet(processing'[l]) =
                          ToSet(processing[l]) \cup IF l = k THEN {t} ELSE {}
    BY <1>3, <1>4
  <2>5. \A n \in Models, l \in Keys : ToSet(queue'[n]) \cap ToSet(processing'[l]) = {}
    BY <2>3, <2>4 DEF OneCopy
  <2>6. \A n1, n2 \in Models :
          n1 # n2 => ToSet(queue'[n1]) \cap ToSet(queue'[n2]) = {}
    BY <2>3 DEF OneCopy
  <2>7. \A l1, l2 \in Keys :
          l1 # l2 => ToSet(processing'[l1]) \cap ToSet(processing'[l2]) = {}
    BY <2>4, <1>5 DEF OneCopy
  <2>. QED  BY <2>1, <2>2, <2>5, <2>6, <2>7 DEF OneCopy
<1>7. \A u \in Tasks : InQueue(u)' <=> InQueue(u) /\ u # t
  BY <1>2, <1>3, <1>5 DEF InQueue, OneCopy
<1>8. \A u \in Tasks : InProcessing(u)' <=> InProcessing(u) \/ u = t
  BY <1>3, <1>4 DEF InProcessing
<1>9. InQueue(t) /\ ~ InProcessing(t)
  BY <1>2, <1>5 DEF InQueue, InProcessing
<1>10. /\ queue' \in [Models -> Seq(Tasks)]
       /\ processing' \in [Keys -> Seq(Tasks)]
  BY <1>1, <1>2, <1>3, <1>4
<1>. QED  BY <1>2, <1>3, <1>4, <1>6, <1>7, <1>8, <1>9, <1>10 DEF t

\* RPOPLPUSH of the reaper: one task leaves a processing list and enters the
\* queue.
LEMMA RequeueEffect ==
  ASSUME TypeOK, OneCopy, NEW m \in Models, NEW k \in Keys, processing[k] # <<>>,
         processing' = [processing EXCEPT ![k] = Front(@)],
         queue' = [queue EXCEPT ![m] = Cons(Last(processing[k]), @)]
  PROVE  /\ queue' \in [Models -> Seq(Tasks)]
         /\ processing' \in [Keys -> Seq(Tasks)]
         /\ Last(processing[k]) \in Tasks
         /\ Last(processing[k]) \in ToSet(processing[k])
         /\ OneCopy'
         /\ \A u \in Tasks : InQueue(u)' <=> InQueue(u) \/ u = Last(processing[k])
         /\ \A u \in Tasks : InProcessing(u)' <=> InProcessing(u) /\ u # Last(processing[k])
         /\ \A l \in Keys : l # k => processing'[l] = processing[l]
<1> DEFINE t == Last(processing[k])
<1>1. /\ queue \in [Models -> Seq(Tasks)]
      /\ processing \in [Keys -> Seq(Tasks)]
  BY DEF TypeOK
<1>2. /\ Front(processing[k]) \in Seq(Tasks)
      /\ t \in Tasks
      /\ ToSet(processing[k]) = ToSet(Front(processing[k])) \cup {t}
      /\ IsInjective(processing[k]) =>
           IsInjective(Front(processing[k])) /\ t \notin ToSet(Front(processing[k]))
  BY <1>1, PopLemma
<1>3. /\ processing'[k] = Front(processing[k])
      /\ \A l \in Keys : l # k => processing'[l] = processing[l]
      /\ queue'[m] = Cons(t, queue[m])
      /\ \A n \in Models : n # m => queue'[n] = queue[n]
      /\ processing' = [processing EXCEPT ![k] = Front(@)]
      /\ queue' = [queue EXCEPT ![m] = Cons(t, @)]
  BY <1>1
<1> HIDE DEF t
<1>4. /\ Cons(t, queue[m]) \in Seq(Tasks)
      /\ ToSet(Cons(t, queue[m])) = ToSet(queue[m]) \cup {t}
      /\ IsInjective(queue[m]) /\ t \notin ToSet(queue[m])
           => IsInjective(Cons(t, queue[m]))
  BY <1>1, <1>2, PushLemma
<1>5. /\ \A n \in Models : t \notin ToSet(queue[n])
      /\ \A l \in Keys : l # k => t \notin ToSet(processing[l])
  BY <1>2 DEF OneCopy
<1>6. OneCopy'
  <2>1. \A n \in Models : IsInjective(queue'[n])
    BY <1>3, <1>4, <1>5 DEF OneCopy
  <2>2. \A l \in Keys : IsInjective(processing'[l])
    BY <1>2, <1>3 DEF OneCopy
  <2>3. \A l \in Keys : ToSet(processing'[l]) \subseteq ToSet(processing[l]) \ {t}
    BY <1>2, <1>3, <1>5 DEF OneCopy
  <2>4. \A n \in Models : ToSet(queue'[n]) =
                            ToSet(queue[n]) \cup IF n = m THEN {t} ELSE {}
    BY <1>3, <1>4
  <2>5. \A n \in Models, l \in Keys : ToSet(queue'[n]) \cap ToSet(processing'[l]) = {}
    BY <2>3, <2>4 DEF OneCopy
  <2>6. \A n1, n2 \in Models :
          n1 # n2 => ToSet(queue'[n1]) \cap ToSet(queue'[n2]) = {}
    BY <2>4, <1>5 DEF OneCopy
  <2>7. \A l1, l2 \in Keys :
          l1 # l2 => ToSet(processing'[l1]) \cap ToSet(processing'[l2]) = {}
    BY <2>3 DEF OneCopy
  <2>. QED  BY <2>1, <2>2, <2>5, <2>6, <2>7 DEF OneCopy
<1>7. \A u \in Tasks : InQueue(u)' <=> InQueue(u) \/ u = t
  BY <1>3, <1>4 DEF InQueue
<1>8. \A u \in Tasks : InProcessing(u)' <=> InProcessing(u) /\ u # t
  BY <1>2, <1>3, <1>5 DEF InProcessing, OneCopy
<1>9. t \in ToSet(processing[k])
  BY <1>2
<1>10. /\ queue' \in [Models -> Seq(Tasks)]
       /\ processing' \in [Keys -> Seq(Tasks)]
  BY <1>1, <1>2, <1>3, <1>4
<1>. QED  BY <1>2, <1>3, <1>6, <1>7, <1>8, <1>9, <1>10 DEF t

\* LREM: one task leaves one processing list.
LEMMA AckEffect ==
  ASSUME TypeOK, OneCopy, NEW k \in Keys, NEW t \in Tasks,
         processing' = [processing EXCEPT ![k] = RemoveFirst(@, t)],
         queue' = queue
  PROVE  /\ processing' \in [Keys -> Seq(Tasks)]
         /\ OneCopy'
         /\ \A u \in Tasks : InQueue(u)' <=> InQueue(u)
         /\ \A u \in Tasks : InProcessing(u)' => InProcessing(u)
         /\ \A u \in Tasks : InProcessing(u) /\ u # t => InProcessing(u)'
         /\ \A l \in Keys : ToSet(processing[l]) \ {t} \subseteq ToSet(processing'[l])
         /\ \A l \in Keys : l # k => processing'[l] = processing[l]
         /\ t \notin ToSet(processing'[k])
         /\ processing[k] = <<>> => processing'[k] = <<>>
<1>1. processing \in [Keys -> Seq(Tasks)]
  BY DEF TypeOK
<1>2. /\ RemoveFirst(processing[k], t) \in Seq(Tasks)
      /\ ToSet(RemoveFirst(processing[k], t)) \subseteq ToSet(processing[k])
      /\ ToSet(processing[k]) \ {t} \subseteq ToSet(RemoveFirst(processing[k], t))
      /\ IsInjective(processing[k]) => /\ IsInjective(RemoveFirst(processing[k], t))
                                       /\ t \notin ToSet(RemoveFirst(processing[k], t))
  BY <1>1, RemLemma
<1>3. /\ processing'[k] = RemoveFirst(processing[k], t)
      /\ \A l \in Keys : l # k => processing'[l] = processing[l]
      /\ processing' \in [Keys -> Seq(Tasks)]
  BY <1>1, <1>2
<1>4. /\ \A l \in Keys : ToSet(processing'[l]) \subseteq ToSet(processing[l])
      /\ \A l \in Keys : ToSet(processing[l]) \ {t} \subseteq ToSet(processing'[l])
      /\ \A l \in Keys : IsInjective(processing[l]) => IsInjective(processing'[l])
  BY <1>2, <1>3
<1>5. OneCopy'
  BY <1>4 DEF OneCopy
<1>6. processing[k] = <<>> => RemoveFirst(processing[k], t) = <<>>
  BY DEF RemoveFirst
<1>7. t \notin ToSet(processing'[k])
  BY <1>2, <1>3 DEF OneCopy
<1>. QED  BY <1>3, <1>4, <1>5, <1>6, <1>7 DEF InQueue, InProcessing

\* DEL: one processing list is emptied.
LEMMA DeleteEffect ==
  ASSUME TypeOK, OneCopy, NEW k \in Keys,
         processing' = [processing EXCEPT ![k] = <<>>], queue' = queue
  PROVE  /\ processing' \in [Keys -> Seq(Tasks)]
         /\ OneCopy'
         /\ \A u \in Tasks : InQueue(u)' <=> InQueue(u)
         /\ \A u \in Tasks : InProcessing(u)' => InProcessing(u)
         /\ \A l \in Keys : l # k => processing'[l] = processing[l]
         /\ processing'[k] = <<>>
         /\ processing[k] = <<>> => processing' = processing
<1>1. processing \in [Keys -> Seq(Tasks)]
  BY DEF TypeOK
<1>2. /\ processing'[k] = <<>>
      /\ \A l \in Keys : l # k => processing'[l] = processing[l]
      /\ processing' \in [Keys -> Seq(Tasks)]
  BY <1>1
<1>3. ToSet(<<>>) = {} /\ IsInjective(<<>>)
  BY DEF ToSet, IsInjective
<1>4. /\ \A l \in Keys : ToSet(processing'[l]) \subseteq ToSet(processing[l])
      /\ \A l \in Keys : IsInjective(processing[l]) => IsInjective(processing'[l])
  BY <1>2, <1>3
<1>5. OneCopy'
  BY <1>4 DEF OneCopy
<1>6. processing[k] = <<>> => processing' = processing
  BY <1>1, <1>2
<1>. QED  BY <1>2, <1>4, <1>5, <1>6 DEF InQueue, InProcessing

\* Nothing happens to the lists.
LEMMA SameLists ==
  ASSUME queue' = queue, processing' = processing
  PROVE  /\ OneCopy => OneCopy'
         /\ \A t \in Tasks : InQueue(t)' <=> InQueue(t)
         /\ \A t \in Tasks : InProcessing(t)' <=> InProcessing(t)
BY DEF OneCopy, InQueue, InProcessing

\* A step that leaves the lists alone and starts no task.
LEMMA QuietStep ==
  ASSUME IInv, queue' = queue, processing' = processing,
         executed \subseteq executed', misjudged \subseteq misjudged',
         \A u \in Tasks : Pushed(u)' <=> Pushed(u),
         \A w \in Workers, u \in Tasks : Runs(w, u)' => Runs(w, u),
         TypeOK', DeadIsDown', EmptyAtDelete', AckIsExecuted'
  PROVE  IInv'
<1>1. /\ OneCopy'
      /\ \A u \in Tasks : InQueue(u)' <=> InQueue(u)
      /\ \A u \in Tasks : InProcessing(u)' <=> InProcessing(u)
  BY SameLists DEF IInv
<1>2. Fresh' /\ LostOnlyIfMisjudged'
  BY <1>1 DEF IInv, Fresh, LostOnlyIfMisjudged
<1>3. RunningIsRecoverable' /\ Exclusive'
  BY DEF IInv, RunningIsRecoverable, Exclusive
<1>. QED  BY <1>1, <1>2, <1>3 DEF IInv

-----------------------------------------------------------------------------
(* Gateway                                                                 *)

\* LLEN and the decision on it touch no list.
LEMMA CheckDepthInv ==
  ASSUME IInv, NEW t \in Tasks, CheckDepth(t)
  PROVE  IInv'
<1> USE DEF IInv, CheckDepth, brokerVars, workerVars, reaperVars, historyVars
<1>1. TypeOK'
  BY DEF TypeOK
<1>2. \A u \in Tasks : Pushed(u)' <=> Pushed(u)
  BY DEF TypeOK, Pushed
<1>3. \A w \in Workers, u \in Tasks : Runs(w, u)' <=> Runs(w, u)
  BY DEF Runs
<1>4. DeadIsDown' /\ EmptyAtDelete' /\ AckIsExecuted'
  BY DEF DeadIsDown, Up, EmptyAtDelete, AckIsExecuted
<1>. QED  BY <1>1, <1>2, <1>3, <1>4, QuietStep

\* LPUSH adds a task that was in no list.
LEMMA EnqueueInv ==
  ASSUME IInv, NEW t \in Tasks, Enqueue(t)
  PROVE  IInv'
<1>1. /\ TaskModel[t] \in Models
      /\ ~ InQueue(t) /\ ~ InProcessing(t)
  BY ConstantsOK DEF IInv, Fresh, Pushed, Enqueue, ConstantsOK
<1>2. /\ queue' \in [Models -> Seq(Tasks)]
      /\ OneCopy'
      /\ \A u \in Tasks : InQueue(u)' <=> InQueue(u) \/ u = t
      /\ \A u \in Tasks : InProcessing(u)' <=> InProcessing(u)
  BY <1>1, PushEffect DEF IInv, Enqueue
<1>3. TypeOK'
  BY <1>2 DEF IInv, TypeOK, Enqueue, workerVars, reaperVars, historyVars
<1>4. Fresh' /\ LostOnlyIfMisjudged'
  <2>1. /\ UNCHANGED <<executed, misjudged>>
        /\ \A u \in Tasks : Pushed(u)' <=> Pushed(u) \/ u = t
    BY DEF Enqueue, historyVars, Pushed, IInv, TypeOK
  <2>. QED  BY <1>2, <2>1 DEF IInv, Fresh, LostOnlyIfMisjudged
<1>5. RunningIsRecoverable' /\ Exclusive' /\ DeadIsDown' /\ EmptyAtDelete' /\ AckIsExecuted'
  BY DEF Enqueue, workerVars, reaperVars, historyVars,
     IInv, RunningIsRecoverable, Exclusive, DeadIsDown, EmptyAtDelete, AckIsExecuted,
     Runs, Up
<1>. QED  BY <1>2, <1>3, <1>4, <1>5 DEF IInv

\* An enqueue that raises either pushes as Enqueue does or does nothing.
LEMMA EnqueueFailsInv ==
  ASSUME IInv, NEW t \in Tasks, EnqueueFails(t)
  PROVE  IInv'
<1>1. CASE request[t] \in {"new", "admitted"} /\ UNCHANGED queue
           /\ request' = [request EXCEPT ![t] = "failed"]
  <2> USE <1>1 DEF IInv, EnqueueFails, Fault, workerVars, reaperVars, historyVars
  <2>1. TypeOK'
    BY ConstantsOK DEF TypeOK, ConstantsOK
  <2>2. \A u \in Tasks : Pushed(u)' <=> Pushed(u)
    BY DEF TypeOK, Pushed
  <2>3. \A w \in Workers, u \in Tasks : Runs(w, u)' <=> Runs(w, u)
    BY DEF Runs
  <2>4. DeadIsDown' /\ EmptyAtDelete' /\ AckIsExecuted'
    BY DEF DeadIsDown, Up, EmptyAtDelete, AckIsExecuted
  <2>. QED  BY <2>1, <2>2, <2>3, <2>4, QuietStep
<1>2. CASE request[t] = "admitted"
           /\ request' = [request EXCEPT ![t] = "unknown"]
           /\ queue' = [queue EXCEPT ![TaskModel[t]] = Cons(t, @)]
  <2> USE <1>2
  <2>1. /\ TaskModel[t] \in Models
        /\ ~ InQueue(t) /\ ~ InProcessing(t)
    BY ConstantsOK DEF IInv, Fresh, Pushed, ConstantsOK
  <2>2. /\ queue' \in [Models -> Seq(Tasks)]
        /\ OneCopy'
        /\ \A u \in Tasks : InQueue(u)' <=> InQueue(u) \/ u = t
        /\ \A u \in Tasks : InProcessing(u)' <=> InProcessing(u)
    BY <2>1, PushEffect DEF IInv, EnqueueFails
  <2>3. TypeOK'
    BY <2>2, ConstantsOK
    DEF IInv, TypeOK, EnqueueFails, Fault, workerVars, reaperVars, historyVars, ConstantsOK
  <2>4. Fresh' /\ LostOnlyIfMisjudged'
    <3>1. /\ UNCHANGED <<executed, misjudged>>
          /\ \A u \in Tasks : Pushed(u)' <=> Pushed(u) \/ u = t
      BY DEF EnqueueFails, historyVars, Pushed, IInv, TypeOK
    <3>. QED  BY <2>2, <3>1 DEF IInv, Fresh, LostOnlyIfMisjudged
  <2>5. RunningIsRecoverable' /\ Exclusive' /\ DeadIsDown' /\ EmptyAtDelete'
        /\ AckIsExecuted'
    BY DEF EnqueueFails, workerVars, reaperVars, historyVars,
       IInv, RunningIsRecoverable, Exclusive, DeadIsDown, EmptyAtDelete, AckIsExecuted,
       Runs, Up
  <2>. QED  BY <2>2, <2>3, <2>4, <2>5 DEF IInv
<1>. QED  BY <1>1, <1>2 DEF EnqueueFails

-----------------------------------------------------------------------------
(* Worker                                                                  *)

\* A worker at the head of its loop runs no task.
LEMMA PollOrExitInv ==
  ASSUME IInv, NEW w \in Workers, PollOrExit(w)
  PROVE  IInv'
<1> USE DEF IInv, PollOrExit, brokerVars, gatewayVars, reaperVars, historyVars
<1>1. TypeOK'
  BY DEF TypeOK
<1>2. \A u \in Tasks : Pushed(u)' <=> Pushed(u)
  BY DEF Pushed
<1>3. \A v \in Workers, u \in Tasks : Runs(v, u)' => Runs(v, u)
  BY DEF TypeOK, Runs
<1>4. DeadIsDown'
  BY DEF TypeOK, DeadIsDown, Up
<1>5. EmptyAtDelete'
  BY DEF TypeOK, EmptyAtDelete
<1>6. AckIsExecuted'
  BY DEF TypeOK, AckIsExecuted
<1>. QED  BY <1>1, <1>2, <1>3, <1>4, <1>5, <1>6, QuietStep

\* A poll that times out changes the worker's place only.
LEMMA PollTimeoutInv ==
  ASSUME IInv, NEW w \in Workers, PollTimeout(w)
  PROVE  IInv'
<1> USE DEF IInv, PollTimeout, brokerVars, gatewayVars, reaperVars, historyVars
<1>1. TypeOK'
  BY DEF TypeOK
<1>2. \A u \in Tasks : Pushed(u)' <=> Pushed(u)
  BY DEF Pushed
<1>3. \A v \in Workers, u \in Tasks : Runs(v, u)' => Runs(v, u)
  BY DEF TypeOK, Runs
<1>4. DeadIsDown'
  BY DEF TypeOK, DeadIsDown, Up
<1>5. EmptyAtDelete'
  BY DEF TypeOK, EmptyAtDelete
<1>6. AckIsExecuted'
  BY DEF TypeOK, AckIsExecuted
<1>. QED  BY <1>1, <1>2, <1>3, <1>4, <1>5, <1>6, QuietStep

\* Running a task changes no list and adds it to those executed.
LEMMA ExecuteInv ==
  ASSUME IInv, NEW w \in Workers, Execute(w)
  PROVE  IInv'
<1> USE DEF IInv, Execute, brokerVars, gatewayVars, reaperVars, historyVars
<1>1. TypeOK'
  BY DEF TypeOK
<1>2. \A u \in Tasks : Pushed(u)' <=> Pushed(u)
  BY DEF Pushed
<1>3. \A v \in Workers, u \in Tasks : Runs(v, u)' => Runs(v, u)
  BY DEF TypeOK, Runs
<1>4. DeadIsDown'
  BY DEF TypeOK, DeadIsDown, Up
<1>5. EmptyAtDelete'
  BY DEF TypeOK, EmptyAtDelete
<1>6. AckIsExecuted'
  BY DEF TypeOK, AckIsExecuted
<1>. QED  BY <1>1, <1>2, <1>3, <1>4, <1>5, <1>6, QuietStep

\* Without its LREM a task stays in the list, and it was executed.
LEMMA AckFailsInv ==
  ASSUME IInv, NEW w \in Workers, AckFails(w)
  PROVE  IInv'
<1> USE DEF IInv, AckFails, brokerVars, gatewayVars, reaperVars, historyVars, Fault
<1>1. TypeOK'
  BY ConstantsOK DEF TypeOK, ConstantsOK
<1>2. \A u \in Tasks : Pushed(u)' <=> Pushed(u)
  BY DEF Pushed
<1>3. \A v \in Workers, u \in Tasks : Runs(v, u)' => Runs(v, u)
  BY DEF TypeOK, Runs
<1>4. DeadIsDown'
  BY DEF TypeOK, DeadIsDown, Up
<1>5. EmptyAtDelete'
  BY DEF TypeOK, EmptyAtDelete
<1>6. AckIsExecuted'
  BY DEF TypeOK, AckIsExecuted
<1>. QED  BY <1>1, <1>2, <1>3, <1>4, <1>5, <1>6, QuietStep

\* The signal sets a flag and nothing else.
LEMMA StopSignalInv ==
  ASSUME IInv, NEW w \in Workers, StopSignal(w)
  PROVE  IInv'
<1> USE DEF IInv, StopSignal, brokerVars, gatewayVars, reaperVars, historyVars, Fault
<1>1. TypeOK'
  BY ConstantsOK DEF TypeOK, ConstantsOK
<1>2. \A u \in Tasks : Pushed(u)' <=> Pushed(u)
  BY DEF Pushed
<1>3. \A v \in Workers, u \in Tasks : Runs(v, u)' => Runs(v, u)
  BY DEF TypeOK, Runs
<1>4. DeadIsDown'
  BY DEF TypeOK, DeadIsDown, Up
<1>5. EmptyAtDelete'
  BY DEF TypeOK, EmptyAtDelete
<1>6. AckIsExecuted'
  BY DEF TypeOK, AckIsExecuted
<1>. QED  BY <1>1, <1>2, <1>3, <1>4, <1>5, <1>6, QuietStep

\* A dead worker runs nothing; its list stays as it was.
LEMMA CrashInv ==
  ASSUME IInv, NEW w \in Workers, Crash(w)
  PROVE  IInv'
<1> USE DEF IInv, Crash, brokerVars, gatewayVars, reaperVars, historyVars, Fault
<1>1. TypeOK'
  BY ConstantsOK DEF TypeOK, ConstantsOK
<1>2. \A u \in Tasks : Pushed(u)' <=> Pushed(u)
  BY DEF Pushed
<1>3. \A v \in Workers, u \in Tasks : Runs(v, u)' => Runs(v, u)
  BY DEF TypeOK, Runs
<1>4. DeadIsDown'
  BY DEF TypeOK, DeadIsDown, Up
<1>5. EmptyAtDelete'
  BY DEF TypeOK, EmptyAtDelete
<1>6. AckIsExecuted'
  BY DEF TypeOK, AckIsExecuted
<1>. QED  BY <1>1, <1>2, <1>3, <1>4, <1>5, <1>6, QuietStep

\* A worker restarted while its id is being drained makes that id misjudged.
LEMMA RestartInv ==
  ASSUME IInv, NEW w \in Workers, Restart(w)
  PROVE  IInv'
<1> USE DEF IInv, Restart, brokerVars, gatewayVars, reaperVars, historyVars
<1>1. TypeOK'
  <2>1. misjudged' \subseteq Ids
    <3>1. misjudged \subseteq Ids /\ IdOf[w] \in Ids
      BY ConstantsOK DEF TypeOK, ConstantsOK
    <3>. QED  BY <3>1
  <2>2. /\ wpc' \in [Workers -> {"down", "idle", "polling", "busy", "ack"}]
        /\ \A v \in Workers : wpc'[v] \in {"busy", "ack"} <=> wtask'[v] # None
    BY DEF TypeOK
  <2>. QED  BY <2>1, <2>2 DEF TypeOK
<1>2. \A u \in Tasks : Pushed(u)' <=> Pushed(u)
  BY DEF Pushed
<1>3. \A v \in Workers, u \in Tasks : Runs(v, u)' => Runs(v, u)
  BY DEF TypeOK, Runs
<1>4. DeadIsDown'
  BY DEF TypeOK, DeadIsDown, Up, Draining
<1>5. EmptyAtDelete'
  BY DEF TypeOK, EmptyAtDelete
<1>6. AckIsExecuted'
  BY DEF TypeOK, AckIsExecuted
<1>. QED  BY <1>1, <1>2, <1>3, <1>4, <1>5, <1>6, QuietStep

-----------------------------------------------------------------------------
(* Heartbeats                                                              *)

\* A heartbeat touches no list.
LEMMA HeartbeatInv ==
  ASSUME IInv, NEW w \in Workers, Heartbeat(w)
  PROVE  IInv'
<1> USE DEF IInv, Heartbeat, gatewayVars, workerVars, reaperVars, historyVars
<1>1. TypeOK'
  BY ConstantsOK DEF TypeOK, ConstantsOK
<1>2. \A u \in Tasks : Pushed(u)' <=> Pushed(u)
  BY DEF Pushed
<1>3. \A v \in Workers, u \in Tasks : Runs(v, u)' => Runs(v, u)
  BY DEF TypeOK, Runs
<1>4. DeadIsDown'
  BY DEF TypeOK, DeadIsDown, Up
<1>5. EmptyAtDelete'
  BY DEF TypeOK, EmptyAtDelete
<1>6. AckIsExecuted'
  BY DEF TypeOK, AckIsExecuted
<1>. QED  BY <1>1, <1>2, <1>3, <1>4, <1>5, <1>6, QuietStep

\* The end of a dead worker's heartbeat touches no list.
LEMMA ExpireInv ==
  ASSUME IInv, NEW id \in Ids, Expire(id)
  PROVE  IInv'
<1> USE DEF IInv, Expire, gatewayVars, workerVars, reaperVars, historyVars
<1>1. TypeOK'
  BY DEF TypeOK
<1>2. \A u \in Tasks : Pushed(u)' <=> Pushed(u)
  BY DEF Pushed
<1>3. \A v \in Workers, u \in Tasks : Runs(v, u)' => Runs(v, u)
  BY DEF TypeOK, Runs
<1>4. DeadIsDown'
  BY DEF TypeOK, DeadIsDown, Up
<1>5. EmptyAtDelete'
  BY DEF TypeOK, EmptyAtDelete
<1>6. AckIsExecuted'
  BY DEF TypeOK, AckIsExecuted
<1>. QED  BY <1>1, <1>2, <1>3, <1>4, <1>5, <1>6, QuietStep

\* The end of a live worker's heartbeat touches no list.
LEMMA LapseInv ==
  ASSUME IInv, NEW id \in Ids, Lapse(id)
  PROVE  IInv'
<1> USE DEF IInv, Lapse, gatewayVars, workerVars, reaperVars, historyVars, Fault
<1>1. TypeOK'
  BY ConstantsOK DEF TypeOK, ConstantsOK
<1>2. \A u \in Tasks : Pushed(u)' <=> Pushed(u)
  BY DEF Pushed
<1>3. \A v \in Workers, u \in Tasks : Runs(v, u)' => Runs(v, u)
  BY DEF TypeOK, Runs
<1>4. DeadIsDown'
  BY DEF TypeOK, DeadIsDown, Up
<1>5. EmptyAtDelete'
  BY DEF TypeOK, EmptyAtDelete
<1>6. AckIsExecuted'
  BY DEF TypeOK, AckIsExecuted
<1>. QED  BY <1>1, <1>2, <1>3, <1>4, <1>5, <1>6, QuietStep

-----------------------------------------------------------------------------
(* Reaper                                                                  *)

\* KEYS chooses lists and changes none.
LEMMA ScanInv ==
  ASSUME IInv, NEW r \in Reapers, Scan(r)
  PROVE  IInv'
<1> USE DEF IInv, Scan, brokerVars, gatewayVars, workerVars, historyVars
<1>1. TypeOK'
  BY DEF TypeOK
<1>2. \A u \in Tasks : Pushed(u)' <=> Pushed(u)
  BY DEF Pushed
<1>3. \A v \in Workers, u \in Tasks : Runs(v, u)' => Runs(v, u)
  BY DEF TypeOK, Runs
<1>4. DeadIsDown'
  BY DEF TypeOK, DeadIsDown, Up
<1>5. EmptyAtDelete'
  BY DEF TypeOK, EmptyAtDelete
<1>6. AckIsExecuted'
  BY DEF TypeOK, AckIsExecuted
<1>. QED  BY <1>1, <1>2, <1>3, <1>4, <1>5, <1>6, QuietStep

\* Passing over a name of more than three parts changes no list.
LEMMA SkipKeyInv ==
  ASSUME IInv, NEW r \in Reapers, SkipKey(r)
  PROVE  IInv'
<1> USE DEF IInv, SkipKey, brokerVars, gatewayVars, workerVars, historyVars, NextKey
<1>1. TypeOK'
  BY DEF TypeOK
<1>2. \A u \in Tasks : Pushed(u)' <=> Pushed(u)
  BY DEF Pushed
<1>3. \A v \in Workers, u \in Tasks : Runs(v, u)' => Runs(v, u)
  BY DEF TypeOK, Runs
<1>4. DeadIsDown'
  BY DEF TypeOK, DeadIsDown, Up
<1>5. EmptyAtDelete'
  BY DEF TypeOK, EmptyAtDelete
<1>6. AckIsExecuted'
  BY DEF TypeOK, AckIsExecuted
<1>. QED  BY <1>1, <1>2, <1>3, <1>4, <1>5, <1>6, QuietStep

\* Passing over the list of a live worker changes no list.
LEMMA FindAliveInv ==
  ASSUME IInv, NEW r \in Reapers, FindAlive(r)
  PROVE  IInv'
<1> USE DEF IInv, FindAlive, brokerVars, gatewayVars, workerVars, historyVars, NextKey
<1>1. TypeOK'
  BY DEF TypeOK
<1>2. \A u \in Tasks : Pushed(u)' <=> Pushed(u)
  BY DEF Pushed
<1>3. \A v \in Workers, u \in Tasks : Runs(v, u)' => Runs(v, u)
  BY DEF TypeOK, Runs
<1>4. DeadIsDown'
  BY DEF TypeOK, DeadIsDown, Up
<1>5. EmptyAtDelete'
  BY DEF TypeOK, EmptyAtDelete
<1>6. AckIsExecuted'
  BY DEF TypeOK, AckIsExecuted
<1>. QED  BY <1>1, <1>2, <1>3, <1>4, <1>5, <1>6, QuietStep

\* A verdict of death is right or makes the id misjudged.
LEMMA FindDeadInv ==
  ASSUME IInv, NEW r \in Reapers, FindDead(r)
  PROVE  IInv'
<1> USE DEF IInv, FindDead, brokerVars, gatewayVars, workerVars, historyVars
<1>1. TypeOK'
  <2>1. PICK k \in todo[r] \ ColonKeys :
          /\ k[2] \notin beat
          /\ target' = [target EXCEPT ![r] = k]
          /\ misjudged' = IF Up(k[2]) THEN misjudged \cup {k[2]} ELSE misjudged
    OBVIOUS
  <2>2. k \in Keys /\ k[2] \in Ids /\ k # None
    BY <2>1, ConstantsOK DEF TypeOK, Keys, ConstantsOK
  <2>3. target' \in [Reapers -> Keys \cup {None}] /\ misjudged' \subseteq Ids
    BY <2>1, <2>2 DEF TypeOK
  <2>4. \A q \in Reapers : rpc'[q] \in {"drain", "delete"} <=> target'[q] # None
    BY <2>1, <2>2 DEF TypeOK
  <2>. QED  BY <2>3, <2>4 DEF TypeOK
<1>2. \A u \in Tasks : Pushed(u)' <=> Pushed(u)
  BY DEF Pushed
<1>3. \A v \in Workers, u \in Tasks : Runs(v, u)' => Runs(v, u)
  BY DEF TypeOK, Runs
<1>4. DeadIsDown'
  BY DEF TypeOK, DeadIsDown, Up
<1>5. EmptyAtDelete'
  BY DEF TypeOK, EmptyAtDelete
<1>6. AckIsExecuted'
  BY DEF TypeOK, AckIsExecuted
<1>. QED  BY <1>1, <1>2, <1>3, <1>4, <1>5, <1>6, QuietStep

\* A pass that fails leaves the lists as they are.
LEMMA ReapFailsInv ==
  ASSUME IInv, NEW r \in Reapers, ReapFails(r)
  PROVE  IInv'
<1> USE DEF IInv, ReapFails, brokerVars, gatewayVars, workerVars, historyVars, Fault
<1>1. TypeOK'
  BY ConstantsOK DEF TypeOK, ConstantsOK
<1>2. \A u \in Tasks : Pushed(u)' <=> Pushed(u)
  BY DEF Pushed
<1>3. \A v \in Workers, u \in Tasks : Runs(v, u)' => Runs(v, u)
  BY DEF TypeOK, Runs
<1>4. DeadIsDown'
  BY DEF TypeOK, DeadIsDown, Up
<1>5. EmptyAtDelete'
  BY DEF TypeOK, EmptyAtDelete
<1>6. AckIsExecuted'
  BY DEF TypeOK, AckIsExecuted
<1>. QED  BY <1>1, <1>2, <1>3, <1>4, <1>5, <1>6, QuietStep

-----------------------------------------------------------------------------
(* The moves                                                               *)

\* BRPOPLPUSH by a worker that is up, whether its reply arrives or not.
LEMMA TakeStep ==
  ASSUME IInv, NEW w \in Workers, wpc[w] # "down",
         MoveToProcessing(ModelOf[w], Key(w)),
         UNCHANGED <<request, rpc, target, executed, misjudged>>
  PROVE  /\ queue' \in [Models -> Seq(Tasks)]
         /\ processing' \in [Keys -> Seq(Tasks)]
         /\ OneCopy'
         /\ Fresh'
         /\ EmptyAtDelete'
         /\ LostOnlyIfMisjudged'
         /\ Last(queue[ModelOf[w]]) \in Tasks
         /\ Last(queue[ModelOf[w]]) \in ToSet(processing'[Key(w)])
         /\ \A v \in Workers : Runs(v, Last(queue[ModelOf[w]])) => IdOf[v] \in misjudged
         /\ \A k \in Keys : ToSet(processing[k]) \subseteq ToSet(processing'[k])
<1> DEFINE m == ModelOf[w]
           k == Key(w)
           t == Last(queue[m])
<1>1. m \in Models /\ k \in Keys /\ k[2] = IdOf[w]
  BY ConstantsOK DEF ConstantsOK, Key, Keys
<1>2. TypeOK /\ OneCopy /\ MoveToProcessing(m, k)
  BY DEF IInv
<1> HIDE DEF m, k
<1>3. /\ queue' \in [Models -> Seq(Tasks)]
      /\ processing' \in [Keys -> Seq(Tasks)]
      /\ t \in Tasks
      /\ InQueue(t) /\ ~ InProcessing(t)
      /\ OneCopy'
      /\ \A u \in Tasks : InQueue(u)' <=> InQueue(u) /\ u # t
      /\ \A u \in Tasks : InProcessing(u)' <=> InProcessing(u) \/ u = t
      /\ ToSet(processing'[k]) = ToSet(processing[k]) \cup {t}
      /\ \A l \in Keys : l # k => processing'[l] = processing[l]
  BY <1>1, <1>2, MoveEffect
<1> HIDE DEF t
<1>4. Fresh' /\ LostOnlyIfMisjudged'
  BY <1>3 DEF IInv, Fresh, LostOnlyIfMisjudged, Pushed
<1>5. EmptyAtDelete'
  <2> SUFFICES ASSUME NEW r \in Reapers, rpc[r] = "delete"
               PROVE  target[r][2] \in misjudged \/ processing'[target[r]] = <<>>
    BY DEF EmptyAtDelete
  <2>1. target[r] \in Keys
    BY DEF IInv, TypeOK
  <2>2. CASE target[r] = k
    BY <2>2, <1>1 DEF IInv, DeadIsDown, Up
  <2>3. CASE target[r] # k
    BY <2>1, <2>3, <1>3 DEF IInv, EmptyAtDelete
  <2>. QED  BY <2>2, <2>3
<1>6. \A v \in Workers : Runs(v, t) => IdOf[v] \in misjudged
  <2> SUFFICES ASSUME NEW v \in Workers, Runs(v, t), IdOf[v] \notin misjudged
               PROVE  FALSE
    OBVIOUS
  <2>1. t \in ToSet(processing[Key(v)])
    BY <1>3 DEF IInv, RunningIsRecoverable
  <2>2. Key(v) \in Keys
    BY ConstantsOK DEF ConstantsOK, Key, Keys
  <2>. QED  BY <2>1, <2>2, <1>3 DEF InProcessing
<1>7. \A l \in Keys : ToSet(processing[l]) \subseteq ToSet(processing'[l])
  BY <1>3
<1>. QED  BY <1>3, <1>4, <1>5, <1>6, <1>7 DEF m, k, t

\* BRPOPLPUSH puts a task nobody runs in the list of the worker that runs it now.
LEMMA DequeueInv ==
  ASSUME IInv, NEW w \in Workers, Dequeue(w)
  PROVE  IInv'
<1> DEFINE t == Last(queue[ModelOf[w]])
<1>1. /\ wpc[w] = "polling"
      /\ MoveToProcessing(ModelOf[w], Key(w))
      /\ wpc' = [wpc EXCEPT ![w] = "busy"]
      /\ wtask' = [wtask EXCEPT ![w] = t]
      /\ UNCHANGED <<beat, request, stopping, rpc, todo, target, executed,
                     requeued, misjudged, faults>>
  BY DEF Dequeue, gatewayVars, reaperVars, historyVars
<1>2. /\ queue' \in [Models -> Seq(Tasks)]
      /\ processing' \in [Keys -> Seq(Tasks)]
      /\ OneCopy' /\ Fresh' /\ EmptyAtDelete' /\ LostOnlyIfMisjudged'
      /\ t \in Tasks
      /\ t \in ToSet(processing'[Key(w)])
      /\ \A v \in Workers : Runs(v, t) => IdOf[v] \in misjudged
      /\ \A k \in Keys : ToSet(processing[k]) \subseteq ToSet(processing'[k])
  BY <1>1, TakeStep
<1> HIDE DEF t
<1>3. TypeOK'
  BY <1>1, <1>2, ConstantsOK DEF IInv, TypeOK, ConstantsOK
<1>4. \A v \in Workers, u \in Tasks :
        Runs(v, u)' <=> IF v = w THEN u = t ELSE Runs(v, u)
  BY <1>1, <1>2 DEF IInv, TypeOK, Runs
<1>5. RunningIsRecoverable'
  <2> SUFFICES ASSUME NEW v \in Workers, NEW u \in Tasks, Runs(v, u)',
                      IdOf[v] \notin misjudged
               PROVE  u \in ToSet(processing'[Key(v)])
    BY <1>1 DEF RunningIsRecoverable, Key
  <2>1. Key(v) \in Keys
    BY ConstantsOK DEF ConstantsOK, Key, Keys
  <2>. QED  BY <2>1, <1>2, <1>4 DEF IInv, RunningIsRecoverable
<1>6. Exclusive'
  BY <1>1, <1>2, <1>4 DEF IInv, Exclusive
<1>7. DeadIsDown' /\ AckIsExecuted'
  BY <1>1 DEF IInv, TypeOK, DeadIsDown, AckIsExecuted, Up
<1>. QED  BY <1>2, <1>3, <1>5, <1>6, <1>7 DEF IInv

\* BRPOPLPUSH without its reply puts a task nobody runs in a list.
LEMMA DequeueReplyLostInv ==
  ASSUME IInv, NEW w \in Workers, DequeueReplyLost(w)
  PROVE  IInv'
<1>1. /\ wpc[w] = "polling"
      /\ MoveToProcessing(ModelOf[w], Key(w))
      /\ wpc' = [wpc EXCEPT ![w] = "idle"]
      /\ faults < MaxFaults /\ faults' = faults + 1
      /\ UNCHANGED <<beat, request, wtask, stopping, rpc, todo, target, executed,
                     requeued, misjudged>>
  BY DEF DequeueReplyLost, gatewayVars, reaperVars, historyVars, Fault
<1>2. /\ queue' \in [Models -> Seq(Tasks)]
      /\ processing' \in [Keys -> Seq(Tasks)]
      /\ OneCopy' /\ Fresh' /\ EmptyAtDelete' /\ LostOnlyIfMisjudged'
      /\ \A k \in Keys : ToSet(processing[k]) \subseteq ToSet(processing'[k])
  BY <1>1, TakeStep
<1>3. TypeOK'
  BY <1>1, <1>2, ConstantsOK DEF IInv, TypeOK, ConstantsOK
<1>4. \A v \in Workers, u \in Tasks : Runs(v, u)' => Runs(v, u)
  BY <1>1 DEF IInv, TypeOK, Runs
<1>5. RunningIsRecoverable'
  <2> SUFFICES ASSUME NEW v \in Workers, NEW u \in Tasks, Runs(v, u)',
                      IdOf[v] \notin misjudged
               PROVE  u \in ToSet(processing'[Key(v)])
    BY <1>1 DEF RunningIsRecoverable, Key
  <2>1. Key(v) \in Keys
    BY ConstantsOK DEF ConstantsOK, Key, Keys
  <2>. QED  BY <2>1, <1>2, <1>4 DEF IInv, RunningIsRecoverable
<1>6. Exclusive'
  BY <1>1, <1>4 DEF IInv, Exclusive
<1>7. DeadIsDown' /\ AckIsExecuted'
  BY <1>1 DEF IInv, TypeOK, DeadIsDown, AckIsExecuted, Up
<1>. QED  BY <1>2, <1>3, <1>5, <1>6, <1>7 DEF IInv

\* LREM removes a task that was executed and that nobody else runs.
LEMMA AckInv ==
  ASSUME IInv, NEW w \in Workers, Ack(w)
  PROVE  IInv'
<1> DEFINE t == wtask[w]
           k == Key(w)
<1>1. /\ wpc[w] = "ack"
      /\ processing' = [processing EXCEPT ![k] = RemoveFirst(@, t)]
      /\ wpc' = [wpc EXCEPT ![w] = "idle"]
      /\ wtask' = [wtask EXCEPT ![w] = None]
      /\ UNCHANGED <<queue, beat, request, stopping, rpc, todo, target, executed,
                     requeued, misjudged, faults>>
  BY DEF Ack, gatewayVars, reaperVars, historyVars
<1>2. t \in Tasks /\ k \in Keys /\ t \in executed /\ Runs(w, t)
  BY <1>1, ConstantsOK
  DEF IInv, TypeOK, AckIsExecuted, Runs, ConstantsOK, Key, Keys
<1> HIDE DEF t, k
<1>3. /\ processing' \in [Keys -> Seq(Tasks)]
      /\ OneCopy'
      /\ \A u \in Tasks : InQueue(u)' <=> InQueue(u)
      /\ \A u \in Tasks : InProcessing(u)' => InProcessing(u)
      /\ \A u \in Tasks : InProcessing(u) /\ u # t => InProcessing(u)'
      /\ \A l \in Keys : ToSet(processing[l]) \ {t} \subseteq ToSet(processing'[l])
      /\ \A l \in Keys : l # k => processing'[l] = processing[l]
      /\ processing[k] = <<>> => processing'[k] = <<>>
  BY <1>1, <1>2, AckEffect DEF IInv
<1>4. TypeOK'
  BY <1>1, <1>3 DEF IInv, TypeOK
<1>5. Fresh' /\ LostOnlyIfMisjudged'
  BY <1>1, <1>2, <1>3 DEF IInv, Fresh, LostOnlyIfMisjudged, Pushed
<1>6. \A v \in Workers, u \in Tasks : Runs(v, u)' => v # w /\ Runs(v, u)
  BY <1>1 DEF IInv, TypeOK, Runs
<1>7. RunningIsRecoverable'
  <2> SUFFICES ASSUME NEW v \in Workers, NEW u \in Tasks, Runs(v, u)',
                      IdOf[v] \notin misjudged
               PROVE  u \in ToSet(processing'[Key(v)])
    BY <1>1 DEF RunningIsRecoverable, Key
  <2>1. /\ Key(v) \in Keys
        /\ Key(v) = k => IdOf[v] = IdOf[w]
    BY ConstantsOK DEF ConstantsOK, Key, Keys, k
  <2>2. v # w /\ Runs(v, u) /\ u \in ToSet(processing[Key(v)])
    BY <1>6 DEF IInv, RunningIsRecoverable
  <2>3. CASE Key(v) # k
    BY <2>1, <2>2, <2>3, <1>3
  <2>4. CASE Key(v) = k
    <3>1. u # t
      BY <2>1, <2>2, <2>4, <1>2 DEF IInv, Exclusive
    <3>. QED  BY <2>1, <2>2, <3>1, <1>3
  <2>. QED  BY <2>3, <2>4
<1>8. Exclusive'
  BY <1>1, <1>6 DEF IInv, Exclusive
<1>9. EmptyAtDelete'
  <2> SUFFICES ASSUME NEW r \in Reapers, rpc[r] = "delete"
               PROVE  target[r][2] \in misjudged \/ processing'[target[r]] = <<>>
    BY <1>1 DEF EmptyAtDelete
  <2>1. target[r] \in Keys
    BY DEF IInv, TypeOK
  <2>. QED  BY <2>1, <1>3 DEF IInv, EmptyAtDelete
<1>10. DeadIsDown' /\ AckIsExecuted'
  BY <1>1 DEF IInv, TypeOK, DeadIsDown, AckIsExecuted, Up
<1>. QED  BY <1>3, <1>4, <1>5, <1>7, <1>8, <1>9, <1>10 DEF IInv

\* RPOPLPUSH by a reaper takes a task from a list whose worker is dead or misjudged.
LEMMA RequeueInv ==
  ASSUME IInv, NEW r \in Reapers, Requeue(r)
  PROVE  IInv'
<1> DEFINE k == target[r]
           t == Last(processing[k])
<1>1. /\ rpc[r] = "drain"
      /\ UNCHANGED <<beat, request, wpc, wtask, stopping, todo, target, executed,
                     misjudged, faults>>
  BY DEF Requeue, gatewayVars, workerVars
<1>2. k \in Keys /\ k[1] \in Models /\ (k[2] \in misjudged \/ ~ Up(k[2]))
  BY <1>1 DEF IInv, TypeOK, DeadIsDown, Keys
<1>3. \A v \in Workers, u \in Tasks : Runs(v, u)' <=> Runs(v, u)
  BY <1>1 DEF Runs
<1>4. \A id \in Ids : Up(id)' <=> Up(id)
  BY <1>1 DEF Up
<1>5. CASE processing[k] = <<>>
  <2>1. /\ rpc' = [rpc EXCEPT ![r] = "delete"]
        /\ UNCHANGED <<queue, processing, requeued>>
    BY <1>5 DEF Requeue
  <2>2. TypeOK'
    BY <1>1, <2>1 DEF IInv, TypeOK
  <2>3. EmptyAtDelete' /\ DeadIsDown' /\ AckIsExecuted'
    BY <1>1, <1>5, <2>1
    DEF IInv, TypeOK, EmptyAtDelete, DeadIsDown, AckIsExecuted, Up
  <2>. QED  BY <1>1, <1>3, <2>1, <2>2, <2>3, QuietStep DEF Pushed
<1>6. CASE processing[k] # <<>>
  <2>1. /\ processing' = [processing EXCEPT ![k] = Front(@)]
        /\ queue' = [queue EXCEPT ![k[1]] = Cons(t, @)]
        /\ requeued' = requeued \cup {t}
        /\ UNCHANGED rpc
    BY <1>6 DEF Requeue
  <2>2. /\ queue' \in [Models -> Seq(Tasks)]
        /\ processing' \in [Keys -> Seq(Tasks)]
        /\ t \in Tasks
        /\ t \in ToSet(processing[k])
        /\ OneCopy'
        /\ \A u \in Tasks : InQueue(u)' <=> InQueue(u) \/ u = t
        /\ \A u \in Tasks : InProcessing(u)' <=> InProcessing(u) /\ u # t
        /\ \A l \in Keys : l # k => processing'[l] = processing[l]
    BY <1>2, <1>6, <2>1, RequeueEffect DEF IInv
  <2> HIDE DEF k, t
  <2>3. TypeOK'
    BY <1>1, <2>1, <2>2 DEF IInv, TypeOK
  <2>4. Fresh' /\ LostOnlyIfMisjudged'
    <3>1. InProcessing(t)
      BY <1>2, <2>2 DEF InProcessing
    <3>. QED  BY <1>1, <2>2, <3>1 DEF IInv, Fresh, LostOnlyIfMisjudged, Pushed
  <2>5. RunningIsRecoverable'
    <3> SUFFICES ASSUME NEW v \in Workers, NEW u \in Tasks, Runs(v, u),
                        IdOf[v] \notin misjudged
                 PROVE  u \in ToSet(processing'[Key(v)])
      BY <1>1, <1>3 DEF RunningIsRecoverable, Key
    <3>1. Key(v) \in Keys /\ Key(v)[2] = IdOf[v] /\ Up(IdOf[v])
      BY ConstantsOK DEF ConstantsOK, Key, Keys, Runs, Up
    <3>2. Key(v) # k
      BY <1>2, <3>1
    <3>. QED  BY <2>2, <3>1, <3>2 DEF IInv, RunningIsRecoverable
  <2>6. Exclusive'
    BY <1>1, <1>3 DEF IInv, Exclusive
  <2>7. EmptyAtDelete'
    <3> SUFFICES ASSUME NEW q \in Reapers, rpc[q] = "delete",
                        target[q][2] \notin misjudged
                 PROVE  processing'[target[q]] = <<>>
      BY <1>1, <2>1 DEF EmptyAtDelete
    <3>1. target[q] \in Keys /\ processing[target[q]] = <<>>
      BY DEF IInv, TypeOK, EmptyAtDelete
    <3>. QED  BY <1>6, <2>2, <3>1
  <2>8. DeadIsDown' /\ AckIsExecuted'
    BY <1>1, <2>1 DEF IInv, DeadIsDown, AckIsExecuted, Up
  <2>. QED  BY <2>2, <2>3, <2>4, <2>5, <2>6, <2>7, <2>8 DEF IInv
<1>. QED  BY <1>5, <1>6

\* DEL removes a task only if the list's id is misjudged.
LEMMA DeleteKeyInv ==
  ASSUME IInv, NEW r \in Reapers, DeleteKey(r)
  PROVE  IInv'
<1> DEFINE k == target[r]
<1>1. /\ rpc[r] = "delete"
      /\ processing' = [processing EXCEPT ![k] = <<>>]
      /\ todo' = [todo EXCEPT ![r] = @ \ {k}]
      /\ rpc' = [rpc EXCEPT ![r] = IF todo[r] \ {k} = {} THEN "sleep" ELSE "check"]
      /\ target' = [target EXCEPT ![r] = None]
      /\ UNCHANGED <<queue, beat, request, wpc, wtask, stopping, executed,
                     requeued, misjudged, faults>>
  BY DEF DeleteKey, NextKey, gatewayVars, workerVars, historyVars
<1>2. k \in Keys /\ (k[2] \in misjudged \/ ~ Up(k[2]))
      /\ (k[2] \in misjudged \/ processing[k] = <<>>)
  BY <1>1 DEF IInv, TypeOK, DeadIsDown, EmptyAtDelete
<1>3. \A v \in Workers, u \in Tasks : Runs(v, u)' <=> Runs(v, u)
  BY <1>1 DEF Runs
<1>4. /\ processing' \in [Keys -> Seq(Tasks)]
      /\ OneCopy'
      /\ \A u \in Tasks : InQueue(u)' <=> InQueue(u)
      /\ \A u \in Tasks : InProcessing(u)' => InProcessing(u)
      /\ \A l \in Keys : l # k => processing'[l] = processing[l]
      /\ processing'[k] = <<>>
      /\ processing[k] = <<>> => processing' = processing
  BY <1>1, <1>2, DeleteEffect DEF IInv
<1> HIDE DEF k
<1>5. TypeOK'
  BY <1>1, <1>4 DEF IInv, TypeOK
<1>6. Fresh' /\ LostOnlyIfMisjudged'
  <2>1. CASE misjudged # {}
    BY <2>1, <1>1, <1>4 DEF IInv, Fresh, LostOnlyIfMisjudged, Pushed
  <2>2. CASE misjudged = {}
    <3>1. processing' = processing
      BY <2>2, <1>2, <1>4
    <3>2. \A u \in Tasks : InProcessing(u)' <=> InProcessing(u)
      BY <3>1 DEF InProcessing
    <3>. QED  BY <3>2, <1>1, <1>4 DEF IInv, Fresh, LostOnlyIfMisjudged, Pushed
  <2>. QED  BY <2>1, <2>2
<1>7. RunningIsRecoverable'
  <2> SUFFICES ASSUME NEW v \in Workers, NEW u \in Tasks, Runs(v, u),
                      IdOf[v] \notin misjudged
               PROVE  u \in ToSet(processing'[Key(v)])
    BY <1>1, <1>3 DEF RunningIsRecoverable, Key
  <2>1. Key(v) \in Keys /\ Key(v)[2] = IdOf[v] /\ Up(IdOf[v])
    BY ConstantsOK DEF ConstantsOK, Key, Keys, Runs, Up
  <2>2. Key(v) # k
    BY <1>2, <2>1
  <2>. QED  BY <1>4, <2>1, <2>2 DEF IInv, RunningIsRecoverable
<1>8. Exclusive'
  BY <1>1, <1>3 DEF IInv, Exclusive
<1>9. EmptyAtDelete'
  <2> SUFFICES ASSUME NEW q \in Reapers, rpc'[q] = "delete",
                      target'[q][2] \notin misjudged
               PROVE  processing'[target'[q]] = <<>>
    BY <1>1 DEF EmptyAtDelete
  <2>1. q # r /\ rpc[q] = "delete" /\ target'[q] = target[q]
    BY <1>1 DEF IInv, TypeOK
  <2>2. target[q] \in Keys /\ processing[target[q]] = <<>>
    BY <2>1 DEF IInv, TypeOK, EmptyAtDelete
  <2>. QED  BY <1>4, <2>1, <2>2
<1>10. DeadIsDown' /\ AckIsExecuted'
  BY <1>1 DEF IInv, TypeOK, DeadIsDown, AckIsExecuted, Up
<1>. QED  BY <1>4, <1>5, <1>6, <1>7, <1>8, <1>9, <1>10 DEF IInv

-----------------------------------------------------------------------------
(* The theorems                                                            *)

\* The invariant holds initially: there are no tasks in any list.
LEMMA InitInv == Init => IInv
<1> SUFFICES ASSUME Init PROVE IInv
  OBVIOUS
<1>1. /\ \A m \in Models : queue[m] = <<>>
      /\ \A k \in Keys : processing[k] = <<>>
  BY DEF Init
<1>2. ToSet(<<>>) = {} /\ IsInjective(<<>>)
  BY DEF ToSet, IsInjective
<1>3. TypeOK
  BY ConstantsOK DEF Init, TypeOK, ConstantsOK
<1>4. OneCopy /\ Fresh
  BY <1>1, <1>2 DEF OneCopy, Fresh, InQueue, InProcessing
<1>5. /\ RunningIsRecoverable /\ Exclusive /\ DeadIsDown /\ EmptyAtDelete
      /\ AckIsExecuted /\ LostOnlyIfMisjudged
  BY DEF Init, RunningIsRecoverable, Exclusive, DeadIsDown, EmptyAtDelete,
     AckIsExecuted, LostOnlyIfMisjudged, Runs, Pushed
<1>. QED  BY <1>3, <1>4, <1>5 DEF IInv

\* The invariant speaks of the variables only.
LEMMA StutterInv == IInv /\ UNCHANGED vars => IInv'
<1> SUFFICES ASSUME IInv, UNCHANGED vars PROVE IInv'
  OBVIOUS
<1> USE DEF vars, brokerVars, gatewayVars, workerVars, reaperVars, historyVars
<1>1. TypeOK'
  BY DEF IInv, TypeOK
<1>2. DeadIsDown' /\ EmptyAtDelete' /\ AckIsExecuted'
  BY DEF IInv, DeadIsDown, EmptyAtDelete, AckIsExecuted, Up
<1>3. /\ \A u \in Tasks : Pushed(u)' <=> Pushed(u)
      /\ \A w \in Workers, u \in Tasks : Runs(w, u)' <=> Runs(w, u)
  BY DEF Pushed, Runs
<1>. QED  BY <1>1, <1>2, <1>3, QuietStep

\* The invariant is inductive.
LEMMA NextInv == IInv /\ [Next]_vars => IInv'
<1> SUFFICES ASSUME IInv, [Next]_vars PROVE IInv'
  OBVIOUS
<1>1. CASE UNCHANGED vars
  BY <1>1, StutterInv
<1>2. ASSUME NEW t \in Tasks, GatewayStep(t) \/ EnqueueFails(t)
      PROVE  IInv'
  BY <1>2, CheckDepthInv, EnqueueInv, EnqueueFailsInv DEF GatewayStep
<1>3. ASSUME NEW w \in Workers, WorkerStep(w)
      PROVE  IInv'
  BY <1>3, PollOrExitInv, PollTimeoutInv, DequeueInv, ExecuteInv, AckInv DEF WorkerStep
<1>4. ASSUME NEW w \in Workers, WorkerFault(w)
      PROVE  IInv'
  BY <1>4, DequeueReplyLostInv, AckFailsInv, StopSignalInv, CrashInv, RestartInv
  DEF WorkerFault
<1>5. ASSUME NEW w \in Workers, Heartbeat(w)
      PROVE  IInv'
  BY <1>5, HeartbeatInv
<1>6. ASSUME NEW id \in Ids, Expire(id) \/ Lapse(id)
      PROVE  IInv'
  BY <1>6, ExpireInv, LapseInv
<1>7. ASSUME NEW r \in Reapers, ReaperStep(r) \/ ReapFails(r)
      PROVE  IInv'
  BY <1>7, ScanInv, SkipKeyInv, FindAliveInv, FindDeadInv, RequeueInv, DeleteKeyInv,
     ReapFailsInv DEF ReaperStep
<1>. QED  BY <1>1, <1>2, <1>3, <1>4, <1>5, <1>6, <1>7 DEF Next

\* IInv holds in every reachable state.
THEOREM Invariance == Spec => []IInv
BY InitInv, NextInv, PTL DEF Spec

\* Variables keep their types: in particular a worker has a task exactly while
\* process_task runs, and a reaper a list exactly while it drains one.
THEOREM TypeCorrect == Spec => []TypeOK
<1>1. IInv => TypeOK
  BY DEF IInv
<1>. QED  BY <1>1, Invariance, PTL

\* The lists never hold a task twice: LPUSH, BRPOPLPUSH, RPOPLPUSH, LREM and
\* DEL only hand a task on, whatever fails in between.
THEOREM NoDuplicates == Spec => []OneCopy
<1>1. IInv => OneCopy
  BY DEF IInv
<1>. QED  BY <1>1, Invariance, PTL

\* What a worker runs is in its processing list, so that a crash can be
\* recovered, unless a reaper drained its id while a worker had it.
THEOREM CrashRecoverable == Spec => []RunningIsRecoverable
<1>1. IInv => RunningIsRecoverable
  BY DEF IInv
<1>. QED  BY <1>1, Invariance, PTL

\* No pushed task drops out of the lists before a worker has run it, unless a
\* reaper drained an id while a worker had it.
THEOREM NoLoss == Spec => []LostOnlyIfMisjudged
<1>1. IInv => LostOnlyIfMisjudged
  BY DEF IInv
<1>. QED  BY <1>1, Invariance, PTL

\* No two workers run a task at once, unless a reaper drained an id while a
\* worker had it.
THEOREM NoDoubleRun == Spec => []RunTwiceOnlyIfMisjudged
<1>1. IInv => RunTwiceOnlyIfMisjudged
  BY DEF IInv, Exclusive, RunTwiceOnlyIfMisjudged
<1>. QED  BY <1>1, Invariance, PTL
=============================================================================
