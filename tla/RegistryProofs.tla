--------------------------- MODULE RegistryProofs ---------------------------
(***************************************************************************)
(* The invariants of Registry, for any workers, models and ids (shared or  *)
(* not) and any times with TTL = 3 * Interval and 3 * Delay < Interval.    *)
(***************************************************************************)
EXTENDS Registry, TLAPS

-----------------------------------------------------------------------------
(* The inductive invariant                                                 *)

\* What bounds the clocks of a worker; one that is down is not trusted.  A SET
\* that is late and not stalled arrives within a Delay of its worker's end.
Timed ==
  \A w \in Workers :
    /\ wpc[w] \in {"send", "reply"} => left[w] <= Delay
    /\ IF Up(w) THEN gone[w] = 0 ELSE strikes[w] = 2
    /\ late[w] \in 1..(Delay + 1) => gone[w] + late[w] <= Delay + 1

\* What is left of a trusted worker's key: from the last SET on, at most so many
\* sleeps and commands have passed as its step and its strikes say.
Passed(w, step, count, ticks) ==
  wpc[w] = step /\ strikes[w] = count /\ ttl[IdOf[w]] + ticks >= TTL + left[w]

KeyFresh ==
  \A w \in Trusted :
    \/ Passed(w, "reply", 0, Delay)
    \/ Passed(w, "sleep", 0, Delay + Interval)
    \/ Passed(w, "send",  0, 2 * Delay + Interval)
    \/ Passed(w, "sleep", 1, 2 * Delay + 2 * Interval)
    \/ Passed(w, "send",  1, 3 * Delay + 2 * Interval)

\* Who has set a key that exists: a worker that is up, or down no longer than the
\* key is old and its SET was late; a listing counts it among the recent ones.
Owner(v, id) ==
  /\ IdOf[v] = id
  /\ ModelOf[v] = key[id]
  /\ Up(v) \/ gone[v] + ttl[id] <= LongGone
  /\ lpc = "get" => v \in recent

KeyOwned == \A id \in Ids : key[id] # None => \E v \in Workers : Owner(v, id)

\* What a listing has found so far.
Listed(w) ==
  \/ ModelOf[w] \in found
  \/ \E v \in Workers : IdOf[v] = IdOf[w] /\ ModelOf[v] # ModelOf[w]

FoundServed ==
  lpc \in {"get", "listed"} => \A m \in found : \E w \in recent : ModelOf[w] = m

SteadyFound ==
  /\ lpc = "get" => \A w \in steady : w \in Trusted /\ (IdOf[w] \in todo \/ Listed(w))
  /\ lpc = "listed" => \A w \in steady : Listed(w)

IInv == TypeOK /\ Timed /\ KeyFresh /\ KeyOwned /\ FoundServed /\ SteadyFound

-----------------------------------------------------------------------------
(* Types and clocks                                                        *)

\* The first state has the right types and meets the invariant.
LEMMA InitInv == Init => IInv
  BY ConstantsOK DEF Init, IInv, TypeOK, Timed, KeyFresh, KeyOwned, FoundServed,
     SteadyFound, Up, Trusted, LongGone, Stalled

\* Every step keeps the types and the bounds of the clocks.
LEMMA TypeStep ==
  ASSUME TypeOK, Timed, [Next]_vars
  PROVE  TypeOK' /\ Timed'
<1> USE ConstantsOK DEF TypeOK, Timed, Up, Stalled, Later, LongGone
<1>1. ASSUME NEW w \in Workers, HeartbeatStep(w) PROVE TypeOK' /\ Timed'
  <2>0. /\ steady' \subseteq Workers
        /\ recent' \subseteq Workers
    BY <1>1 DEF HeartbeatStep, ComeUp, GoDown, Beat, Arrives, Returns, BeatFails, Hang,
       HangEnds, ArrivesLate, GiveUp, Observe, Trusted, Lately, sinceKeys
  <2>1. CASE ComeUp(w)
    BY <2>0, <2>1 DEF ComeUp, listVars
  <2>2. CASE GoDown(w)
    BY <2>0, <2>2 DEF GoDown, listVars
  <2>3. CASE Beat(w)
    BY <2>0, <2>3 DEF Beat, listVars
  <2>4. CASE Arrives(w)
    BY <2>0, <2>4 DEF Arrives, Register, listVars
  <2>5. CASE Returns(w)
    BY <2>0, <2>5 DEF Returns, Sleep, listVars
  <2>6. CASE BeatFails(w)
    BY <2>0, <2>6 DEF BeatFails, Sleep, listVars
  <2>7. CASE Hang(w)
    BY <2>0, <2>7 DEF Hang, listVars
  <2>8. CASE HangEnds(w)
    BY <2>0, <2>8 DEF HangEnds, Sleep, listVars
  <2>9. CASE ArrivesLate(w)
    BY <2>0, <2>9 DEF ArrivesLate, Register, listVars, workerVars
  <2>10. CASE GiveUp(w)
    BY <2>0, <2>10 DEF GiveUp, listVars, workerVars
  <2> QED
    BY <1>1, <2>1, <2>2, <2>3, <2>4, <2>5, <2>6, <2>7, <2>8, <2>9, <2>10 DEF HeartbeatStep
<1>2. CASE ListKeys
  BY <1>2 DEF ListKeys, workerVars, Trusted, Lately
<1>3. ASSUME NEW id \in Ids, GetKey(id) PROVE TypeOK' /\ Timed'
  BY <1>3 DEF GetKey, workerVars, sinceKeys
<1>4. CASE ListFails
  BY <1>4 DEF ListFails, workerVars
<1>5. CASE Tick
  <2>1. /\ late' \in [Workers -> 0..Stalled]
        /\ gone' \in [Workers -> 0..LongGone]
    BY <1>5 DEF Tick
  <2>2. ASSUME NEW w \in Workers, late'[w] \in 1..(Delay + 1)
        PROVE  gone'[w] + late'[w] <= Delay + 1
    <3>1. late[w] \in 2..(Delay + 1) /\ late'[w] = late[w] - 1
      BY <1>5, <2>2 DEF Tick
    <3>2. gone'[w] = gone[w] \/ gone'[w] = gone[w] + 1
      BY <1>5 DEF Tick
    <3>3. gone[w] + late[w] <= Delay + 1 /\ gone[w] \in Nat
      BY <3>1
    <3> QED
      BY <3>1, <3>2, <3>3
  <2> QED
    BY <1>5, <2>1, <2>2 DEF Tick, Due, listVars, sinceKeys
<1>6. CASE UNCHANGED vars
  BY <1>6 DEF vars, workerVars, listVars, sinceKeys
<1> QED
  BY <1>1, <1>2, <1>3, <1>4, <1>5, <1>6 DEF Next

-----------------------------------------------------------------------------
(* The age of a key                                                        *)

\* A key that is as fresh as KeyFresh says exists.
LEMMA FreshExists ==
  ASSUME TypeOK, KeyFresh, NEW w \in Trusted
  PROVE  key[IdOf[w]] # None
<1>1. w \in Workers /\ IdOf[w] \in Ids /\ left[w] \in Nat
  BY ConstantsOK DEF Trusted, TypeOK
<1>2. ttl[IdOf[w]] # 0
  BY <1>1, ConstantsOK DEF KeyFresh, Passed, TypeOK
<1> QED
  BY <1>1, <1>2 DEF TypeOK

\* A SET makes the key as old as the commands and sleeps since; nothing else but
\* the clock changes that, and the clock waits for the worker.  A SET that is late
\* only makes the key newer.
LEMMA FreshStep ==
  ASSUME TypeOK, Timed, KeyFresh, [Next]_vars
  PROVE  KeyFresh'
<1> USE ConstantsOK DEF TypeOK, Timed, KeyFresh, Passed, Trusted, Up
<1>1. ASSUME NEW w \in Workers, HeartbeatStep(w) PROVE KeyFresh'
  <2>1. CASE ComeUp(w)
    BY <2>1 DEF ComeUp
  <2>2. CASE GoDown(w)
    BY <2>2 DEF GoDown
  <2>3. CASE Beat(w)
    BY <2>3 DEF Beat
  <2>4. CASE Arrives(w)
    <3> SUFFICES ASSUME NEW v \in Trusted'
                 PROVE  KeyFresh!(v)'
      OBVIOUS
    <3>1. CASE v = w
      BY <2>4, <3>1 DEF Arrives, Register
    <3>2. CASE v # w
      BY <2>4, <3>2 DEF Arrives, Register
    <3> QED
      BY <3>1, <3>2
  <2>5. CASE Returns(w)
    BY <2>5 DEF Returns, Sleep
  <2>6. CASE BeatFails(w)
    BY <2>6 DEF BeatFails, Sleep
  <2>7. CASE Hang(w)
    BY <2>7 DEF Hang
  <2>8. CASE HangEnds(w)
    BY <2>8 DEF HangEnds, Sleep
  <2>9. CASE ArrivesLate(w)
    <3>1. UNCHANGED <<wpc, left, strikes>>
      BY <2>9 DEF ArrivesLate, workerVars
    <3>2. \A id \in Ids : ttl'[id] >= ttl[id] /\ ttl'[id] \in Nat
      BY <2>9 DEF ArrivesLate, Register
    <3> QED
      BY <3>1, <3>2
  <2>10. CASE GiveUp(w)
    BY <2>10 DEF GiveUp, workerVars
  <2> QED
    BY <1>1, <2>1, <2>2, <2>3, <2>4, <2>5, <2>6, <2>7, <2>8, <2>9, <2>10 DEF HeartbeatStep
<1>2. CASE ListKeys \/ (\E id \in Ids : GetKey(id)) \/ ListFails \/ UNCHANGED vars
  BY <1>2 DEF ListKeys, GetKey, ListFails, vars, workerVars
<1>3. CASE Tick
  BY <1>3 DEF Tick, Due
<1> QED
  BY <1>1, <1>2, <1>3 DEF Next

-----------------------------------------------------------------------------
(* The owner of a key                                                      *)

\* A SET makes its worker the owner, and a late one has left its worker down for a
\* Delay at most; a worker that goes down leaves a key no older than the time it is
\* gone, and the clock counts for both.
LEMMA OwnedStep ==
  ASSUME TypeOK, Timed, KeyOwned, [Next]_vars
  PROVE  KeyOwned'
<1> USE ConstantsOK DEF TypeOK, Timed, KeyOwned, Owner, Up, LongGone, Stalled
<1>1. ASSUME NEW w \in Workers, HeartbeatStep(w) PROVE KeyOwned'
  <2>0. /\ lpc' = lpc
        /\ lpc = "get" => recent \subseteq recent'
        /\ lpc = "get" /\ Up(w)' => w \in recent'
    BY <1>1 DEF HeartbeatStep, ComeUp, GoDown, Beat, Arrives, Returns, BeatFails, Hang,
       HangEnds, ArrivesLate, GiveUp, Observe, Lately, listVars
  <2>1. CASE Arrives(w)
    <3> SUFFICES ASSUME NEW id \in Ids, key'[id] # None
                 PROVE  \E v \in Workers : Owner(v, id)'
      OBVIOUS
    <3>1. CASE id = IdOf[w]
      <4>1. Owner(w, id)'
        BY <2>0, <2>1, <3>1 DEF Arrives, Register
      <4> QED
        BY <4>1
    <3>2. CASE id # IdOf[w]
      <4>1. PICK v \in Workers : Owner(v, id)
        BY <2>1, <3>2 DEF Arrives, Register
      <4>2. Owner(v, id)'
        BY <2>0, <2>1, <3>2, <4>1 DEF Arrives, Register
      <4> QED
        BY <4>2
    <3> QED
      BY <3>1, <3>2
  <2>2. CASE GoDown(w)
    BY <2>0, <2>2 DEF GoDown
  <2>3. CASE ComeUp(w) \/ Beat(w) \/ Returns(w) \/ BeatFails(w) \/ Hang(w) \/ HangEnds(w)
    BY <2>0, <2>3 DEF ComeUp, Beat, Returns, BeatFails, Hang, HangEnds, Sleep
  <2>4. CASE ArrivesLate(w)
    <3>1. /\ late[w] \in 1..(Delay + 2)
          /\ Register(w)
          /\ gone' = [gone EXCEPT ![w] = IF late[w] = Stalled THEN 0 ELSE @]
          /\ UNCHANGED wpc
      BY <2>4 DEF ArrivesLate, workerVars
    <3>2. gone'[w] <= Delay
      BY <3>1
    <3>3. lpc = "get" => w \in recent'
      BY <2>4, <3>2 DEF ArrivesLate, Observe, Lately
    <3> SUFFICES ASSUME NEW id \in Ids, key'[id] # None
                 PROVE  \E v \in Workers : Owner(v, id)'
      OBVIOUS
    <3>4. CASE id = IdOf[w]
      <4>1. Owner(w, id)'
        BY <2>0, <3>1, <3>2, <3>3, <3>4 DEF Register
      <4> QED
        BY <4>1
    <3>5. CASE id # IdOf[w]
      <4>1. PICK v \in Workers : Owner(v, id)
        BY <3>1, <3>5 DEF Register
      <4>2. Owner(v, id)'
        BY <2>0, <3>1, <3>5, <4>1 DEF Register
      <4> QED
        BY <4>2
    <3> QED
      BY <3>4, <3>5
  <2>5. CASE GiveUp(w)
    BY <2>0, <2>5 DEF GiveUp, workerVars
  <2> QED
    BY <1>1, <2>1, <2>2, <2>3, <2>4, <2>5 DEF HeartbeatStep
<1>2. CASE ListKeys
  BY <1>2 DEF ListKeys, Lately, workerVars
<1>3. CASE (\E id \in Ids : GetKey(id)) \/ ListFails \/ UNCHANGED vars
  BY <1>3 DEF GetKey, ListFails, vars, workerVars, listVars, sinceKeys
<1>4. CASE Tick
  <2> SUFFICES ASSUME NEW id \in Ids, key'[id] # None
               PROVE  \E v \in Workers : Owner(v, id)'
    OBVIOUS
  <2>1. key[id] = key'[id] /\ ttl[id] \in Nat /\ ttl'[id] = ttl[id] - 1 /\ ttl'[id] # 0
    BY <1>4 DEF Tick
  <2>2. PICK v \in Workers : Owner(v, id)
    BY <2>1
  <2>3. Owner(v, id)'
    BY <1>4, <2>1, <2>2 DEF Tick, listVars, sinceKeys
  <2> QED
    BY <2>3
<1> QED
  BY <1>1, <1>2, <1>3, <1>4 DEF Next

-----------------------------------------------------------------------------
(* The listing                                                             *)

\* A GET adds the model of the key's owner.
LEMMA FoundStep ==
  ASSUME TypeOK, Timed, KeyOwned, FoundServed, [Next]_vars
  PROVE  FoundServed'
<1> USE ConstantsOK DEF TypeOK, FoundServed
<1>1. ASSUME NEW w \in Workers, HeartbeatStep(w) PROVE FoundServed'
  <2>1. lpc' = lpc /\ found' = found /\ recent \subseteq recent'
    BY <1>1 DEF HeartbeatStep, ComeUp, GoDown, Beat, Arrives, Returns, BeatFails, Hang,
       HangEnds, ArrivesLate, GiveUp, Observe, listVars, sinceKeys
  <2> QED
    BY <2>1
<1>2. ASSUME NEW id \in Ids, GetKey(id) PROVE FoundServed'
  <2>1. /\ lpc = "get"
        /\ found' = found \cup ({key[id]} \ {None})
        /\ recent' = recent
    BY <1>2 DEF GetKey, sinceKeys
  <2>2. key[id] # None => \E v \in recent : ModelOf[v] = key[id]
    BY <2>1 DEF KeyOwned, Owner
  <2> QED
    BY <2>1, <2>2
<1>3. CASE ListKeys \/ ListFails \/ Tick \/ UNCHANGED vars
  BY <1>3 DEF ListKeys, ListFails, Tick, vars, listVars, sinceKeys
<1> QED
  BY <1>1, <1>2, <1>3 DEF Next

\* KEYS returns the key of every trusted worker; the key is still there when its
\* GET comes, or the worker is no longer counted as steady.
LEMMA SteadyStep ==
  ASSUME TypeOK, KeyFresh, KeyOwned, SteadyFound, [Next]_vars
  PROVE  SteadyFound'
<1> USE ConstantsOK DEF TypeOK, SteadyFound, Listed
<1>1. ASSUME NEW w \in Workers, HeartbeatStep(w) PROVE SteadyFound'
  <2>1. /\ lpc' = lpc /\ found' = found /\ todo' = todo
        /\ steady' \subseteq steady
        /\ lpc = "get" => steady' \subseteq Trusted'
    BY <1>1 DEF HeartbeatStep, ComeUp, GoDown, Beat, Arrives, Returns, BeatFails, Hang,
       HangEnds, ArrivesLate, GiveUp, Observe, listVars, workerVars, sinceKeys
  <2> QED
    BY <2>1
<1>2. CASE ListKeys
  <2>1. Trusted' = Trusted /\ steady' = Trusted /\ todo' = {id \in Ids : key[id] # None}
    BY <1>2 DEF ListKeys, Trusted, Up, workerVars
  <2>2. \A w \in Trusted : w \in Workers /\ IdOf[w] \in Ids /\ key[IdOf[w]] # None
    BY FreshExists DEF Trusted
  <2>3. \A w \in steady' : w \in Trusted' /\ IdOf[w] \in todo'
    BY <2>1, <2>2
  <2>4. lpc' = "listed" => todo' = {}
    BY <1>2 DEF ListKeys
  <2> QED
    BY <2>3, <2>4
<1>3. ASSUME NEW id \in Ids, GetKey(id) PROVE SteadyFound'
  <2>1. /\ lpc = "get"
        /\ found' = found \cup ({key[id]} \ {None})
        /\ todo' = todo \ {id}
        /\ lpc' = "listed" => todo' = {}
        /\ steady' = steady
        /\ Trusted' = Trusted
    BY <1>3 DEF GetKey, sinceKeys, workerVars, Trusted, Up
  <2>2. ASSUME NEW w \in steady PROVE w \in Trusted /\ (IdOf[w] \in todo' \/ Listed(w)')
    <3>1. w \in Trusted /\ w \in Workers /\ (IdOf[w] \in todo \/ Listed(w))
      BY <2>1 DEF Trusted
    <3>2. CASE IdOf[w] = id
      <4>1. key[id] # None
        BY <3>1, <3>2, FreshExists
      <4>2. PICK v \in Workers : IdOf[v] = id /\ ModelOf[v] = key[id]
        BY <4>1 DEF KeyOwned, Owner
      <4> QED
        BY <2>1, <3>1, <3>2, <4>1, <4>2
    <3>3. CASE IdOf[w] # id
      BY <2>1, <3>1, <3>3
    <3> QED
      BY <3>2, <3>3
  <2> QED
    BY <2>1, <2>2
<1>4. CASE ListFails \/ Tick \/ UNCHANGED vars
  BY <1>4 DEF ListFails, Tick, vars, listVars, sinceKeys, workerVars, Trusted, Up
<1> QED
  BY <1>1, <1>2, <1>3, <1>4 DEF Next

-----------------------------------------------------------------------------
(* Theorems                                                                *)

\* The invariant holds in every reachable state.
THEOREM Invariance == Spec => []IInv
<1>1. Init => IInv
  BY InitInv
<1>2. IInv /\ [Next]_vars => IInv'
  BY TypeStep, FreshStep, OwnedStep, FoundStep, SteadyStep DEF IInv
<1> QED
  BY <1>1, <1>2, PTL DEF Spec

\* Every variable keeps its type; a key exists as long as its time runs.
THEOREM TypeCorrect == Spec => []TypeOK
<1>1. IInv => TypeOK
  BY DEF IInv
<1> QED
  BY <1>1, Invariance, PTL

\* heartbeat_loop with a TTL of three intervals survives one failed SET: a worker
\* that is up and has missed at most one beat in a row has its key in Redis.
THEOREM FailureTolerated == Spec => []OneFailureTolerated
<1>1. IInv => OneFailureTolerated
  BY FreshExists DEF IInv, OneFailureTolerated
<1> QED
  BY <1>1, Invariance, PTL

\* get_active_models lists no model whose workers were all down, at its KEYS, for
\* longer than the TTL and the time a command takes, unless a SET of one of them
\* that TCP had held up arrived since.
THEOREM CatalogueIsRecent == Spec => []ListedWasServed
<1>1. IInv => ListedWasServed
  BY DEF IInv, ListedWasServed, FoundServed
<1> QED
  BY <1>1, Invariance, PTL

\* get_active_models misses no model of a worker that was up and beating all the
\* while, whatever the other keys do between KEYS and GET.
THEOREM CatalogueIsComplete == Spec => []SteadyIsListed
<1>1. IInv => SteadyIsListed
  BY DEF IInv, SteadyIsListed, SteadyFound, Listed
<1> QED
  BY <1>1, Invariance, PTL
=============================================================================
