---------------------------- MODULE TaskDelivery ----------------------------
(***************************************************************************)
(* What the task queue promises, without lists, workers or reapers.        *)
(*                                                                         *)
(* A submitted task waits, is held by a worker, and goes back to waiting   *)
(* whenever its holder is given up.  It is gone only after a worker has    *)
(* run it, and then it never comes back.  The one excuse is `wild': a      *)
(* live holder has been given up, after which a task may be finished by a  *)
(* worker that no longer holds it, or be dropped.                          *)
(*                                                                         *)
(* PRD 5.3 asks for delivery at least once and ARCHITECTURE 3.2 for the    *)
(* hand-over waiting -> held in one step; both are read off the code of    *)
(* shared/reliability.py and shared/redis_client.py that ReliableQueue     *)
(* translates.                                                             *)
(***************************************************************************)
CONSTANT Tasks

VARIABLES
  place,  \* place[t]: "new", "waiting", "held" or "gone"
  done,   \* tasks that a worker has run to the end
  wild    \* a holder that was alive has been given up

vars == <<place, done, wild>>

Init ==
  /\ place = [t \in Tasks |-> "new"]
  /\ done = {}
  /\ wild = FALSE

Submit(t) ==
  /\ place[t] = "new"
  /\ place' = [place EXCEPT ![t] = "waiting"]
  /\ UNCHANGED <<done, wild>>

Take(t) ==
  /\ place[t] = "waiting"
  /\ place' = [place EXCEPT ![t] = "held"]
  /\ UNCHANGED <<done, wild>>

\* The holder is given up.
Return(t) ==
  /\ place[t] = "held"
  /\ place' = [place EXCEPT ![t] = "waiting"]
  /\ UNCHANGED <<done, wild>>

Finish(t) ==
  /\ place[t] = "held" \/ wild
  /\ done' = done \cup {t}
  /\ UNCHANGED <<place, wild>>

Discharge(t) ==
  /\ place[t] = "held"
  /\ t \in done
  /\ place' = [place EXCEPT ![t] = "gone"]
  /\ UNCHANGED <<done, wild>>

GoWild ==
  /\ wild' = TRUE
  /\ UNCHANGED <<place, done>>

\* Held tasks dropped with the list they were in.
Drop(S) ==
  /\ wild
  /\ \A t \in S : place[t] = "held"
  /\ place' = [t \in Tasks |-> IF t \in S THEN "gone" ELSE place[t]]
  /\ UNCHANGED <<done, wild>>

Next ==
  \/ \E t \in Tasks : Submit(t) \/ Take(t) \/ Return(t) \/ Finish(t) \/ Discharge(t)
  \/ GoWild
  \/ \E S \in SUBSET Tasks : Drop(S)

Spec == Init /\ [][Next]_vars
=============================================================================
