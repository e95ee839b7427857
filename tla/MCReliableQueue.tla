-------------------------- MODULE MCReliableQueue --------------------------
(* Small instances of ReliableQueue for TLC. *)
EXTENDS ReliableQueue, TLC

CONSTANTS m1, m2, id1

\* One model for everything, or the second task and the second worker on m2.
OneModel(S) == [x \in S |-> m1]
TwoModels(S) ==
  LET first == CHOOSE x \in S : TRUE IN [x \in S |-> IF x = first THEN m1 ELSE m2]

TasksOnOne   == OneModel(Tasks)
WorkersOnOne == OneModel(Workers)
TasksOnTwo   == TwoModels(Tasks)
WorkersOnTwo == TwoModels(Workers)

\* Every worker its own id (the cfg makes Ids the set Workers), or one for all.
OwnId    == [w \in Workers |-> w]
SharedId == [w \in Workers |-> id1]

NoKeys == {}
\* The name of model m2 has a ':' in it.
ColonInM2 == {k \in Keys : k[1] = m2}
\* The id of one worker has.
ColonInOneId == {k \in Keys : k[2] = CHOOSE w \in Workers : TRUE}

\* Tasks of one model are interchangeable.
TaskSymmetry ==
  Permutations({t \in Tasks : TasksOnTwo[t] = m2}) \cup Permutations(Reapers)

Symmetry == Permutations(Tasks) \cup Permutations(Workers) \cup Permutations(Reapers)
=============================================================================
