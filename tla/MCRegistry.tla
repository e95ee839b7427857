----------------------------- MODULE MCRegistry -----------------------------
(* A small instance of Registry for TLC. *)
EXTENDS Registry, TLC

CONSTANTS w1, w2, m1, m2

\* The first worker serves m1, the others m2; every worker has its own id.
TwoModels == [w \in Workers |-> IF w = w1 THEN m1 ELSE m2]
OwnId     == [w \in Workers |-> w]

\* The workers may change places, if their models do so with them.
Symmetry ==
  {f \in Permutations({w1, w2, m1, m2}) :
     /\ f[w1] \in Workers /\ f[w2] \in Workers
     /\ \A w \in Workers : ModelOf[f[w]] = f[ModelOf[w]]}
=============================================================================
