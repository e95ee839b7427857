---------------------------- MODULE MCCompletion ----------------------------
(* Small instances of Completion for TLC. *)
EXTENDS Completion, TLC

CONSTANT q1

\* The first request is synchronous, the others are not.
OneSync  == [q \in Requests |-> IF q = q1 THEN "sync" ELSE "async"]
AllSync  == [q \in Requests |-> "sync"]
AllAsync == [q \in Requests |-> "async"]

Symmetry == Permutations(Workers)
=============================================================================
