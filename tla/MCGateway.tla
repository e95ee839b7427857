----------------------------- MODULE MCGateway -----------------------------
(* Small instances of Gateway for TLC. *)
EXTENDS Gateway

AllRoutes == {"chat", "tasks", "poll", "models", "health"}
OnlyChats == {"chat"}
=============================================================================
