------------------------------ MODULE MCTtwu ------------------------------
(* No two CPUs share a cache.                                             *)
EXTENDS Ttwu

MCFar == [c \in Cpus |-> c]
=============================================================================
