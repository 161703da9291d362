---------------------------- MODULE MCSagaActor -----------------------------
(* SagaActor on small instances. *)
EXTENDS SagaActor, TLC

CONSTANTS w1, w2, s1, a1

\* The two callers of transition are interchangeable.
WorkerSymmetry == Permutations({w1, w2})
=============================================================================
