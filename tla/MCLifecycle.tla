------------------------------ MODULE MCLifecycle ------------------------------
(***************************************************************************)
(* Lifecycle on small instances: one application contended by three         *)
(* requests, or by two for liveness.                                        *)
(***************************************************************************)
EXTENDS Lifecycle, TLC

\* Requests are interchangeable; an instance row is identified by its creator
RequestSymmetry == Permutations(Requests)
=============================================================================
