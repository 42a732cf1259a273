---- MODULE MCOverlap ----
(***************************************************************************)
(* Overlap.tla on a small instance.  As in MCBackend.tla the worker        *)
(* threads are interchangeable.                                            *)
(***************************************************************************)
EXTENDS Overlap, TLC

ThreadSymmetry == Permutations(Threads)
====
