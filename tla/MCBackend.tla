---- MODULE MCBackend ----
(***************************************************************************)
(* Backend.tla on small instances.  The worker threads are interchangeable *)
(* and no property names one, so their permutations are a symmetry of the  *)
(* safety runs; devices and keys are kept apart by the .cfg files.         *)
(***************************************************************************)
EXTENDS Backend, TLC

ThreadSymmetry == Permutations(Threads)
====
