---- MODULE MCReassembly ----
(***************************************************************************)
(* Reassembly.tla on small instances.  No property orders the attribute or *)
(* the connection handles, so their permutations are a symmetry of the     *)
(* safety runs.                                                            *)
(***************************************************************************)
EXTENDS Reassembly, TLC

HandleSymmetry == Permutations(Connections) \cup Permutations(Attributes)
====
