---- MODULE MCCapture ----
(***************************************************************************)
(* Capture.tla on small instances.  The characteristics are alike, and no  *)
(* property names one.                                                     *)
(***************************************************************************)
EXTENDS Capture

CharSymmetry == Permutations(Chars)
====
