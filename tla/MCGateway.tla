---- MODULE MCGateway ----
(***************************************************************************)
(* Gateway.tla on small instances.  Which meter watches which device is a  *)
(* definition here, because a .cfg file cannot write a function; a .cfg    *)
(* picks one by substituting it for Watches.                               *)
(***************************************************************************)
EXTENDS Gateway, TLC

CONSTANTS d1, d2, m1, m2, m3

\* Two meters on one device, the first left running when the second was started,
\* and a device with a meter of its own.
TwoMetersAndOne == (m1 :> d1) @@ (m2 :> d1) @@ (m3 :> d2)
====
