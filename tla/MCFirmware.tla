---- MODULE MCFirmware ----
(***************************************************************************)
(* Firmware.tla on small instances: which ids share an NVS key is a        *)
(* definition here, and a .cfg picks one for CounterKey.                   *)
(***************************************************************************)
EXTENDS Firmware, TLC

CONSTANTS p1, p2, unit

\* One appliance and a configured id that is not its address.
UnitAndPeer == (unit :> "k0") @@ (p1 :> "k1")

\* Two appliances, one of them the configured id.
TwoPeers == (p1 :> "k1") @@ (p2 :> "k2")
====
