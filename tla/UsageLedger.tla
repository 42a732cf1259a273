---- MODULE UsageLedger ----
(***************************************************************************)
(* What the backend promises its operator, with no keys, no transactions   *)
(* and no worker threads: one append-only ledger of readings in which each *)
(* new reading of a device is newer than all of its earlier ones (a larger *)
(* sequence) and never smaller (a count at least as large).  Overlap.tla   *)
(* says which requests keep the backend from implementing it.              *)
(***************************************************************************)
EXTENDS Naturals

CONSTANTS Devices,    \* device_id values
          Sequences,  \* report sequence numbers
          Counts      \* values of the usage counter

VARIABLE ledger       \* the set of accepted readings

Readings == [device: Devices, sequence: Sequences, count: Counts]

\* x may follow everything the ledger holds for its device.
Continues(x) ==
    \A y \in ledger : y.device = x.device =>
                        y.sequence < x.sequence /\ y.count <= x.count

Init == ledger = {}

Accept(x) ==
    /\ Continues(x)
    /\ ledger' = ledger \cup {x}

Next == \E x \in Readings : Accept(x)

Spec == Init /\ [][Next]_ledger
====
