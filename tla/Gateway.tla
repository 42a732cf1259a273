---- MODULE Gateway ----
(***************************************************************************)
(* The Pi gateway (src/gateway): processes that share one SQLite file.     *)
(*                                                                         *)
(* `observe` and `proxy` are long-lived meters, one BLE address each.  A   *)
(* meter loads the counters once, then counts in RAM and writes its total  *)
(* back after every event (Pipeline.handle).  `report` is a short process: *)
(* it loads the counters, then the sequence, claims the next sequence on   *)
(* disk and posts one report per device; what the backend answers changes  *)
(* nothing here.  Every statement autocommits, so any other process may    *)
(* run, and this one may die, between two of them.                         *)
(***************************************************************************)
EXTENDS Naturals, FiniteSets

CONSTANTS Devices,      \* BLE addresses of metered peripherals
          Meters,       \* observe and proxy processes
          Watches,      \* the address each meter was started with
          Reporters,    \* report processes that may be alive at once
          MaxEvents,    \* bound: rows of the event log per device
          MaxSequence,  \* bound: batches claimed on disk
          MaxFaults     \* bound: faults that cost a meter an increment

ASSUME GatewayAssumption ==
    /\ Watches \in [Meters -> Devices]
    /\ MaxEvents \in Nat
    /\ MaxSequence \in Nat
    /\ MaxFaults \in Nat

\* Matcher.classify: an event name of events.yaml, or "unknown".
Kinds == {"matched", "unknown"}

VARIABLES logged,      \* events: rows of each kind per device
          counters,    \* counters.count per device; 0 when there is no row
          sequence,    \* meta['sequence']; 0 when there is no row
          meter,       \* what each meter process is doing
          live,        \* Counter in a meter's RAM, for the address it watches
          phase,       \* how far each report process has come
          snapshot,    \* the counters a report process loaded
          batch,       \* the sequence its batch carries
          unsent,      \* devices of the batch not yet posted
          sent,        \* history: every report that was ever posted
          faults       \* history: saves lost to an error or a crash, per device

disk == <<logged, counters, sequence>>
meters == <<meter, live>>
reporters == <<phase, snapshot, batch, unsent>>
vars == <<logged, counters, sequence, meter, live, phase, snapshot, batch,
          unsent, sent, faults>>

Rows(d) == logged[d]["matched"] + logged[d]["unknown"]

-----------------------------------------------------------------------------
(* Meters: cli.py cmd_observe, cmd_proxy and Pipeline.handle.               *)

\* Mutant: a restarted meter counts from zero.
StartMeterAtZero(m) ==
    /\ meter[m] = "down"
    /\ meter' = [meter EXCEPT ![m] = "waiting"]
    /\ UNCHANGED <<disk, live, reporters, sent, faults>>

\* _load: the counter in RAM starts from the stored count.
StartMeter(m) ==
    /\ meter[m] = "down"
    /\ meter' = [meter EXCEPT ![m] = "waiting"]
    /\ live' = [live EXCEPT ![m] = counters[Watches[m]]]
    /\ UNCHANGED <<disk, reporters, sent, faults>>

\* Mutant: an unknown write is counted too.
AppendEventUnsorted(m, kind) ==
    LET d == Watches[m] IN
    /\ meter[m] = "waiting"
    /\ Rows(d) < MaxEvents
    /\ logged' = [logged EXCEPT ![d][kind] = @ + 1]
    /\ meter' = [meter EXCEPT ![m] = "logged"]
    /\ UNCHANGED <<counters, sequence, live, reporters, sent, faults>>

\* A write is classified and appended to the log; an unknown one ends there.
AppendEvent(m, kind) ==
    LET d == Watches[m] IN
    /\ meter[m] = "waiting"
    /\ Rows(d) < MaxEvents
    /\ logged' = [logged EXCEPT ![d][kind] = @ + 1]
    /\ meter' = [meter EXCEPT ![m] = IF kind = "matched" THEN "logged" ELSE "waiting"]
    /\ UNCHANGED <<counters, sequence, live, reporters, sent, faults>>

\* Counter.increment, then save_counter: an upsert of the total in RAM, refused
\* by the trigger counters_no_rollback when the stored count is larger.
CountEvent(m) ==
    LET d == Watches[m] IN
    /\ meter[m] = "logged"
    /\ meter' = [meter EXCEPT ![m] = "waiting"]
    /\ live' = [live EXCEPT ![m] = @ + 1]
    /\ counters' = [counters EXCEPT ![d] = IF live[m] + 1 < @ THEN @ ELSE live[m] + 1]
    /\ UNCHANGED <<logged, sequence, reporters, sent, faults>>

\* save_counter raises (the database stays locked): RAM is ahead of the disk,
\* the caller logs the exception and the meter runs on.
SaveCounterFails(m) ==
    LET d == Watches[m] IN
    /\ meter[m] = "logged"
    /\ faults[d] < MaxFaults
    /\ meter' = [meter EXCEPT ![m] = "waiting"]
    /\ live' = [live EXCEPT ![m] = @ + 1]
    /\ faults' = [faults EXCEPT ![d] = @ + 1]
    /\ UNCHANGED <<disk, reporters, sent>>

\* A meter is stopped between two events.
StopMeter(m) ==
    /\ meter[m] = "waiting"
    /\ meter' = [meter EXCEPT ![m] = "down"]
    /\ live' = [live EXCEPT ![m] = 0]
    /\ UNCHANGED <<disk, reporters, sent, faults>>

\* A meter dies between append_event and save_counter.
CrashMeter(m) ==
    LET d == Watches[m] IN
    /\ meter[m] = "logged"
    /\ faults[d] < MaxFaults
    /\ meter' = [meter EXCEPT ![m] = "down"]
    /\ live' = [live EXCEPT ![m] = 0]
    /\ faults' = [faults EXCEPT ![d] = @ + 1]
    /\ UNCHANGED <<disk, reporters, sent>>

-----------------------------------------------------------------------------
(* Report processes: cli.py cmd_report, statement by statement.             *)

\* Mutant: the report is computed from the event log instead of the counters.
LoadCountersFromLog(p) ==
    /\ phase[p] = "idle"
    /\ phase' = [phase EXCEPT ![p] = "counters_loaded"]
    /\ snapshot' = [snapshot EXCEPT ![p] = [d \in Devices |-> logged[d]["matched"]]]
    /\ UNCHANGED <<disk, meters, batch, unsent, sent, faults>>

\* _load, first half: SELECT of the counters.
LoadCounters(p) ==
    /\ phase[p] = "idle"
    /\ phase' = [phase EXCEPT ![p] = "counters_loaded"]
    /\ snapshot' = [snapshot EXCEPT ![p] = counters]
    /\ UNCHANGED <<disk, meters, batch, unsent, sent, faults>>

\* Mutant: next_sequence is called for every report instead of every batch.
LoadSequencePerReport(p) ==
    /\ phase[p] = "counters_loaded"
    /\ sequence < MaxSequence
    /\ phase' = [phase EXCEPT ![p] = "sequence_loaded"]
    /\ batch' = [batch EXCEPT ![p] = sequence + Cardinality({d \in Devices : snapshot[p][d] > 0})]
    /\ UNCHANGED <<disk, meters, snapshot, unsent, sent, faults>>

\* _load, second half: SELECT of the sequence; next_sequence advances it in RAM.
LoadSequence(p) ==
    /\ phase[p] = "counters_loaded"
    /\ sequence < MaxSequence
    /\ phase' = [phase EXCEPT ![p] = "sequence_loaded"]
    /\ batch' = [batch EXCEPT ![p] = sequence + 1]
    /\ UNCHANGED <<disk, meters, snapshot, unsent, sent, faults>>

Idle(p) ==
    /\ phase' = [phase EXCEPT ![p] = "idle"]
    /\ snapshot' = [snapshot EXCEPT ![p] = [d \in Devices |-> 0]]
    /\ batch' = [batch EXCEPT ![p] = 0]
    /\ unsent' = [unsent EXCEPT ![p] = {}]

\* save_sequence reads the stored sequence first and raises on a rollback.
CheckSequence(p) ==
    /\ phase[p] = "sequence_loaded"
    /\ \/ /\ batch[p] < sequence
          /\ Idle(p)
       \/ /\ batch[p] >= sequence
          /\ phase' = [phase EXCEPT ![p] = "sequence_checked"]
          /\ UNCHANGED <<snapshot, batch, unsent>>
    /\ UNCHANGED <<disk, meters, sent, faults>>

\* Mutant: the sequence is left to be saved once the batch is through.
SaveSequenceLater(p) ==
    /\ phase[p] = "sequence_checked"
    /\ phase' = [phase EXCEPT ![p] = "posting"]
    /\ unsent' = [unsent EXCEPT ![p] = {d \in Devices : snapshot[p][d] > 0}]
    /\ UNCHANGED <<disk, meters, snapshot, batch, sent, faults>>

\* save_sequence's upsert claims the sequence; every device with a counter is due.
SaveSequence(p) ==
    /\ phase[p] = "sequence_checked"
    /\ phase' = [phase EXCEPT ![p] = "posting"]
    /\ sequence' = batch[p]
    /\ unsent' = [unsent EXCEPT ![p] = {d \in Devices : snapshot[p][d] > 0}]
    /\ UNCHANGED <<logged, counters, meters, snapshot, batch, sent, faults>>

\* Mutant: a report carries the increase since the last one, not the total.
ReportIncrease(p, d) ==
    [device |-> d, sequence |-> batch[p],
     count |-> Cardinality({n \in 1..snapshot[p][d] :
                              \A r \in sent : r.device = d => r.count < n})]

Report(p, d) == [device |-> d, sequence |-> batch[p], count |-> snapshot[p][d]]

\* reporter.post: at least one copy of the report leaves, whatever becomes of it.
PostReport(p, d) ==
    /\ phase[p] = "posting"
    /\ d \in unsent[p]
    /\ sent' = sent \cup {Report(p, d)}
    /\ unsent' = [unsent EXCEPT ![p] = @ \ {d}]
    /\ UNCHANGED <<disk, meters, phase, snapshot, batch, faults>>

\* The batch is done, or the process dies wherever it is: no key file to sign
\* with, a locked database, a kill.
EndReport(p) ==
    /\ phase[p] # "idle"
    /\ Idle(p)
    /\ UNCHANGED <<disk, meters, sent, faults>>

-----------------------------------------------------------------------------
Init ==
    /\ logged = [d \in Devices |-> [k \in Kinds |-> 0]]
    /\ counters = [d \in Devices |-> 0]
    /\ sequence = 0
    /\ meter = [m \in Meters |-> "down"]
    /\ live = [m \in Meters |-> 0]
    /\ phase = [p \in Reporters |-> "idle"]
    /\ snapshot = [p \in Reporters |-> [d \in Devices |-> 0]]
    /\ batch = [p \in Reporters |-> 0]
    /\ unsent = [p \in Reporters |-> {}]
    /\ sent = {}
    /\ faults = [d \in Devices |-> 0]

MeterNext(m) ==
    \/ StartMeter(m)
    \/ \E kind \in Kinds : AppendEvent(m, kind)
    \/ CountEvent(m)
    \/ SaveCounterFails(m)
    \/ StopMeter(m)
    \/ CrashMeter(m)

ReporterNext(p) ==
    \/ LoadCounters(p)
    \/ LoadSequence(p)
    \/ CheckSequence(p)
    \/ SaveSequence(p)
    \/ \E d \in Devices : PostReport(p, d)
    \/ EndReport(p)

Next ==
    \/ \E m \in Meters : MeterNext(m)
    \/ \E p \in Reporters : ReporterNext(p)

Spec == Init /\ [][Next]_vars

-----------------------------------------------------------------------------
(* Properties.                                                              *)

Phases == {"idle", "counters_loaded", "sequence_loaded", "sequence_checked", "posting"}

\* Every variable has its type; only a batch whose sequence is saved has
\* reports left to post.
TypeOK ==
    /\ logged \in [Devices -> [Kinds -> Nat]]
    /\ counters \in [Devices -> Nat]
    /\ sequence \in 0..MaxSequence
    /\ meter \in [Meters -> {"down", "waiting", "logged"}]
    /\ live \in [Meters -> Nat]
    /\ phase \in [Reporters -> Phases]
    /\ snapshot \in [Reporters -> [Devices -> Nat]]
    /\ batch \in [Reporters -> 0..MaxSequence]
    /\ unsent \in [Reporters -> SUBSET Devices]
    /\ sent \subseteq [device: Devices, sequence: 1..MaxSequence, count: Nat]
    /\ faults \in [Devices -> Nat]

\* Increments under way: logged by a meter that has yet to count them.
Pending(d) == {m \in Meters : Watches[m] = d /\ meter[m] = "logged"}

\* Nothing is counted that the append-only log cannot show, on disk or in the
\* RAM of any meter, however many meters watch one device (Pipeline.handle).
NoCountWithoutEvidence ==
    \A d \in Devices :
        /\ counters[d] <= logged[d]["matched"]
        /\ \A m \in Meters : Watches[m] = d => live[m] <= logged[d]["matched"]

\* One meter at most watches the device.
SoleMeter(d) == \A m, n \in Meters : Watches[m] = d /\ Watches[n] = d => m = n

\* The count of a device with one meter falls behind the log by at most one for
\* each failed save or crash in mid-event, whatever the other meters of the
\* database do ("a miscount is a bug", README.md, but cli.py commits twice).
AtMostOneLostPerFault ==
    \A d \in Devices : SoleMeter(d) =>
        logged[d]["matched"] <= counters[d] + faults[d] + Cardinality(Pending(d))

\* No process lowers a stored count, whatever total its RAM holds (the trigger
\* counters_no_rollback against a meter that started earlier).
CountersNeverDecrease ==
    [][\A d \in Devices : counters[d] <= counters'[d]]_vars

\* A sequence is on disk before any report carries it, so that a crash in
\* mid-batch cannot give it to a later batch (cmd_report).
SequenceDurableBeforeSent == \A r \in sent : r.sequence <= sequence

\* No report claims more than the disk holds: a snapshot may be old, never ahead.
ReportsAreDurableCounts == \A r \in sent : r.count <= counters[r.device]

\* A batch starts posting only under a sequence larger than all those ever sent
\* ("Never reused", counter.py next_sequence).
SequenceNeverReused ==
    [][\A p \in Reporters : phase[p] = "sequence_checked" /\ phase'[p] = "posting" =>
          \A r \in sent : r.sequence < batch[p]]_vars

\* Honest reports never look rolled back to check_count_monotonic: a later
\* sequence never carries a smaller count.
ReportsKeepRising ==
    \A x, y \in sent : x.device = y.device /\ x.sequence < y.sequence => x.count <= y.count

-----------------------------------------------------------------------------
(* Refinement: with one report process at a time, what the gateway sends is *)
(* a ledger, the same one the backend keeps.                                *)

Ledger == INSTANCE UsageLedger WITH
            Sequences <- 1..MaxSequence, Counts <- 1..MaxEvents, ledger <- sent

ImplementsLedger == Ledger!Spec
====
