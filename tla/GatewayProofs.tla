---- MODULE GatewayProofs ----
(***************************************************************************)
(* Theorems about Gateway.tla for every set of devices, meters and report  *)
(* processes and every bound.  Those that need a device with one meter     *)
(* (SoleMeter) or one report process at a time (OneReporter) say so.       *)
(***************************************************************************)
EXTENDS Gateway, FiniteSetTheorems, TLAPS

-----------------------------------------------------------------------------
(* Types.                                                                   *)

\* A batch that has taken a number has a positive one.
BatchNumbered ==
    \A p \in Reporters :
        phase[p] \in {"sequence_loaded", "sequence_checked", "posting"} => batch[p] >= 1

TypeInv == TypeOK /\ BatchNumbered

\* Each action keeps the types.
LEMMA TypeStep == TypeInv /\ [Next]_vars => TypeInv'
<1> SUFFICES ASSUME TypeInv, [Next]_vars PROVE TypeInv'
  OBVIOUS
<1> USE GatewayAssumption
        DEF TypeInv, TypeOK, BatchNumbered, disk, meters, reporters, Kinds, Phases
<1>1. ASSUME NEW m \in Meters, StartMeter(m) PROVE TypeInv'
  BY <1>1 DEF StartMeter
<1>2. ASSUME NEW m \in Meters, NEW kind \in Kinds, AppendEvent(m, kind) PROVE TypeInv'
  BY <1>2 DEF AppendEvent
<1>3. ASSUME NEW m \in Meters, CountEvent(m) PROVE TypeInv'
  BY <1>3 DEF CountEvent
<1>4. ASSUME NEW m \in Meters, SaveCounterFails(m) PROVE TypeInv'
  BY <1>4 DEF SaveCounterFails
<1>5. ASSUME NEW m \in Meters, StopMeter(m) PROVE TypeInv'
  BY <1>5 DEF StopMeter
<1>6. ASSUME NEW m \in Meters, CrashMeter(m) PROVE TypeInv'
  BY <1>6 DEF CrashMeter
<1>7. ASSUME NEW p \in Reporters, LoadCounters(p) PROVE TypeInv'
  BY <1>7 DEF LoadCounters
<1>8. ASSUME NEW p \in Reporters, LoadSequence(p) PROVE TypeInv'
  BY <1>8 DEF LoadSequence
<1>9. ASSUME NEW p \in Reporters, CheckSequence(p) PROVE TypeInv'
  <2>1. CASE Idle(p)
    BY <1>9, <2>1 DEF CheckSequence, Idle
  <2>2. CASE UNCHANGED <<snapshot, batch, unsent>>
    BY <1>9, <2>2 DEF CheckSequence, Idle
  <2> QED BY <1>9, <2>1, <2>2 DEF CheckSequence
<1>10. ASSUME NEW p \in Reporters, SaveSequence(p) PROVE TypeInv'
  BY <1>10 DEF SaveSequence
<1>11. ASSUME NEW p \in Reporters, NEW d \in Devices, PostReport(p, d) PROVE TypeInv'
  <2>1. batch[p] \in 1..MaxSequence
    BY <1>11 DEF PostReport
  <2>2. Report(p, d) \in [device: Devices, sequence: 1..MaxSequence, count: Nat]
    BY <2>1 DEF Report
  <2> QED BY <1>11, <2>2 DEF PostReport
<1>12. ASSUME NEW p \in Reporters, EndReport(p) PROVE TypeInv'
  BY <1>12 DEF EndReport, Idle
<1>13. CASE UNCHANGED vars
  BY <1>13 DEF vars
<1> QED
  BY <1>1, <1>2, <1>3, <1>4, <1>5, <1>6, <1>7, <1>8, <1>9, <1>10, <1>11, <1>12, <1>13
  DEF Next, MeterNext, ReporterNext

\* Types hold in every reachable state.
LEMMA TypeInvariant == Spec => []TypeInv
<1>1. Init => TypeInv
  BY GatewayAssumption DEF Init, TypeInv, TypeOK, BatchNumbered, Phases
<1> QED BY <1>1, TypeStep, PTL DEF Spec

\* Every variable keeps its type, and no batch is posted without a sequence.
THEOREM TypeCorrect == Spec => []TypeOK
BY TypeInvariant, PTL DEF TypeInv

-----------------------------------------------------------------------------
(* Counters.                                                                *)

\* The trigger counters_no_rollback holds against every meter.
LEMMA CountersStep ==
    ASSUME TypeInv, [Next]_vars, NEW d \in Devices
    PROVE  counters[d] <= counters'[d] /\ counters[d] \in Nat /\ counters'[d] \in Nat
<1> USE DEF TypeInv, TypeOK, disk
<1>1. counters[d] \in Nat /\ counters'[d] \in Nat
  BY TypeStep
<1>2. ASSUME NEW m \in Meters, CountEvent(m) PROVE counters[d] <= counters'[d]
  <2>1. live[m] + 1 \in Nat
    OBVIOUS
  <2>2. CASE d = Watches[m]
    BY <1>1, <1>2, <2>1, <2>2 DEF CountEvent
  <2>3. CASE d # Watches[m]
    BY <1>1, <1>2, <2>3 DEF CountEvent
  <2> QED BY <2>2, <2>3
<1>3. CASE UNCHANGED counters
  BY <1>1, <1>3
<1> QED
  BY <1>1, <1>2, <1>3
  DEF Next, MeterNext, ReporterNext, StartMeter, AppendEvent, SaveCounterFails, StopMeter,
      CrashMeter, LoadCounters, LoadSequence, CheckSequence, SaveSequence, PostReport,
      EndReport, vars

\* No stored count is ever lowered, whatever the processes hold in RAM.
THEOREM CountersMonotonic == Spec => CountersNeverDecrease
<1>1. TypeInv /\ [Next]_vars => [\A d \in Devices : counters[d] <= counters'[d]]_vars
  BY CountersStep
<1> QED BY <1>1, TypeInvariant, PTL DEF Spec, CountersNeverDecrease

\* Every increment a meter still owes has its own row in the log already.
EvidenceInv ==
    /\ NoCountWithoutEvidence
    /\ \A m \in Meters : meter[m] = "logged" => live[m] < logged[Watches[m]]["matched"]

\* EvidenceInv is inductive, given the types.
LEMMA EvidenceStep == TypeInv /\ EvidenceInv /\ [Next]_vars => EvidenceInv'
<1> SUFFICES ASSUME TypeInv, EvidenceInv, [Next]_vars PROVE EvidenceInv'
  OBVIOUS
<1> USE GatewayAssumption
        DEF TypeInv, TypeOK, EvidenceInv, NoCountWithoutEvidence, disk, meters, Kinds
<1>1. ASSUME NEW m \in Meters, StartMeter(m) PROVE EvidenceInv'
  BY <1>1 DEF StartMeter
<1>2. ASSUME NEW m \in Meters, NEW kind \in Kinds, AppendEvent(m, kind) PROVE EvidenceInv'
  <2>1. \A d \in Devices :
           /\ logged[d]["matched"] \in Nat /\ logged'[d]["matched"] \in Nat
           /\ logged[d]["matched"] <= logged'[d]["matched"]
    BY <1>2 DEF AppendEvent
  <2>2. kind = "matched" =>
           logged'[Watches[m]]["matched"] = logged[Watches[m]]["matched"] + 1
    BY <1>2 DEF AppendEvent
  <2>3. \A n \in Meters : Watches[n] \in Devices /\ live[n] \in Nat
    OBVIOUS
  <2>4. \A n \in Meters : meter'[n] = "logged" =>
           meter[n] = "logged" \/ (n = m /\ kind = "matched")
    BY <1>2 DEF AppendEvent
  <2>5. counters' = counters /\ live' = live
    BY <1>2 DEF AppendEvent
  <2> QED BY <2>1, <2>2, <2>3, <2>4, <2>5
<1>3. ASSUME NEW m \in Meters, CountEvent(m) PROVE EvidenceInv'
  <2>1. live[m] + 1 <= logged[Watches[m]]["matched"] /\ live[m] \in Nat
        /\ logged[Watches[m]]["matched"] \in Nat
    BY <1>3 DEF CountEvent
  <2>2. \A d \in Devices : counters'[d] \in {counters[d], live[m] + 1}
                            /\ (counters'[d] # counters[d] => d = Watches[m])
    BY <1>3 DEF CountEvent
  <2>3. \A n \in Meters : live'[n] = IF n = m THEN live[m] + 1 ELSE live[n]
    BY <1>3 DEF CountEvent
  <2>4. \A n \in Meters : meter'[n] = "logged" => n # m /\ meter[n] = "logged"
    BY <1>3 DEF CountEvent
  <2>5. logged' = logged
    BY <1>3 DEF CountEvent
  <2> QED BY <2>1, <2>2, <2>3, <2>4, <2>5
<1>4. ASSUME NEW m \in Meters, SaveCounterFails(m) PROVE EvidenceInv'
  <2>1. live[m] + 1 <= logged[Watches[m]]["matched"] /\ live[m] \in Nat
        /\ logged[Watches[m]]["matched"] \in Nat
    BY <1>4 DEF SaveCounterFails
  <2>2. \A n \in Meters : live'[n] = IF n = m THEN live[m] + 1 ELSE live[n]
    BY <1>4 DEF SaveCounterFails
  <2>3. \A n \in Meters : meter'[n] = "logged" => n # m /\ meter[n] = "logged"
    BY <1>4 DEF SaveCounterFails
  <2>4. logged' = logged /\ counters' = counters
    BY <1>4 DEF SaveCounterFails
  <2> QED BY <2>1, <2>2, <2>3, <2>4
<1>5. ASSUME NEW m \in Meters, StopMeter(m) \/ CrashMeter(m) PROVE EvidenceInv'
  <2>1. \A n \in Meters : live'[n] = IF n = m THEN 0 ELSE live[n]
    BY <1>5 DEF StopMeter, CrashMeter
  <2>2. \A n \in Meters : meter'[n] = "logged" => n # m /\ meter[n] = "logged"
    BY <1>5 DEF StopMeter, CrashMeter
  <2>3. logged' = logged /\ counters' = counters
    BY <1>5 DEF StopMeter, CrashMeter
  <2>4. \A d \in Devices : logged[d]["matched"] >= 0
    OBVIOUS
  <2> QED BY <2>1, <2>2, <2>3, <2>4
<1>6. CASE UNCHANGED <<logged, counters, meter, live>>
  BY <1>6
<1> QED
  BY <1>1, <1>2, <1>3, <1>4, <1>5, <1>6
  DEF Next, MeterNext, ReporterNext, LoadCounters, LoadSequence, CheckSequence,
      SaveSequence, PostReport, EndReport, vars

\* EvidenceInv holds in every reachable state.
LEMMA EvidenceInvariant == Spec => []EvidenceInv
<1>1. Init => EvidenceInv
  BY GatewayAssumption DEF Init, EvidenceInv, NoCountWithoutEvidence, Kinds
<1> QED BY <1>1, EvidenceStep, TypeInvariant, PTL DEF Spec

\* However many meters watch a device, start, crash and fail, no stored or live
\* count exceeds the matched rows of the append-only log.
THEOREM CountsHaveEvidence == Spec => []NoCountWithoutEvidence
BY EvidenceInvariant, PTL DEF EvidenceInv

-----------------------------------------------------------------------------
(* Devices with one meter.                                                  *)

\* A running meter is never behind the disk; the log is ahead of the disk by the
\* faults and, while its meter is in mid-event, one more.
LossInv ==
    /\ \A m \in Meters : SoleMeter(Watches[m]) =>
          /\ meter[m] # "down" => counters[Watches[m]] <= live[m]
          /\ meter[m] = "logged" =>
                logged[Watches[m]]["matched"] <= counters[Watches[m]] + faults[Watches[m]] + 1
    /\ \A d \in Devices :
          SoleMeter(d) /\ (\A m \in Meters : Watches[m] = d => meter[m] # "logged") =>
                logged[d]["matched"] <= counters[d] + faults[d]

\* LossInv is inductive, given the types.
LEMMA LossStep == TypeInv /\ LossInv /\ [Next]_vars => LossInv'
<1> SUFFICES ASSUME TypeInv, LossInv, [Next]_vars PROVE LossInv'
  OBVIOUS
<1> USE DEF LossInv, SoleMeter
<1>0. /\ \A m \in Meters : Watches[m] \in Devices /\ live[m] \in Nat
      /\ \A d \in Devices : /\ counters[d] \in Nat /\ faults[d] \in Nat
                            /\ logged[d]["matched"] \in Nat
  BY GatewayAssumption DEF TypeInv, TypeOK, Kinds
<1>1. ASSUME NEW m \in Meters, StartMeter(m) PROVE LossInv'
  <2>1. \A n \in Meters : /\ meter'[n] = IF n = m THEN "waiting" ELSE meter[n]
                          /\ live'[n] = IF n = m THEN counters[Watches[m]] ELSE live[n]
    BY <1>1, GatewayAssumption DEF StartMeter, TypeInv, TypeOK, disk, meters, Kinds
  <2>2. meter[m] = "down" /\ UNCHANGED <<logged, counters, faults>>
    BY <1>1, GatewayAssumption DEF StartMeter, TypeInv, TypeOK, disk, meters, Kinds
  <2> QED BY <1>0, <2>1, <2>2
<1>2. ASSUME NEW m \in Meters, NEW kind \in Kinds, AppendEvent(m, kind) PROVE LossInv'
  <2>1. meter[m] = "waiting" /\ UNCHANGED <<counters, faults, live>>
    BY <1>2, GatewayAssumption DEF AppendEvent, TypeInv, TypeOK, disk, meters, Kinds
  <2>2. \A n \in Meters : meter'[n] = IF n # m THEN meter[n]
                                      ELSE IF kind = "matched" THEN "logged" ELSE "waiting"
    BY <1>2, GatewayAssumption DEF AppendEvent, TypeInv, TypeOK, disk, meters, Kinds
  <2>3. \A d \in Devices : logged'[d]["matched"] =
           IF d = Watches[m] /\ kind = "matched" THEN logged[d]["matched"] + 1
           ELSE logged[d]["matched"]
    BY <1>2, GatewayAssumption DEF AppendEvent, TypeInv, TypeOK, disk, meters, Kinds
  <2>4. SoleMeter(Watches[m]) => \A n \in Meters : Watches[n] = Watches[m] => meter[n] # "logged"
    BY <2>1
  <2> QED BY <1>0, <2>1, <2>2, <2>3, <2>4
<1>3. ASSUME NEW m \in Meters, CountEvent(m) PROVE LossInv'
  <2>1. meter[m] = "logged" /\ UNCHANGED <<logged, faults>>
    BY <1>3, GatewayAssumption DEF CountEvent, TypeInv, TypeOK, disk, meters, Kinds
  <2>2. \A n \in Meters : /\ meter'[n] = IF n = m THEN "waiting" ELSE meter[n]
                          /\ live'[n] = IF n = m THEN live[m] + 1 ELSE live[n]
    BY <1>3, GatewayAssumption DEF CountEvent, TypeInv, TypeOK, disk, meters, Kinds
  <2>3. \A d \in Devices : counters'[d] =
           IF d # Watches[m] \/ live[m] + 1 < counters[d] THEN counters[d] ELSE live[m] + 1
    BY <1>0, <1>3, <2>1, GatewayAssumption DEF CountEvent, TypeInv, TypeOK, disk, meters, Kinds
  <2>4. SoleMeter(Watches[m]) => counters'[Watches[m]] = live[m] + 1
    BY <1>0, <2>1, <2>3
  <2>5. \A d \in Devices : d # Watches[m] => counters'[d] = counters[d]
    BY <2>3
  <2> QED BY <1>0, <2>1, <2>2, <2>4, <2>5
<1>4. ASSUME NEW m \in Meters, SaveCounterFails(m) PROVE LossInv'
  <2>1. meter[m] = "logged" /\ UNCHANGED <<logged, counters>>
    BY <1>4, GatewayAssumption DEF SaveCounterFails, TypeInv, TypeOK, disk, meters, Kinds
  <2>2. \A n \in Meters : /\ meter'[n] = IF n = m THEN "waiting" ELSE meter[n]
                          /\ live'[n] = IF n = m THEN live[m] + 1 ELSE live[n]
    BY <1>4, GatewayAssumption DEF SaveCounterFails, TypeInv, TypeOK, disk, meters, Kinds
  <2>3. \A d \in Devices : faults'[d] = IF d = Watches[m] THEN faults[d] + 1 ELSE faults[d]
    BY <1>4, GatewayAssumption DEF SaveCounterFails, TypeInv, TypeOK, disk, meters, Kinds
  <2> QED BY <1>0, <2>1, <2>2, <2>3
<1>5. ASSUME NEW m \in Meters, StopMeter(m) PROVE LossInv'
  <2>1. meter[m] = "waiting" /\ UNCHANGED <<logged, counters, faults>>
    BY <1>5, GatewayAssumption DEF StopMeter, TypeInv, TypeOK, disk, meters, Kinds
  <2>2. \A n \in Meters : /\ meter'[n] = IF n = m THEN "down" ELSE meter[n]
                          /\ n # m => live'[n] = live[n]
    BY <1>5, GatewayAssumption DEF StopMeter, TypeInv, TypeOK, disk, meters, Kinds
  <2> QED BY <1>0, <2>1, <2>2
<1>6. ASSUME NEW m \in Meters, CrashMeter(m) PROVE LossInv'
  <2>1. meter[m] = "logged" /\ UNCHANGED <<logged, counters>>
    BY <1>6, GatewayAssumption DEF CrashMeter, TypeInv, TypeOK, disk, meters, Kinds
  <2>2. \A n \in Meters : /\ meter'[n] = IF n = m THEN "down" ELSE meter[n]
                          /\ n # m => live'[n] = live[n]
    BY <1>6, GatewayAssumption DEF CrashMeter, TypeInv, TypeOK, disk, meters, Kinds
  <2>3. \A d \in Devices : faults'[d] = IF d = Watches[m] THEN faults[d] + 1 ELSE faults[d]
    BY <1>6, GatewayAssumption DEF CrashMeter, TypeInv, TypeOK, disk, meters, Kinds
  <2> QED BY <1>0, <2>1, <2>2, <2>3
<1>7. CASE UNCHANGED <<logged, counters, meter, live, faults>>
  BY <1>7
<1> QED
  BY <1>1, <1>2, <1>3, <1>4, <1>5, <1>6, <1>7
  DEF Next, MeterNext, ReporterNext, LoadCounters, LoadSequence, CheckSequence,
      SaveSequence, PostReport, EndReport, disk, meters, vars

\* Each failed save and each crash in mid-event costs a device that one meter
\* watches at most one count, whatever the other meters do.
THEOREM LossIsBounded == Spec => []AtMostOneLostPerFault
<1>1. Init => LossInv
  BY GatewayAssumption DEF Init, LossInv, Kinds
<1>2. TypeInv /\ LossInv => AtMostOneLostPerFault
  <2> SUFFICES ASSUME TypeInv, LossInv, NEW d \in Devices, SoleMeter(d)
               PROVE logged[d]["matched"] <= counters[d] + faults[d] + Cardinality(Pending(d))
    BY DEF AtMostOneLostPerFault
  <2>1. counters[d] \in Nat /\ faults[d] \in Nat /\ logged[d]["matched"] \in Nat
    BY DEF TypeInv, TypeOK, Kinds
  <2>2. CASE \E m \in Meters : Watches[m] = d /\ meter[m] = "logged"
    <3>1. PICK m \in Meters : Watches[m] = d /\ meter[m] = "logged"
      BY <2>2
    <3>2. Pending(d) = {m}
      BY <3>1 DEF Pending, SoleMeter
    <3>3. Cardinality(Pending(d)) = 1
      BY <3>2, FS_Singleton
    <3> QED BY <2>1, <3>1, <3>3 DEF LossInv
  <2>3. CASE \A m \in Meters : Watches[m] = d => meter[m] # "logged"
    <3>1. Pending(d) = {}
      BY <2>3 DEF Pending
    <3>2. Cardinality(Pending(d)) = 0
      BY <3>1, FS_EmptySet
    <3> QED BY <2>1, <2>3, <3>2 DEF LossInv
  <2> QED BY <2>2, <2>3
<1> QED BY <1>1, <1>2, LossStep, TypeInvariant, PTL DEF Spec

-----------------------------------------------------------------------------
(* Reports.                                                                 *)

\* A snapshot may be old but never ahead of the disk; only a batch that is being
\* posted has reports due, and only of counted devices.
SnapshotInv ==
    /\ \A p \in Reporters : \A d \in Devices : snapshot[p][d] <= counters[d]
    /\ \A p \in Reporters : \A d \in unsent[p] : phase[p] = "posting" /\ snapshot[p][d] >= 1
    /\ ReportsAreDurableCounts

\* SnapshotInv is inductive, given the types.
LEMMA SnapshotStep == TypeInv /\ SnapshotInv /\ [Next]_vars => SnapshotInv'
<1> SUFFICES ASSUME TypeInv, SnapshotInv, [Next]_vars PROVE SnapshotInv'
  OBVIOUS
<1> USE DEF SnapshotInv, ReportsAreDurableCounts
<1>1. \A d \in Devices :
         counters[d] <= counters'[d] /\ counters[d] \in Nat /\ counters'[d] \in Nat
  BY CountersStep
<1>2. \A p \in Reporters : \A d \in Devices : snapshot[p][d] \in Nat
  BY DEF TypeInv, TypeOK
<1>3. \A r \in sent : r.device \in Devices /\ r.count \in Nat
  BY DEF TypeInv, TypeOK
<1>4. \A p \in Reporters : unsent[p] \subseteq Devices
  BY DEF TypeInv, TypeOK
<1>5. CASE UNCHANGED <<phase, snapshot, unsent, sent>>
  BY <1>1, <1>2, <1>3, <1>5
<1>6. ASSUME NEW p \in Reporters, LoadCounters(p) PROVE SnapshotInv'
  <2>1. UNCHANGED <<counters, unsent, sent>> /\ unsent[p] = {}
    BY <1>6 DEF LoadCounters, disk
  <2>2. \A q \in Reporters : /\ snapshot'[q] = IF q = p THEN counters ELSE snapshot[q]
                             /\ q # p => phase'[q] = phase[q]
    BY <1>6 DEF LoadCounters, TypeInv, TypeOK
  <2> QED BY <1>1, <2>1, <2>2
<1>7. ASSUME NEW p \in Reporters, LoadSequence(p) PROVE SnapshotInv'
  <2>1. UNCHANGED <<counters, snapshot, unsent, sent>> /\ unsent[p] = {}
    BY <1>7 DEF LoadSequence, disk
  <2>2. \A q \in Reporters : q # p => phase'[q] = phase[q]
    BY <1>7 DEF LoadSequence, TypeInv, TypeOK
  <2> QED BY <1>1, <2>1, <2>2
<1>8. ASSUME NEW p \in Reporters, Idle(p), UNCHANGED <<counters, sent>> PROVE SnapshotInv'
  <2>1. \A q \in Reporters : /\ snapshot'[q] = IF q = p THEN [d \in Devices |-> 0]
                                               ELSE snapshot[q]
                             /\ unsent'[q] = IF q = p THEN {} ELSE unsent[q]
                             /\ q # p => phase'[q] = phase[q]
    BY <1>8 DEF Idle, TypeInv, TypeOK
  <2> QED BY <1>1, <1>8, <2>1
<1>9. ASSUME NEW p \in Reporters, CheckSequence(p) PROVE SnapshotInv'
  <2>1. CASE Idle(p)
    BY <1>8, <1>9, <2>1 DEF CheckSequence, disk
  <2>2. CASE phase' = [phase EXCEPT ![p] = "sequence_checked"]
             /\ UNCHANGED <<snapshot, batch, unsent>>
    <3>1. UNCHANGED <<counters, snapshot, unsent, sent>> /\ unsent[p] = {}
      BY <1>9, <2>2 DEF CheckSequence, disk
    <3>2. \A q \in Reporters : q # p => phase'[q] = phase[q]
      BY <2>2 DEF TypeInv, TypeOK
    <3> QED BY <1>1, <3>1, <3>2
  <2> QED BY <1>9, <2>1, <2>2 DEF CheckSequence
<1>10. ASSUME NEW p \in Reporters, SaveSequence(p) PROVE SnapshotInv'
  <2>1. UNCHANGED <<counters, snapshot, sent>>
    BY <1>10 DEF SaveSequence
  <2>2. \A q \in Reporters :
           /\ unsent'[q] = IF q = p THEN {d \in Devices : snapshot[p][d] > 0} ELSE unsent[q]
           /\ phase'[q] = IF q = p THEN "posting" ELSE phase[q]
    BY <1>10 DEF SaveSequence, TypeInv, TypeOK
  <2>3. ASSUME NEW q \in Reporters, NEW d \in unsent'[q]
        PROVE phase'[q] = "posting" /\ snapshot[q][d] >= 1
    <3>1. CASE q = p
      <4>1. unsent'[p] = {e \in Devices : snapshot[p][e] > 0}
        BY <2>2
      <4>2. d \in Devices /\ snapshot[p][d] > 0
        BY <2>3, <3>1, <4>1
      <4>3. snapshot[p][d] >= 1
        BY <1>2, <4>2
      <4> QED BY <2>2, <3>1, <4>3
    <3>2. CASE q # p
      BY <2>2, <2>3, <3>2
    <3> QED BY <3>1, <3>2
  <2> QED BY <2>1, <2>3
<1>11. ASSUME NEW p \in Reporters, NEW d \in Devices, PostReport(p, d) PROVE SnapshotInv'
  <2>1. UNCHANGED <<counters, snapshot, phase>> /\ sent' = sent \cup {Report(p, d)}
    BY <1>11 DEF PostReport, disk
  <2>2. \A q \in Reporters : unsent'[q] \subseteq unsent[q]
    BY <1>11 DEF PostReport, TypeInv, TypeOK
  <2>3. Report(p, d).count = snapshot[p][d] /\ Report(p, d).device = d
    BY DEF Report
  <2> QED BY <1>1, <1>3, <2>1, <2>2, <2>3
<1>12. ASSUME NEW p \in Reporters, EndReport(p) PROVE SnapshotInv'
  BY <1>8, <1>12 DEF EndReport, disk
<1> QED
  BY <1>5, <1>6, <1>7, <1>9, <1>10, <1>11, <1>12
  DEF Next, MeterNext, ReporterNext, StartMeter, AppendEvent, CountEvent, SaveCounterFails,
      StopMeter, CrashMeter, reporters, vars

\* SnapshotInv holds in every reachable state.
LEMMA SnapshotInvariant == Spec => []SnapshotInv
<1>1. Init => SnapshotInv
  BY DEF Init, SnapshotInv, ReportsAreDurableCounts
<1> QED BY <1>1, SnapshotStep, TypeInvariant, PTL DEF Spec

\* Whatever report processes overlap or die, none ever claims usage that the
\* gateway could lose again: every reported count is on disk.
THEOREM ReportsDurable == Spec => []ReportsAreDurableCounts
BY SnapshotInvariant, PTL DEF SnapshotInv

-----------------------------------------------------------------------------
(* One report process at a time.                                            *)

OneReporter == \A p, q \in Reporters : p = q

\* While p prepares a batch its snapshot covers all that was ever sent and its
\* sequence is the next one; while p posts, nothing due was sent under it yet.
BatchInv(p) ==
    /\ phase[p] # "idle" => \A r \in sent : r.count <= snapshot[p][r.device]
    /\ phase[p] \in {"sequence_loaded", "sequence_checked"} => batch[p] = sequence + 1
    /\ phase[p] = "posting" =>
          /\ batch[p] = sequence
          /\ \A r \in sent : r.device \in unsent[p] => r.sequence < batch[p]

SerialInv ==
    /\ SequenceDurableBeforeSent
    /\ ReportsKeepRising
    /\ \A p \in Reporters : BatchInv(p)

\* The report about to leave continues the ledger of those that left.
LEMMA ReportContinues ==
    ASSUME TypeInv, SerialInv, NEW p \in Reporters, NEW d \in Devices, PostReport(p, d)
    PROVE  \A r \in sent : r.device = d => r.sequence < batch[p] /\ r.count <= snapshot[p][d]
BY DEF SerialInv, BatchInv, PostReport

\* SerialInv is inductive when report processes do not overlap.
LEMMA SerialStep ==
    ASSUME OneReporter
    PROVE  TypeInv /\ SnapshotInv /\ SerialInv /\ [Next]_vars => SerialInv'
<1> SUFFICES ASSUME TypeInv, SnapshotInv, SerialInv, [Next]_vars PROVE SerialInv'
  OBVIOUS
<1> USE DEF SerialInv, BatchInv, SequenceDurableBeforeSent, ReportsKeepRising
<1>1. /\ \A r \in sent : r.device \in Devices /\ r.sequence \in Nat /\ r.count \in Nat
      /\ sequence \in Nat
      /\ \A p \in Reporters : batch[p] \in Nat /\ \A d \in Devices : snapshot[p][d] \in Nat
  BY GatewayAssumption DEF TypeInv, TypeOK
<1>2. CASE UNCHANGED <<sequence, phase, snapshot, batch, unsent, sent>>
  BY <1>2
<1>3. ASSUME NEW p \in Reporters, LoadCounters(p) PROVE SerialInv'
  <2>1. UNCHANGED <<sequence, sent>> /\ phase'[p] = "counters_loaded" /\ snapshot'[p] = counters
    BY <1>3 DEF LoadCounters, disk, TypeInv, TypeOK
  <2>2. \A r \in sent : r.count <= counters[r.device]
    BY DEF SnapshotInv, ReportsAreDurableCounts
  <2> QED BY <2>1, <2>2 DEF OneReporter
<1>4. ASSUME NEW p \in Reporters, LoadSequence(p) PROVE SerialInv'
  <2>1. /\ UNCHANGED <<sequence, sent, snapshot>> /\ phase[p] # "idle"
        /\ phase'[p] = "sequence_loaded" /\ batch'[p] = sequence + 1
    BY <1>4 DEF LoadSequence, disk, TypeInv, TypeOK
  <2> QED BY <2>1 DEF OneReporter
<1>5. ASSUME NEW p \in Reporters, Idle(p), UNCHANGED <<sequence, sent>> PROVE SerialInv'
  <2>1. phase'[p] = "idle"
    BY <1>5 DEF Idle, TypeInv, TypeOK
  <2> QED BY <1>5, <2>1 DEF OneReporter
<1>6. ASSUME NEW p \in Reporters, CheckSequence(p) PROVE SerialInv'
  <2>1. CASE Idle(p)
    BY <1>5, <1>6, <2>1 DEF CheckSequence, disk
  <2>2. CASE phase' = [phase EXCEPT ![p] = "sequence_checked"]
             /\ UNCHANGED <<snapshot, batch, unsent>>
    <3>1. /\ UNCHANGED <<sequence, sent, snapshot, batch>>
          /\ phase[p] = "sequence_loaded" /\ phase'[p] = "sequence_checked"
      BY <1>6, <2>2 DEF CheckSequence, disk, TypeInv, TypeOK
    <3> QED BY <3>1 DEF OneReporter
  <2> QED BY <1>6, <2>1, <2>2 DEF CheckSequence
<1>7. ASSUME NEW p \in Reporters, SaveSequence(p) PROVE SerialInv'
  <2>1. /\ UNCHANGED <<sent, snapshot, batch>>
        /\ phase[p] = "sequence_checked" /\ phase'[p] = "posting"
        /\ sequence' = batch[p]
    BY <1>7 DEF SaveSequence, TypeInv, TypeOK
  <2>2. batch[p] = sequence + 1
    BY <2>1
  <2> QED BY <1>1, <2>1, <2>2 DEF OneReporter
<1>8. ASSUME NEW p \in Reporters, NEW d \in Devices, PostReport(p, d) PROVE SerialInv'
  <2>1. /\ UNCHANGED <<sequence, phase, snapshot, batch>>
        /\ phase[p] = "posting" /\ unsent'[p] = unsent[p] \ {d}
        /\ sent' = sent \cup {Report(p, d)}
    BY <1>8 DEF PostReport, disk, TypeInv, TypeOK
  <2>2. /\ Report(p, d).device = d /\ Report(p, d).sequence = batch[p]
        /\ Report(p, d).count = snapshot[p][d]
    BY DEF Report
  <2>3. \A r \in sent : r.device = d => r.sequence < batch[p] /\ r.count <= snapshot[p][d]
    BY <1>8, ReportContinues
  <2>4. batch[p] = sequence
    BY <2>1
  <2>5. SequenceDurableBeforeSent'
    BY <1>1, <2>1, <2>2, <2>4
  <2>6. ReportsKeepRising'
    BY <1>1, <2>1, <2>2, <2>3
  <2>7. BatchInv(p)'
    BY <1>1, <2>1, <2>2, <2>4
  <2> QED BY <2>5, <2>6, <2>7 DEF OneReporter
<1>9. ASSUME NEW p \in Reporters, EndReport(p) PROVE SerialInv'
  BY <1>5, <1>9 DEF EndReport, disk
<1> QED
  BY <1>2, <1>3, <1>4, <1>6, <1>7, <1>8, <1>9
  DEF Next, MeterNext, ReporterNext, StartMeter, AppendEvent, CountEvent, SaveCounterFails,
      StopMeter, CrashMeter, disk, reporters, vars

\* SerialInv holds in every reachable state.
LEMMA SerialInvariant ==
    ASSUME OneReporter
    PROVE  Spec => [](TypeInv /\ SnapshotInv /\ SerialInv)
<1>1. Init => SerialInv
  BY DEF Init, SerialInv, BatchInv, SequenceDurableBeforeSent, ReportsKeepRising
<1> QED BY <1>1, SerialStep, SnapshotInvariant, TypeInvariant, PTL DEF Spec

\* No report leaves before its sequence is on disk, through any crash.
THEOREM SequenceDurable ==
    ASSUME OneReporter
    PROVE  Spec => []SequenceDurableBeforeSent
BY SerialInvariant, PTL DEF SerialInv

\* Honest reports never look like a counter that was rolled back.
THEOREM ReportsRise ==
    ASSUME OneReporter
    PROVE  Spec => []ReportsKeepRising
BY SerialInvariant, PTL DEF SerialInv

\* A batch never starts under a sequence that was sent before.
THEOREM SequencesFresh ==
    ASSUME OneReporter
    PROVE  Spec => SequenceNeverReused
<1>1. TypeInv /\ SnapshotInv /\ SerialInv /\ [Next]_vars =>
        [\A p \in Reporters : phase[p] = "sequence_checked" /\ phase'[p] = "posting" =>
            \A r \in sent : r.sequence < batch[p]]_vars
  <2> SUFFICES ASSUME TypeInv, SerialInv, NEW p \in Reporters,
                      phase[p] = "sequence_checked", NEW r \in sent
               PROVE r.sequence < batch[p]
    OBVIOUS
  <2>1. r.sequence \in Nat /\ sequence \in Nat
    BY GatewayAssumption DEF TypeInv, TypeOK
  <2>2. batch[p] = sequence + 1 /\ r.sequence <= sequence
    BY DEF SerialInv, BatchInv, SequenceDurableBeforeSent
  <2> QED BY <2>1, <2>2
<1> QED BY <1>1, SerialInvariant, PTL DEF Spec, SequenceNeverReused

\* The bound on the log bounds the counts that can be reported.
LEMMA LogBounded == Spec => [](\A d \in Devices : Rows(d) <= MaxEvents)
<1> DEFINE Bounded == \A d \in Devices : Rows(d) <= MaxEvents
<1>1. Init => Bounded
  BY GatewayAssumption DEF Init, Rows, Kinds
<1>2. TypeInv /\ Bounded /\ [Next]_vars => Bounded'
  <2> SUFFICES ASSUME TypeInv, Bounded, [Next]_vars, NEW d \in Devices
               PROVE Rows(d)' <= MaxEvents
    OBVIOUS
  <2>1. ASSUME NEW m \in Meters, NEW kind \in Kinds, AppendEvent(m, kind)
        PROVE Rows(d)' <= MaxEvents
    <3>1. /\ logged[d]["matched"] \in Nat /\ logged[d]["unknown"] \in Nat
          /\ Watches[m] \in Devices
      BY GatewayAssumption DEF TypeInv, TypeOK, Kinds
    <3>2. CASE d = Watches[m]
      <4>1. logged'[d] = [logged[d] EXCEPT ![kind] = @ + 1]
        BY <2>1, <3>2 DEF AppendEvent, TypeInv, TypeOK
      <4>2. Rows(d) < MaxEvents
        BY <2>1, <3>2 DEF AppendEvent
      <4>3. kind = "matched" \/ kind = "unknown"
        BY DEF Kinds
      <4>4. logged[d] \in [Kinds -> Nat]
        BY DEF TypeInv, TypeOK
      <4>5. logged'[d]["matched"] + logged'[d]["unknown"]
              = logged[d]["matched"] + logged[d]["unknown"] + 1
        BY <3>1, <4>1, <4>3, <4>4 DEF Kinds
      <4> QED BY <3>1, <4>2, <4>5, GatewayAssumption DEF Rows
    <3>3. CASE d # Watches[m]
      BY <2>1, <3>3 DEF AppendEvent, Rows, TypeInv, TypeOK
    <3> QED BY <3>2, <3>3
  <2>2. CASE UNCHANGED logged
    BY <2>2 DEF Rows
  <2> QED
    BY <2>1, <2>2
    DEF Next, MeterNext, ReporterNext, StartMeter, CountEvent, SaveCounterFails, StopMeter,
        CrashMeter, LoadCounters, LoadSequence, CheckSequence, SaveSequence, PostReport,
        EndReport, disk, vars
<1> QED BY <1>1, <1>2, TypeInvariant, PTL DEF Spec

\* What one gateway sends is a ledger: each report of a device is newer than, and
\* at least as large as, all its earlier ones, which is what the backend demands.
THEOREM GatewayImplementsLedger ==
    ASSUME OneReporter
    PROVE  Spec => ImplementsLedger
<1> DEFINE Bounded == \A d \in Devices : Rows(d) <= MaxEvents
<1>1. Init => Ledger!Init
  BY DEF Init, Ledger!Init
<1>2. /\ TypeInv /\ SnapshotInv /\ SerialInv /\ EvidenceInv /\ Bounded
      /\ [Next]_vars
      => [Ledger!Next]_sent
  <2> SUFFICES ASSUME TypeInv, SnapshotInv, SerialInv, EvidenceInv, Bounded, [Next]_vars
               PROVE Ledger!Next \/ sent' = sent
    OBVIOUS
  <2>1. ASSUME NEW p \in Reporters, NEW d \in Devices, PostReport(p, d) PROVE Ledger!Next
    <3>1. batch[p] \in 1..MaxSequence
      BY <2>1, GatewayAssumption DEF PostReport, TypeInv, TypeOK, BatchNumbered
    <3>2. snapshot[p][d] \in 1..MaxEvents
      <4>1. snapshot[p][d] >= 1 /\ snapshot[p][d] <= counters[d]
        BY <2>1 DEF PostReport, SnapshotInv
      <4>2. counters[d] <= logged[d]["matched"]
        BY DEF EvidenceInv, NoCountWithoutEvidence
      <4>3. logged[d]["matched"] + logged[d]["unknown"] <= MaxEvents
        BY DEF Rows
      <4>4. /\ snapshot[p][d] \in Nat /\ counters[d] \in Nat
            /\ logged[d]["matched"] \in Nat /\ logged[d]["unknown"] \in Nat
        BY DEF TypeInv, TypeOK, Kinds
      <4> QED BY <4>1, <4>2, <4>3, <4>4, GatewayAssumption
    <3>3. Report(p, d) \in Ledger!Readings
      BY <3>1, <3>2 DEF Report, Ledger!Readings
    <3>4. Ledger!Continues(Report(p, d))
      BY <2>1, ReportContinues DEF Ledger!Continues, Report
    <3> QED BY <2>1, <3>3, <3>4 DEF PostReport, Ledger!Next, Ledger!Accept
  <2> QED
    BY <2>1
    DEF Next, MeterNext, ReporterNext, StartMeter, AppendEvent, CountEvent, SaveCounterFails,
        StopMeter, CrashMeter, LoadCounters, LoadSequence, CheckSequence, SaveSequence,
        EndReport, vars
<1> QED
  BY <1>1, <1>2, SerialInvariant, EvidenceInvariant, LogBounded, PTL
  DEF Spec, ImplementsLedger, Ledger!Spec
====
