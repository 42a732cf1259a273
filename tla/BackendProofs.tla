---- MODULE BackendProofs ----
(***************************************************************************)
(* Theorems about Backend.tla and Overlap.tla for every set of devices,    *)
(* keys, threads, sequences and counts.                                    *)
(***************************************************************************)
EXTENDS Overlap, FiniteSetTheorems, TLAPS

-----------------------------------------------------------------------------
(* The numbers are integers.                                                *)

\* What a report carries.
LEMMA ReportNumbers ==
    \A r \in Reports : r.device \in Devices /\ r.sequence \in Nat /\ r.count \in Nat
<1>1. Sequences \subseteq Nat /\ Counts \subseteq Nat
  BY BackendAssumption
<1> QED BY <1>1 DEF Reports

\* What the row of a device holds.
LEMMA MarkNumbers ==
    ASSUME TypeOK, NEW d \in Devices
    PROVE  lastSequence[d] \in Int /\ lastCount[d] \in Int
<1>1. (\A n \in Sequences : n \in Int) /\ (\A n \in Counts : n \in Int)
  BY BackendAssumption
<1>2. lastSequence[d] \in Sequences \/ lastSequence[d] = -1
  BY DEF TypeOK
<1>3. lastCount[d] \in Counts \/ lastCount[d] = 0
  BY DEF TypeOK
<1>4. lastSequence[d] \in Int
  BY <1>1, <1>2
<1>5. lastCount[d] \in Int
  BY <1>1, <1>3
<1> QED BY <1>4, <1>5

-----------------------------------------------------------------------------
(* The types.                                                               *)

\* Each action keeps the types.
LEMMA TypeStep == TypeOK /\ [Next]_vars => TypeOK'
<1> SUFFICES ASSUME TypeOK, [Next]_vars PROVE TypeOK'
  OBVIOUS
<1> USE BackendAssumption DEF TypeOK, tables, requests
<1>1. ASSUME NEW t \in Threads, NEW r \in Reports, PostReport(t, r) PROVE TypeOK'
  BY <1>1 DEF PostReport
<1>2. ASSUME NEW t \in Threads, StoreReport(t) PROVE TypeOK'
  <2>1. verified[t] \in Reports
    BY <1>2 DEF StoreReport
  <2>2. verified' \in [Threads -> Reports \cup {None}]
    BY <1>2 DEF StoreReport
  <2>3. CASE CommitReport(verified[t])
    BY <1>2, <2>1, <2>2, <2>3 DEF StoreReport, CommitReport, Reports
  <2>4. CASE UNCHANGED <<lastSequence, lastCount, rows>>
    BY <1>2, <2>2, <2>4 DEF StoreReport
  <2> QED BY <1>2, <2>3, <2>4 DEF StoreReport
<1>3. ASSUME NEW t \in Threads, StoreFails(t) PROVE TypeOK'
  BY <1>3 DEF StoreFails
<1>4. ASSUME NEW t \in Threads, NEW q \in Registrations, RegisterDevice(t, q) PROVE TypeOK'
  BY <1>4 DEF RegisterDevice, Registrations
<1>5. ASSUME NEW t \in Threads, InsertDevice(t) PROVE TypeOK'
  <2> DEFINE q == registering[t]
  <2>1. /\ q \in [device: Devices, key: Keys]
        /\ registering' \in [Threads -> [device: Devices, key: Keys] \cup {None}]
    BY <1>5 DEF InsertDevice
  <2>2. CASE publicKey[q.device] = "absent"
    BY <1>5, <2>1, <2>2 DEF InsertDevice
  <2>3. CASE publicKey[q.device] # "absent"
    BY <1>5, <2>1, <2>3 DEF InsertDevice
  <2> QED BY <2>2, <2>3
<1>6. ASSUME NEW t \in Threads, InsertFails(t) PROVE TypeOK'
  BY <1>6 DEF InsertFails
<1>7. ASSUME NEW t \in Threads, NEW d \in Devices, ReadMarks(t, d) PROVE TypeOK'
  BY <1>7 DEF ReadMarks, Marks
<1>8. ASSUME NEW t \in Threads, CountReports(t) PROVE TypeOK'
  BY <1>8 DEF CountReports
<1>9. ASSUME NEW d \in Devices, NEW k \in Keys \cup {"unusable"}, RotateKey(d, k) PROVE TypeOK'
  BY <1>9 DEF RotateKey
<1>10. CASE UNCHANGED vars
  BY <1>10 DEF vars
<1> QED BY <1>1, <1>2, <1>3, <1>4, <1>5, <1>6, <1>7, <1>8, <1>9, <1>10 DEF Next

\* Every variable keeps its type: a slot holds a request of its own kind or
\* None, and the marks of a device are values a report of it could carry.
THEOREM TypeCorrect == Spec => []TypeOK
<1>1. Init => TypeOK
  BY BackendAssumption DEF Init, TypeOK
<1> QED BY <1>1, TypeStep, PTL DEF Spec

-----------------------------------------------------------------------------
(* What a step does to the tables: one transaction commits, one row of      *)
(* devices is inserted, the operator rotates a key, or nothing changes.     *)

CommitStep(t) ==
    /\ verified[t] \in Reports
    /\ verified' = [verified EXCEPT ![t] = None]
    /\ ~ SequenceStored(verified[t])
    /\ CommitReport(verified[t])
    /\ UNCHANGED <<publicKey, authorised>>

InsertStep(q) ==
    /\ publicKey[q.device] = "absent"
    /\ publicKey' = [publicKey EXCEPT ![q.device] = q.key]
    /\ lastSequence' = [lastSequence EXCEPT ![q.device] = -1]
    /\ lastCount' = [lastCount EXCEPT ![q.device] = 0]
    /\ authorised' = [authorised EXCEPT ![q.device] = @ \cup {q.key}]
    /\ UNCHANGED rows

RotateStep(d, k) ==
    /\ publicKey[d] # "absent"
    /\ publicKey' = [publicKey EXCEPT ![d] = k]
    /\ authorised' = [authorised EXCEPT ![d] = @ \cup {k}]
    /\ UNCHANGED <<lastSequence, lastCount, rows>>

\* Every step of the backend is one of these four kinds.
LEMMA TableSteps ==
    ASSUME TypeOK, [Next]_vars
    PROVE  \/ \E t \in Threads : CommitStep(t)
           \/ \E q \in [device: Devices, key: Keys] : InsertStep(q)
           \/ \E d \in Devices, k \in Keys \cup {"unusable"} : RotateStep(d, k)
           \/ UNCHANGED tables
<1> USE DEF tables
<1>1. ASSUME NEW t \in Threads, StoreReport(t)
      PROVE CommitStep(t) \/ UNCHANGED tables
  <2>1. verified[t] \in Reports
    BY <1>1 DEF StoreReport, TypeOK
  <2> QED BY <1>1, <2>1 DEF StoreReport, CommitStep
<1>2. ASSUME NEW t \in Threads, InsertDevice(t)
      PROVE InsertStep(registering[t]) \/ UNCHANGED tables
  BY <1>2 DEF InsertDevice, InsertStep
<1>3. ASSUME NEW t \in Threads, InsertDevice(t)
      PROVE registering[t] \in [device: Devices, key: Keys]
  BY <1>3 DEF InsertDevice, TypeOK
<1>4. ASSUME NEW d \in Devices, NEW k \in Keys \cup {"unusable"}, RotateKey(d, k)
      PROVE RotateStep(d, k)
  BY <1>4 DEF RotateKey, RotateStep
<1>5. ASSUME NEW t \in Threads, NEW r \in Reports, PostReport(t, r) PROVE UNCHANGED tables
  BY <1>5 DEF PostReport
<1>6. ASSUME NEW t \in Threads, StoreFails(t) PROVE UNCHANGED tables
  BY <1>6 DEF StoreFails
<1>7. ASSUME NEW t \in Threads, NEW q \in Registrations, RegisterDevice(t, q)
      PROVE UNCHANGED tables
  BY <1>7 DEF RegisterDevice
<1>8. ASSUME NEW t \in Threads, InsertFails(t) PROVE UNCHANGED tables
  BY <1>8 DEF InsertFails
<1>9. ASSUME NEW t \in Threads, NEW d \in Devices, ReadMarks(t, d) PROVE UNCHANGED tables
  BY <1>9 DEF ReadMarks
<1>10. ASSUME NEW t \in Threads, CountReports(t) PROVE UNCHANGED tables
  BY <1>10 DEF CountReports
<1>11. CASE UNCHANGED vars
  BY <1>11 DEF vars
<1> QED
  BY <1>1, <1>2, <1>3, <1>4, <1>5, <1>6, <1>7, <1>8, <1>9, <1>10, <1>11 DEF Next

\* A slot of `verified` is only ever filled with a report that passes the gate.
LEMMA VerifiedSteps ==
    ASSUME TypeOK, [Next]_vars, NEW t \in Threads, verified'[t] # None
    PROVE  verified'[t] = verified[t] \/ VerifyReport(verified'[t]) = "ok"
<1>1. ASSUME NEW u \in Threads, NEW r \in Reports, PostReport(u, r)
      PROVE verified'[t] = verified[t] \/ VerifyReport(verified'[t]) = "ok"
  BY <1>1 DEF PostReport, TypeOK
<1>2. ASSUME NEW u \in Threads, StoreReport(u) \/ StoreFails(u)
      PROVE verified'[t] = verified[t]
  BY <1>2 DEF StoreReport, StoreFails, TypeOK
<1>3. ASSUME NEW u \in Threads,
             \/ \E q \in Registrations : RegisterDevice(u, q)
             \/ InsertDevice(u) \/ InsertFails(u)
             \/ \E d \in Devices : ReadMarks(u, d)
             \/ CountReports(u)
      PROVE verified'[t] = verified[t]
  BY <1>3 DEF RegisterDevice, InsertDevice, InsertFails, ReadMarks, CountReports
<1>4. ASSUME NEW d \in Devices, NEW k \in Keys \cup {"unusable"}, RotateKey(d, k)
      PROVE verified'[t] = verified[t]
  BY <1>4 DEF RotateKey, requests
<1>5. CASE UNCHANGED vars
  BY <1>5 DEF vars
<1> QED BY <1>1, <1>2, <1>3, <1>4, <1>5 DEF Next

-----------------------------------------------------------------------------
(* The table usage_reports.                                                 *)

\* UNIQUE (device_id, sequence) holds of the rows whatever races past the gate.
THEOREM SequencesUnique == Spec => []OneRowPerSequence
<1>1. Init => OneRowPerSequence
  BY DEF Init, OneRowPerSequence
<1>2. TypeOK /\ OneRowPerSequence /\ [Next]_vars => OneRowPerSequence'
  <2> SUFFICES ASSUME TypeOK, OneRowPerSequence, [Next]_vars PROVE OneRowPerSequence'
    OBVIOUS
  <2>1. ASSUME NEW t \in Threads, CommitStep(t) PROVE OneRowPerSequence'
    BY <2>1 DEF CommitStep, CommitReport, SequenceStored, RowsOf, OneRowPerSequence
  <2>2. CASE UNCHANGED rows
    BY <2>2 DEF OneRowPerSequence
  <2> QED BY <2>1, <2>2, TableSteps DEF InsertStep, RotateStep, tables
<1> QED BY <1>1, <1>2, TypeCorrect, PTL DEF Spec

\* No step drops or edits a row of usage_reports.
THEOREM HistoryAppendOnly == Spec => HistoryIsAppendOnly
<1>1. TypeOK /\ [Next]_vars => [rows \subseteq rows']_vars
  <2> SUFFICES ASSUME TypeOK, [Next]_vars PROVE rows \subseteq rows'
    OBVIOUS
  <2> QED BY TableSteps DEF CommitStep, CommitReport, InsertStep, RotateStep, tables
<1> QED BY <1>1, TypeCorrect, PTL DEF Spec, HistoryIsAppendOnly

\* Once a device has a row, no registration changes its key (register_device).
THEOREM NeverRekeyed == Spec => NeverRekeyedByRegistration
<1> DEFINE Action ==
        \A d \in Devices :
          publicKey[d] # "absent" /\ registering' # registering
             => publicKey'[d] = publicKey[d]
<1>1. TypeOK /\ [Next]_vars => Action
  <2> SUFFICES ASSUME TypeOK, [Next]_vars, NEW d \in Devices, publicKey[d] # "absent",
                      registering' # registering
               PROVE  publicKey'[d] = publicKey[d]
    OBVIOUS
  <2>1. ASSUME NEW e \in Devices, NEW k \in Keys \cup {"unusable"}, RotateKey(e, k) PROVE FALSE
    BY <2>1 DEF RotateKey, requests
  <2>2. ASSUME NEW t \in Threads, InsertDevice(t)
        PROVE  publicKey'[d] = publicKey[d]
    BY <2>2 DEF InsertDevice, TypeOK
  <2>3. ASSUME NEW t \in Threads, NEW q \in Registrations, RegisterDevice(t, q)
        PROVE  publicKey'[d] = publicKey[d]
    BY <2>3 DEF RegisterDevice, tables
  <2>4. ASSUME NEW t \in Threads, InsertFails(t)
        PROVE  publicKey'[d] = publicKey[d]
    BY <2>4 DEF InsertFails, tables
  <2>5. ASSUME NEW t \in Threads,
               \/ \E r \in Reports : PostReport(t, r)
               \/ StoreReport(t) \/ StoreFails(t)
               \/ \E e \in Devices : ReadMarks(t, e)
               \/ CountReports(t)
        PROVE  FALSE
    BY <2>5 DEF PostReport, StoreReport, StoreFails, ReadMarks, CountReports
  <2>6. CASE UNCHANGED vars
    BY <2>6 DEF vars
  <2> QED BY <2>1, <2>2, <2>3, <2>4, <2>5, <2>6 DEF Next
<1>2. TypeOK /\ [Next]_vars => [Action]_vars
  BY <1>1
<1> HIDE DEF Action
<1>3. Spec => [][Action]_vars
  BY <1>2, TypeCorrect, PTL DEF Spec
<1> QED BY <1>3 DEF Action, NeverRekeyedByRegistration

-----------------------------------------------------------------------------
(* The marks.                                                               *)

\* A device without a row in devices has no report, stored or under way; the
\* marks of a device are a stored report's, or the initial ones.
MarksInv ==
    /\ \A x \in rows : publicKey[x.device] # "absent"
    /\ \A t \in Threads : verified[t] # None => publicKey[verified[t].device] # "absent"
    /\ MarksNameAStoredReport

\* MarksInv is inductive, given the types.
LEMMA MarksStep == TypeOK /\ MarksInv /\ [Next]_vars => MarksInv'
<1> SUFFICES ASSUME TypeOK, MarksInv, [Next]_vars PROVE MarksInv'
  OBVIOUS
<1> USE DEF TypeOK
<1>1. \A d \in Devices : publicKey[d] # "absent" => publicKey'[d] # "absent"
  BY TableSteps, BackendAssumption DEF CommitStep, CommitReport, InsertStep, RotateStep, tables
<1>2. \A t \in Threads : verified'[t] # None => publicKey'[verified'[t].device] # "absent"
  <2> SUFFICES ASSUME NEW t \in Threads, verified'[t] # None
               PROVE publicKey'[verified'[t].device] # "absent"
    OBVIOUS
  <2>1. verified'[t] \in Reports
    BY TypeStep
  <2>2. publicKey[verified'[t].device] # "absent"
    BY VerifiedSteps DEF VerifyReport, MarksInv
  <2> QED BY <1>1, <2>1, <2>2 DEF Reports
<1>3. \A x \in rows' : publicKey'[x.device] # "absent"
  <2>1. \A x \in rows' : x \in rows \/ \E t \in Threads : verified[t] # None /\ x = verified[t]
    BY TableSteps, BackendAssumption DEF CommitStep, CommitReport, InsertStep, RotateStep, tables
  <2>2. \A x \in rows' : publicKey[x.device] # "absent" /\ x.device \in Devices
    BY <2>1 DEF MarksInv, Reports
  <2> QED BY <1>1, <2>2
<1>4. MarksNameAStoredReport'
  <2>1. ASSUME NEW t \in Threads, CommitStep(t) PROVE MarksNameAStoredReport'
    <3> SUFFICES ASSUME NEW d \in Devices
                 PROVE \/ lastSequence'[d] = -1 /\ lastCount'[d] = 0 /\ RowsOf(d)' = {}
                       \/ \E x \in RowsOf(d)' : /\ x.sequence = lastSequence'[d]
                                                /\ x.count = lastCount'[d]
      BY DEF MarksNameAStoredReport
    <3>1. CASE d = verified[t].device
      BY <2>1, <3>1 DEF CommitStep, CommitReport, RowsOf, Reports
    <3>2. CASE d # verified[t].device
      <4>1. /\ RowsOf(d)' = RowsOf(d)
            /\ lastSequence'[d] = lastSequence[d] /\ lastCount'[d] = lastCount[d]
        BY <2>1, <3>2 DEF CommitStep, CommitReport, RowsOf
      <4> QED BY <4>1 DEF MarksInv, MarksNameAStoredReport
    <3> QED BY <3>1, <3>2
  <2>2. ASSUME NEW q \in [device: Devices, key: Keys], InsertStep(q)
        PROVE MarksNameAStoredReport'
    <3> SUFFICES ASSUME NEW d \in Devices
                 PROVE \/ lastSequence'[d] = -1 /\ lastCount'[d] = 0 /\ RowsOf(d)' = {}
                       \/ \E x \in RowsOf(d)' : /\ x.sequence = lastSequence'[d]
                                                /\ x.count = lastCount'[d]
      BY DEF MarksNameAStoredReport
    <3>1. RowsOf(d)' = RowsOf(d)
      BY <2>2 DEF InsertStep, RowsOf
    <3>2. CASE d = q.device
      BY <2>2, <3>1, <3>2 DEF InsertStep, RowsOf, MarksInv
    <3>3. CASE d # q.device
      BY <2>2, <3>1, <3>3 DEF InsertStep, MarksInv, MarksNameAStoredReport
    <3> QED BY <3>2, <3>3
  <2>3. CASE UNCHANGED <<lastSequence, lastCount, rows>>
    BY <2>3 DEF MarksInv, MarksNameAStoredReport, RowsOf
  <2> QED BY <2>1, <2>2, <2>3, TableSteps DEF RotateStep, tables
<1> QED BY <1>2, <1>3, <1>4 DEF MarksInv

\* MarksInv holds in every reachable state.
LEMMA MarksInvariant == Spec => [](TypeOK /\ MarksInv)
<1>1. Init => MarksInv
  BY DEF Init, MarksInv, MarksNameAStoredReport, RowsOf
<1> QED BY <1>1, MarksStep, TypeCorrect, PTL DEF Spec

\* Rows and marks move together in every interleaving, failure and rotation.
THEOREM MarksNamed == Spec => []MarksNameAStoredReport
BY MarksInvariant, PTL DEF MarksInv

\* The backend never refuses an honest report that is newer than all it stored:
\* no race, failed request or lost answer wedges a device.
THEOREM NeverWedged == Spec => []FreshReportVerifies
<1>1. TypeOK /\ MarksInv => FreshReportVerifies
  <2> SUFFICES ASSUME TypeOK, MarksInv, NEW r \in Reports,
                      r.signature = publicKey[r.device],
                      \A x \in RowsOf(r.device) :
                         x.sequence < r.sequence /\ x.count <= r.count
               PROVE VerifyReport(r) = "ok"
    BY DEF FreshReportVerifies
  <2>1. r.device \in Devices /\ r.sequence \in Nat /\ r.count \in Nat
    BY ReportNumbers
  <2>2. CheckSignature(r) = "ok" /\ publicKey[r.device] # "absent"
    <3>1. publicKey[r.device] \in Keys
      BY <2>1 DEF TypeOK, Reports, Signatures
    <3> QED BY <3>1, BackendAssumption DEF CheckSignature
  <2>3. lastSequence[r.device] < r.sequence /\ lastCount[r.device] <= r.count
    BY <2>1 DEF MarksInv, MarksNameAStoredReport
  <2>4. lastSequence[r.device] \in Int /\ lastCount[r.device] \in Int
    BY <2>1, MarkNumbers
  <2> QED
    BY <2>1, <2>2, <2>3, <2>4 DEF VerifyReport, CheckSequence, CheckCountMonotonic
<1> QED BY <1>1, MarksInvariant, PTL

-----------------------------------------------------------------------------
(* The answers.                                                             *)

\* A refusal blames a stored report that exists; an acceptance names one.
RepliesInv ==
    /\ AcceptedIsStored
    /\ ReplayRefusalIsJustified
    /\ RollbackRefusalIsJustified

\* RepliesInv is inductive, given the types and the marks.
LEMMA RepliesStep == TypeOK /\ MarksInv /\ RepliesInv /\ [Next]_vars => RepliesInv'
<1> SUFFICES ASSUME TypeOK, MarksInv, RepliesInv, [Next]_vars PROVE RepliesInv'
  OBVIOUS
<1> USE DEF RepliesInv, AcceptedIsStored, ReplayRefusalIsJustified, RollbackRefusalIsJustified
<1>1. rows \subseteq rows'
  BY TableSteps DEF CommitStep, CommitReport, InsertStep, RotateStep, tables
<1>2. CASE reply' = reply
  BY <1>1, <1>2 DEF RowsOf
<1>3. CASE reply'.code \notin {"accepted", "replay_or_rollback_sequence", "count_rollback"}
  BY <1>3
<1>4. ASSUME NEW t \in Threads, NEW r \in Reports, PostReport(t, r) PROVE RepliesInv'
  <2>1. rows' = rows
    BY <1>4 DEF PostReport, tables
  <2>2. CASE reply' # reply
    <3>1. reply' = Answer(r, VerifyReport(r))
      BY <1>4, <2>2 DEF PostReport
    <3>2. r.device \in Devices /\ r.sequence \in Nat /\ r.count \in Nat
      BY ReportNumbers
    <3>3. CASE VerifyReport(r) = "replay_or_rollback_sequence"
      <4>1. r.sequence <= lastSequence[r.device]
        BY <3>3 DEF VerifyReport, CheckSignature, CheckSequence, CheckCountMonotonic
      <4> QED BY <2>1, <3>1, <3>2, <3>3, <4>1
              DEF Answer, MarksInv, MarksNameAStoredReport, RowsOf
    <3>4. CASE VerifyReport(r) = "count_rollback"
      <4>1. r.count < lastCount[r.device]
        BY <3>4 DEF VerifyReport, CheckSignature, CheckSequence, CheckCountMonotonic
      <4> QED BY <2>1, <3>1, <3>2, <3>4, <4>1
              DEF Answer, MarksInv, MarksNameAStoredReport, RowsOf
    <3>5. VerifyReport(r) # "accepted"
      BY DEF VerifyReport, CheckSignature, CheckSequence, CheckCountMonotonic
    <3> QED BY <1>3, <3>1, <3>3, <3>4, <3>5 DEF Answer
  <2> QED BY <1>2, <2>2
<1>5. ASSUME NEW t \in Threads, StoreReport(t) PROVE RepliesInv'
  <2>1. verified[t] \in Reports
    BY <1>5 DEF StoreReport, TypeOK
  <2>2. CASE reply' = Answer(verified[t], "accepted") /\ CommitReport(verified[t])
    BY <2>2 DEF Answer, CommitReport
  <2>3. CASE /\ reply' = Answer(verified[t], "replay_or_rollback_sequence")
             /\ SequenceStored(verified[t])
    <3>1. verified[t].sequence \in Nat
      BY <2>1, ReportNumbers
    <3> QED BY <1>1, <2>3, <3>1 DEF Answer, SequenceStored, RowsOf
  <2> QED BY <1>2, <1>5, <2>2, <2>3 DEF StoreReport
<1>6. ASSUME NEW t \in Threads, StoreFails(t) \/ InsertFails(t) PROVE RepliesInv'
  BY <1>2, <1>3, <1>6 DEF StoreFails, InsertFails, Answer
<1>7. ASSUME NEW t \in Threads, NEW q \in Registrations, RegisterDevice(t, q)
      PROVE RepliesInv'
  BY <1>2, <1>3, <1>7 DEF RegisterDevice, Answer
<1>8. ASSUME NEW t \in Threads, InsertDevice(t) PROVE RepliesInv'
  BY <1>2, <1>3, <1>8 DEF InsertDevice, Answer
<1>9. ASSUME NEW t \in Threads, NEW d \in Devices, ReadMarks(t, d) PROVE RepliesInv'
  BY <1>2, <1>3, <1>9 DEF ReadMarks, Answer
<1>10. ASSUME NEW t \in Threads, CountReports(t) PROVE RepliesInv'
  BY <1>3, <1>10 DEF CountReports, Answer
<1>11. ASSUME NEW d \in Devices, NEW k \in Keys \cup {"unusable"}, RotateKey(d, k)
       PROVE RepliesInv'
  BY <1>2, <1>11 DEF RotateKey
<1>12. CASE UNCHANGED vars
  BY <1>2, <1>12 DEF vars
<1> QED
  BY <1>4, <1>5, <1>6, <1>7, <1>8, <1>9, <1>10, <1>11, <1>12 DEF Next

\* RepliesInv holds in every reachable state.
LEMMA RepliesInvariant == Spec => []RepliesInv
<1>1. Init => RepliesInv
  BY DEF Init, RepliesInv, AcceptedIsStored, ReplayRefusalIsJustified,
         RollbackRefusalIsJustified
<1> QED BY <1>1, RepliesStep, MarksInvariant, PTL DEF Spec

\* A client told "accepted" owns a row, for good.
THEOREM AcceptedStored == Spec => []AcceptedIsStored
BY RepliesInvariant, PTL DEF RepliesInv

\* A replay refusal points at a stored sequence at least as late, also when it
\* comes from the UNIQUE constraint.
THEOREM ReplayRefusalsJustified == Spec => []ReplayRefusalIsJustified
BY RepliesInvariant, PTL DEF RepliesInv

\* A count_rollback refusal points at a larger stored count.
THEOREM RollbackRefusalsJustified == Spec => []RollbackRefusalIsJustified
BY RepliesInvariant, PTL DEF RepliesInv

\* What GET usage has read between its two statements, and what it answered, is a
\* stored report; there are finitely many of them to count.
UsageInv ==
    /\ IsFiniteSet(rows)
    /\ \A t \in Threads : reading[t] # None /\ reading[t].sequence # -1 =>
          \E x \in RowsOf(reading[t].device) :
              x.sequence = reading[t].sequence /\ x.count = reading[t].count
    /\ UsageIsBacked

\* UsageInv is inductive, given the types and the marks.
LEMMA UsageStep == TypeOK /\ MarksInv /\ UsageInv /\ [Next]_vars => UsageInv'
<1> SUFFICES ASSUME TypeOK, MarksInv, UsageInv, [Next]_vars PROVE UsageInv'
  OBVIOUS
<1>1. rows \subseteq rows' /\ IsFiniteSet(rows')
  BY TableSteps, FS_AddElement DEF UsageInv, CommitStep, CommitReport, InsertStep, RotateStep, tables
<1>2. ASSUME NEW t \in Threads, NEW d \in Devices, ReadMarks(t, d) PROVE UsageInv'
  <2>1. rows' = rows
    BY <1>2 DEF ReadMarks, tables
  <2>2. CASE /\ reply' = Answer([device |-> d], "unknown_device")
             /\ UNCHANGED reading
    BY <1>1, <2>1, <2>2 DEF UsageInv, UsageIsBacked, RowsOf, Answer
  <2>3. CASE /\ reading' = [reading EXCEPT ![t] = [device |-> d,
                               sequence |-> lastSequence[d], count |-> lastCount[d]]]
             /\ UNCHANGED reply
    <3>1. ASSUME NEW u \in Threads, reading'[u] # None, reading'[u].sequence # -1
          PROVE \E x \in rows' : /\ x.device = reading'[u].device
                                 /\ x.sequence = reading'[u].sequence
                                 /\ x.count = reading'[u].count
      <4>1. CASE u = t
        <5>1. reading'[u] = [device |-> d, sequence |-> lastSequence[d], count |-> lastCount[d]]
          BY <2>3, <4>1 DEF TypeOK
        <5>2. lastSequence[d] # -1
          BY <3>1, <5>1
        <5>3. \E x \in RowsOf(d) : x.sequence = lastSequence[d] /\ x.count = lastCount[d]
          BY <5>2 DEF MarksInv, MarksNameAStoredReport
        <5> QED BY <2>1, <5>1, <5>3 DEF RowsOf
      <4>2. CASE u # t
        <5>1. reading'[u] = reading[u]
          BY <2>3, <4>2 DEF TypeOK
        <5> QED BY <2>1, <3>1, <5>1 DEF UsageInv, RowsOf
      <4> QED BY <4>1, <4>2
    <3>2. UsageIsBacked'
      BY <2>1, <2>3 DEF UsageInv, UsageIsBacked, RowsOf
    <3> QED BY <1>1, <3>1, <3>2 DEF UsageInv, RowsOf
  <2> QED BY <1>2, <2>2, <2>3 DEF ReadMarks
<1>3. ASSUME NEW t \in Threads, CountReports(t) PROVE UsageInv'
  <2> DEFINE m == reading[t]
             n == Cardinality(RowsOf(m.device))
  <2>1. /\ rows' = rows /\ m # None
        /\ reply' = Answer([device |-> m.device, sequence |-> m.sequence,
                            count |-> m.count, reports |-> n], "usage")
        /\ reading' = [reading EXCEPT ![t] = None]
    BY <1>3 DEF CountReports, tables
  <2>2. m.sequence # -1 => /\ n >= 1
                           /\ \E x \in RowsOf(m.device) :
                                 x.sequence = m.sequence /\ x.count = m.count
    <3> SUFFICES ASSUME m.sequence # -1
                 PROVE /\ n >= 1
                       /\ \E x \in RowsOf(m.device) :
                             x.sequence = m.sequence /\ x.count = m.count
      OBVIOUS
    <3>1. \E x \in RowsOf(m.device) : x.sequence = m.sequence /\ x.count = m.count
      BY <2>1 DEF UsageInv
    <3>2. IsFiniteSet(RowsOf(m.device))
      BY FS_Subset DEF UsageInv, RowsOf
    <3>3. n \in Nat /\ n # 0
      BY <3>1, <3>2, FS_CardinalityType, FS_EmptySet
    <3> QED BY <3>1, <3>3
  <2>3. UsageIsBacked'
    BY <2>1, <2>2 DEF UsageIsBacked, Answer, RowsOf
  <2>4. \A u \in Threads : reading'[u] # None => reading'[u] = reading[u]
    BY <2>1 DEF TypeOK
  <2> QED BY <1>1, <2>1, <2>3, <2>4 DEF UsageInv, RowsOf
<1>4. ASSUME reading' = reading, reply' = reply \/ reply'.code # "usage" PROVE UsageInv'
  <2>1. UsageIsBacked'
    <3>1. CASE reply'.code # "usage"
      BY <3>1 DEF UsageIsBacked
    <3>2. CASE reply' = reply /\ reply # None /\ reply.code = "usage" /\ reply.request.sequence # -1
      <4> DEFINE d == reply.request.device
      <4>1. reply.request.reports >= 1
            /\ \E x \in RowsOf(d) :
                  x.sequence = reply.request.sequence /\ x.count = reply.request.count
        BY <3>2 DEF UsageInv, UsageIsBacked
      <4> QED BY <1>1, <3>2, <4>1 DEF UsageIsBacked, RowsOf
    <3> QED BY <1>4, <3>1, <3>2 DEF UsageIsBacked
  <2> QED BY <1>1, <1>4, <2>1 DEF UsageInv, RowsOf
<1>5. ASSUME NEW t \in Threads, NEW r \in Reports, PostReport(t, r) PROVE UsageInv'
  <2>1. VerifyReport(r) # "usage"
    BY DEF VerifyReport, CheckSignature, CheckSequence, CheckCountMonotonic
  <2> QED BY <1>4, <1>5, <2>1 DEF PostReport, Answer
<1>6. ASSUME NEW t \in Threads, StoreReport(t) \/ StoreFails(t) PROVE UsageInv'
  BY <1>4, <1>6 DEF StoreReport, StoreFails, Answer
<1>7. ASSUME NEW t \in Threads,
             \/ \E q \in Registrations : RegisterDevice(t, q)
             \/ InsertDevice(t) \/ InsertFails(t)
      PROVE UsageInv'
  BY <1>4, <1>7 DEF RegisterDevice, InsertDevice, InsertFails, Answer
<1>8. ASSUME NEW d \in Devices, NEW k \in Keys \cup {"unusable"}, RotateKey(d, k)
      PROVE UsageInv'
  BY <1>4, <1>8 DEF RotateKey, requests
<1>9. CASE UNCHANGED vars
  BY <1>4, <1>9 DEF vars
<1> QED BY <1>2, <1>3, <1>5, <1>6, <1>7, <1>8, <1>9 DEF Next

\* What GET usage answers is a stored report of the device, although the marks
\* and the rows are read in two statements.
THEOREM UsageBacked == Spec => []UsageIsBacked
<1>1. Init => UsageInv
  BY FS_EmptySet DEF Init, UsageInv, UsageIsBacked
<1>2. UsageInv => UsageIsBacked
  BY DEF UsageInv
<1> QED BY <1>1, <1>2, UsageStep, MarksInvariant, PTL DEF Spec

\* Whatever the last answer was, the table bears it out.
THEOREM AnswersTrue == Spec => []AnswersAreTrue
<1>1. RepliesInv /\ UsageIsBacked => AnswersAreTrue
  BY DEF RepliesInv, AnswersAreTrue
<1> QED BY <1>1, RepliesInvariant, UsageBacked, PTL

-----------------------------------------------------------------------------
(* Keys.                                                                    *)

\* The current key of a device, and the signature of every report that is stored
\* or about to be, belong to keys the operator gave the device.
SignersInv ==
    /\ \A d \in Devices : publicKey[d] \in authorised[d] \cup {"absent"}
    /\ \A t \in Threads : verified[t] # None =>
                            verified[t].signature \in authorised[verified[t].device]
    /\ OnlyAuthorisedSigners

\* SignersInv is inductive, given the types.
LEMMA SignersStep == TypeOK /\ SignersInv /\ [Next]_vars => SignersInv'
<1> SUFFICES ASSUME TypeOK, SignersInv, [Next]_vars PROVE SignersInv'
  OBVIOUS
<1>1. \A d \in Devices : authorised[d] \subseteq authorised'[d]
  BY TableSteps DEF TypeOK, CommitStep, InsertStep, RotateStep, tables
<1>2. \A d \in Devices : publicKey'[d] \in authorised'[d] \cup {"absent"}
  BY TableSteps DEF SignersInv, TypeOK, CommitStep, InsertStep, RotateStep, tables
<1>3. ASSUME NEW t \in Threads, verified'[t] # None
      PROVE verified'[t].signature \in authorised'[verified'[t].device]
  <2>1. verified'[t] \in Reports /\ verified'[t].device \in Devices
    BY <1>3, TypeStep DEF TypeOK, Reports
  <2>2. CASE VerifyReport(verified'[t]) = "ok"
    <3>1. /\ publicKey[verified'[t].device] # "absent"
          /\ CheckSignature(verified'[t]) = "ok"
      BY <2>2 DEF VerifyReport
    <3>2. verified'[t].signature = publicKey[verified'[t].device]
      BY <3>1 DEF CheckSignature
    <3> QED BY <1>1, <2>1, <3>1, <3>2 DEF SignersInv
  <2>3. CASE verified'[t] = verified[t]
    BY <1>1, <1>3, <2>1, <2>3 DEF SignersInv
  <2> QED BY <1>3, <2>2, <2>3, VerifiedSteps
<1>4. OnlyAuthorisedSigners'
  <2>1. \A x \in rows' : x \in rows \/ \E t \in Threads : verified[t] # None /\ x = verified[t]
    BY TableSteps, BackendAssumption DEF CommitStep, CommitReport, InsertStep, RotateStep, tables
  <2>2. \A x \in rows' : x.device \in Devices
    BY TypeStep DEF TypeOK, Reports
  <2>3. \A x \in rows' : x.signature \in authorised[x.device]
    BY <2>1 DEF SignersInv, OnlyAuthorisedSigners
  <2> QED BY <1>1, <2>2, <2>3 DEF OnlyAuthorisedSigners
<1> QED BY <1>2, <1>3, <1>4 DEF SignersInv

\* A report enters usage_reports only under a key the operator gave its device,
\* also when registrations race and the key is rotated while it is verified.
THEOREM SignersAuthorised == Spec => []OnlyAuthorisedSigners
<1>1. Init => SignersInv
  BY DEF Init, SignersInv, OnlyAuthorisedSigners
<1>2. SignersInv => OnlyAuthorisedSigners
  BY DEF SignersInv
<1> QED BY <1>1, <1>2, SignersStep, TypeCorrect, PTL DEF Spec

-----------------------------------------------------------------------------
(* Requests that overlap.                                                   *)

\* A verified report that was not overtaken still exceeds the marks it was judged
\* against; so the marks bound every row of a device that none was stored for.
OverlapInv ==
    /\ \A t \in Threads : verified[t] # None /\ t \notin overtaken =>
          /\ lastSequence[verified[t].device] < verified[t].sequence
          /\ lastCount[verified[t].device] <= verified[t].count
    /\ MarksAreHighWater
    /\ CountsFollowSequences

\* What a commit does to the rows, the marks and the two histories.
LEMMA CommitEffect ==
    ASSUME TypeOK, Overtake, Cross, NEW t \in Threads, CommitStep(t)
    PROVE  /\ verified[t] \in Reports /\ verified[t] # None
           /\ verified[t].device \in Devices
           /\ verified[t].sequence \in Nat /\ verified[t].count \in Nat
           /\ verified[t] \notin rows
           /\ rows' = rows \cup {verified[t]}
           /\ lastSequence'[verified[t].device] = verified[t].sequence
           /\ lastCount'[verified[t].device] = verified[t].count
           /\ \A d \in Devices \ {verified[t].device} :
                 lastSequence'[d] = lastSequence[d] /\ lastCount'[d] = lastCount[d]
           /\ \A u \in Threads : verified'[u] # None => u # t /\ verified'[u] = verified[u]
           /\ t \in overtaken => verified[t].device \in crossed'
           /\ crossed \subseteq crossed'
<1> DEFINE v == verified[t]
<1>1. v \in Reports /\ v # None /\ v.device \in Devices
      /\ v.sequence \in Nat /\ v.count \in Nat
  BY BackendAssumption, ReportNumbers DEF CommitStep
<1>2. v \notin rows
  BY DEF CommitStep, SequenceStored, RowsOf
<1>3. rows' = rows \cup {v}
  BY DEF CommitStep, CommitReport
<1>4. /\ lastSequence'[v.device] = v.sequence /\ lastCount'[v.device] = v.count
      /\ \A d \in Devices \ {v.device} :
            lastSequence'[d] = lastSequence[d] /\ lastCount'[d] = lastCount[d]
  BY <1>1 DEF CommitStep, CommitReport, TypeOK
<1>5. /\ verified'[t] = None
      /\ \A u \in Threads : verified'[u] # None => u # t /\ verified'[u] = verified[u]
  BY DEF CommitStep, TypeOK
<1>6. crossed \subseteq crossed' /\ (t \in overtaken => v.device \in crossed')
  BY <1>2, <1>3, <1>5 DEF Cross
<1> QED BY <1>1, <1>2, <1>3, <1>4, <1>5, <1>6

\* A report that was not overtaken between verify_report and its transaction is
\* newer than, and not below, all that is stored of its device, unless an
\* overtaken one was stored for the device.
LEMMA StoredAbove ==
    ASSUME TypeOK, MarksInv, OverlapInv, Overtake, Cross, NEW t \in Threads, CommitStep(t),
           verified[t].device \notin crossed'
    PROVE  \A x \in rows : x.device = verified[t].device =>
              x.sequence < verified[t].sequence /\ x.count <= verified[t].count
<1> DEFINE v == verified[t]
<1>1. /\ v # None /\ v.device \in Devices /\ v.sequence \in Nat /\ v.count \in Nat
      /\ t \notin overtaken /\ v.device \notin crossed
  BY CommitEffect
<1>2. lastSequence[v.device] \in Int /\ lastCount[v.device] \in Int
  BY <1>1, MarkNumbers
<1>3. lastSequence[v.device] < v.sequence /\ lastCount[v.device] <= v.count
  BY <1>1 DEF OverlapInv
<1> SUFFICES ASSUME NEW x \in rows, x.device = v.device
             PROVE x.sequence < v.sequence /\ x.count <= v.count
  OBVIOUS
<1>4. x.sequence \in Nat /\ x.count \in Nat
  BY ReportNumbers DEF TypeOK
<1>5. x.sequence <= lastSequence[v.device] /\ x.count <= lastCount[v.device]
  BY <1>1 DEF OverlapInv, MarksAreHighWater
<1> QED BY <1>1, <1>2, <1>3, <1>4, <1>5

\* OverlapInv is inductive, given the types and MarksInv.
LEMMA OverlapStep == TypeOK /\ MarksInv /\ OverlapInv /\ OverlapNext => OverlapInv'
<1> SUFFICES ASSUME TypeOK, MarksInv, OverlapInv, Next, Overtake, Cross PROVE OverlapInv'
  BY DEF OverlapNext
<1>1. ASSUME NEW t \in Threads, CommitStep(t) PROVE OverlapInv'
  <2> DEFINE v == verified[t]
  <2>1. /\ v \in Reports /\ v # None /\ v.device \in Devices
        /\ v.sequence \in Nat /\ v.count \in Nat /\ v \notin rows
        /\ rows' = rows \cup {v}
        /\ lastSequence'[v.device] = v.sequence /\ lastCount'[v.device] = v.count
        /\ \A d \in Devices \ {v.device} :
              lastSequence'[d] = lastSequence[d] /\ lastCount'[d] = lastCount[d]
        /\ \A u \in Threads : verified'[u] # None => u # t /\ verified'[u] = verified[u]
        /\ t \in overtaken => v.device \in crossed'
        /\ crossed \subseteq crossed'
    BY <1>1, CommitEffect
  <2>2. ASSUME NEW u \in Threads, verified'[u] # None, u \notin overtaken'
        PROVE /\ lastSequence'[verified'[u].device] < verified'[u].sequence
              /\ lastCount'[verified'[u].device] <= verified'[u].count
    <3>1. verified'[u] = verified[u] /\ verified[u] \in Reports
          /\ verified[u].device \in Devices
      BY <2>1, <2>2, BackendAssumption, ReportNumbers DEF TypeOK
    <3>2. u \notin overtaken /\ ~ StoredFor(verified[u].device)
      BY <2>2, <3>1 DEF Overtake
    <3>3. verified[u].device # v.device
      BY <2>1, <3>2 DEF StoredFor
    <3> QED BY <2>1, <2>2, <3>1, <3>2, <3>3 DEF OverlapInv
  <2>3. \A x \in rows : x.device \in Devices /\ x.sequence \in Nat /\ x.count \in Nat
    BY ReportNumbers DEF TypeOK
  <2>4. v.device \notin crossed' =>
          \A x \in rows : x.device = v.device => x.sequence < v.sequence /\ x.count <= v.count
    BY <1>1, StoredAbove
  <2>5. MarksAreHighWater'
    BY <2>1, <2>3, <2>4 DEF OverlapInv, MarksAreHighWater
  <2>6. CountsFollowSequences'
    BY <2>1, <2>3, <2>4 DEF OverlapInv, CountsFollowSequences
  <2> QED BY <2>2, <2>5, <2>6 DEF OverlapInv
<1>2. ASSUME UNCHANGED rows,
             \A d \in Devices : publicKey[d] # "absent" =>
                lastSequence'[d] = lastSequence[d] /\ lastCount'[d] = lastCount[d]
      PROVE OverlapInv'
  <2>1. ASSUME NEW t \in Threads, verified'[t] # None, t \notin overtaken'
        PROVE /\ lastSequence'[verified'[t].device] < verified'[t].sequence
              /\ lastCount'[verified'[t].device] <= verified'[t].count
    <3> DEFINE v == verified'[t]
    <3>1. v \in Reports /\ v.device \in Devices /\ v.sequence \in Nat /\ v.count \in Nat
      BY <2>1, TypeStep, ReportNumbers DEF TypeOK
    <3>2. lastSequence[v.device] \in Int /\ lastCount[v.device] \in Int
      BY <3>1, MarkNumbers
    <3>3. CASE VerifyReport(v) = "ok"
      <4>1. /\ publicKey[v.device] # "absent"
            /\ CheckSequence(v) = "ok" /\ CheckCountMonotonic(v) = "ok"
        BY <3>3 DEF VerifyReport
      <4> QED BY <1>2, <3>1, <3>2, <4>1 DEF CheckSequence, CheckCountMonotonic
    <3>4. CASE v = verified[t]
      <4>1. publicKey[v.device] # "absent" /\ t \notin overtaken
        BY <2>1, <3>4 DEF MarksInv, Overtake
      <4> QED BY <1>2, <2>1, <3>1, <3>4, <4>1 DEF OverlapInv
    <3> QED BY <2>1, <3>3, <3>4, VerifiedSteps
  <2>2. \A x \in rows : x.device \in Devices /\ publicKey[x.device] # "absent"
    BY ReportNumbers DEF TypeOK, MarksInv
  <2>3. crossed \subseteq crossed'
    BY DEF Cross
  <2>4. MarksAreHighWater' /\ CountsFollowSequences'
    BY <1>2, <2>2, <2>3 DEF OverlapInv, MarksAreHighWater, CountsFollowSequences
  <2> QED BY <2>1, <2>4 DEF OverlapInv
<1>3. ASSUME NEW q \in [device: Devices, key: Keys], InsertStep(q) PROVE OverlapInv'
  BY <1>2, <1>3 DEF InsertStep, TypeOK
<1> QED BY <1>1, <1>2, <1>3, TableSteps DEF RotateStep, tables

\* OverlapInv holds in every reachable state.
LEMMA OverlapInvariant == OverlapSpec => [](TypeOK /\ MarksInv /\ OverlapInv)
<1>1. OverlapInit => TypeOK /\ MarksInv /\ OverlapInv
  BY BackendAssumption
  DEF OverlapInit, Init, TypeOK, MarksInv, MarksNameAStoredReport, RowsOf, OverlapInv,
      MarksAreHighWater, CountsFollowSequences
<1>2. TypeOK /\ MarksInv /\ OverlapInv /\ [OverlapNext]_overlapVars
        => (TypeOK /\ MarksInv /\ OverlapInv)'
  <2>1. CASE OverlapNext
    <3>1. Next
      BY <2>1 DEF OverlapNext
    <3> QED BY <2>1, <3>1, TypeStep, MarksStep, OverlapStep
  <2>2. CASE UNCHANGED overlapVars
    <3>1. UNCHANGED vars /\ UNCHANGED <<overtaken, crossed>>
      BY <2>2 DEF overlapVars
    <3>2. OverlapInv => OverlapInv'
      BY <3>1 DEF vars, tables, requests, OverlapInv, MarksAreHighWater, CountsFollowSequences
    <3> QED BY <3>1, <3>2, TypeStep, MarksStep
  <2> QED BY <2>1, <2>2
<1> QED BY <1>1, <1>2, PTL DEF OverlapSpec

\* The marks bound all a device ever reported, however many requests overlap and
\* fail, unless a report that was overtaken after verify_report was stored for it.
THEOREM MarksHighWater == OverlapSpec => []MarksAreHighWater
BY OverlapInvariant, PTL DEF OverlapInv

\* A later sequence of a device never carries a smaller count, however many
\* requests overlap and fail, unless an overtaken report was stored for it.
THEOREM CountsFollow == OverlapSpec => []CountsFollowSequences
BY OverlapInvariant, PTL DEF OverlapInv

\* The only step that moves a mark back is the commit of a report which another
\* of its device overtook between verify_report and its transaction.
THEOREM RetreatNeedsOvertaking == OverlapSpec => MarksRetreatOnlyWhenOvertaken
<1> DEFINE Retreats ==
        \A d \in Devices :
          lastSequence'[d] < lastSequence[d] \/ lastCount'[d] < lastCount[d] =>
              \E t \in overtaken : /\ verified[t].device = d
                                   /\ verified[t] \in rows' \ rows
<1>1. TypeOK /\ MarksInv /\ OverlapInv /\ OverlapNext => Retreats
  <2> SUFFICES ASSUME TypeOK, MarksInv, OverlapInv, Next, Overtake, Cross, NEW d \in Devices,
                      lastSequence'[d] < lastSequence[d] \/ lastCount'[d] < lastCount[d]
               PROVE  \E t \in overtaken : verified[t].device = d /\ verified[t] \in rows' \ rows
    BY DEF OverlapNext
  <2>1. lastSequence[d] \in Int /\ lastCount[d] \in Int
    BY MarkNumbers
  <2>2. ~ UNCHANGED <<lastSequence, lastCount>>
    BY <2>1
  <2>3. ASSUME NEW q \in [device: Devices, key: Keys], InsertStep(q) PROVE FALSE
    <3>1. CASE d = q.device
      <4>1. lastSequence[d] = -1 /\ lastCount[d] = 0
        BY <2>3, <3>1 DEF InsertStep, MarksInv, MarksNameAStoredReport, RowsOf
      <4> QED BY <2>1, <2>3, <3>1, <4>1 DEF InsertStep, TypeOK
    <3>2. CASE d # q.device
      BY <2>1, <2>3, <3>2 DEF InsertStep, TypeOK
    <3> QED BY <3>1, <3>2
  <2>4. PICK t \in Threads : CommitStep(t)
    BY <2>2, <2>3, TableSteps DEF RotateStep, tables
  <2> DEFINE v == verified[t]
  <2>5. /\ v # None /\ v.sequence \in Nat /\ v.count \in Nat
        /\ v \notin rows /\ rows' = rows \cup {v}
        /\ lastSequence'[v.device] = v.sequence /\ lastCount'[v.device] = v.count
        /\ \A e \in Devices \ {v.device} :
              lastSequence'[e] = lastSequence[e] /\ lastCount'[e] = lastCount[e]
    BY <2>4, CommitEffect
  <2>6. d = v.device
    BY <2>1, <2>5
  <2>7. t \in overtaken
    <3> SUFFICES ASSUME t \notin overtaken PROVE FALSE
      OBVIOUS
    <3>1. lastSequence[d] < v.sequence /\ lastCount[d] <= v.count
      BY <2>5, <2>6 DEF OverlapInv
    <3> QED BY <2>1, <2>5, <2>6, <3>1
  <2> QED BY <2>5, <2>6, <2>7
<1>2. TypeOK /\ MarksInv /\ OverlapInv /\ [OverlapNext]_overlapVars => [Retreats]_overlapVars
  BY <1>1
<1> HIDE DEF Retreats
<1>3. OverlapSpec => [][Retreats]_overlapVars
  BY <1>2, OverlapInvariant, PTL DEF OverlapSpec
<1> QED BY <1>3 DEF Retreats, MarksRetreatOnlyWhenOvertaken

\* The stored readings are a ledger, into which each reading enters newer than
\* and at least as large as all of its device's earlier ones, whatever overlaps,
\* but for the reports of devices an overtaken report was stored for.
THEOREM LedgerKept == OverlapSpec => LedgerUnlessCrossed
<1>1. OverlapInit => Ledger!Init
  BY DEF OverlapInit, Init, readings, Ledger!Init
<1>2. TypeOK /\ MarksInv /\ OverlapInv /\ [OverlapNext]_overlapVars
        => [Ledger!Next \/ StoredForCrossed]_readings
  <2> SUFFICES ASSUME TypeOK, MarksInv, OverlapInv, [OverlapNext]_overlapVars
               PROVE Ledger!Next \/ StoredForCrossed \/ readings' = readings
    OBVIOUS
  <2>1. CASE UNCHANGED rows
    BY <2>1 DEF readings, Reading
  <2>2. ASSUME ~ UNCHANGED rows PROVE Next /\ Overtake /\ Cross
    BY <2>2 DEF overlapVars, vars, tables, OverlapNext
  <2>3. ASSUME Overtake, Cross, NEW t \in Threads, CommitStep(t)
        PROVE Ledger!Next \/ StoredForCrossed
    <3> DEFINE v == verified[t]
    <3>1. v \in Reports /\ v.device \in Devices /\ v.sequence \in Nat /\ v.count \in Nat
          /\ rows' = rows \cup {v}
      BY <2>3, CommitEffect
    <3>2. CASE v.device \in crossed'
      BY <3>1, <3>2 DEF StoredForCrossed
    <3>3. CASE v.device \notin crossed'
      <4>1. Reading(v) \in Ledger!Readings
        BY <3>1 DEF Reading, Reports, Ledger!Readings
      <4>2. readings' = readings \cup {Reading(v)}
        BY <3>1 DEF readings, Reading
      <4>3. Ledger!Continues(Reading(v))
        BY <2>3, <3>3, StoredAbove DEF Ledger!Continues, Reading, readings
      <4> QED BY <4>1, <4>2, <4>3 DEF Ledger!Next, Ledger!Accept
    <3> QED BY <3>2, <3>3
  <2> QED BY <2>1, <2>2, <2>3, TableSteps DEF InsertStep, RotateStep, tables
<1> QED BY <1>1, <1>2, OverlapInvariant, PTL DEF OverlapSpec, LedgerUnlessCrossed
====
