---- MODULE Backend ----
(***************************************************************************)
(* The verification backend (src/backend): FastAPI workers over one SQLite *)
(* database.  A worker thread serves one request at a time and opens its   *)
(* own connection for it; several threads and processes run at once.  Each *)
(* SQL statement is atomic, and so is the transaction of POST /reports;    *)
(* between two of them any other thread may run, and the worker may die.   *)
(*                                                                         *)
(* POST /reports is therefore two steps: verify_report reads the row of    *)
(* the device and judges the report (PostReport), then one transaction     *)
(* inserts the report and overwrites the marks (StoreReport).  Likewise    *)
(* POST /devices and GET /usage are two statements each.                   *)
(***************************************************************************)
EXTENDS Integers, FiniteSets

CONSTANTS Devices,    \* device_id values
          Keys,       \* Ed25519 key pairs, named once for both halves
          Threads,    \* worker threads of all the uvicorn processes
          Sequences,  \* report sequence numbers
          Counts,     \* values of the usage counter
          None        \* "this thread holds no such request"

\* A signature is the key that made it over exactly these fields, or one that
\* matches no key, or text that is not base64.
Signatures == Keys \cup {"forged", "not_base64"}

\* The body of POST /reports.  The windows are signed and stored, never judged.
Reports == [device: Devices, count: Counts, sequence: Sequences,
            signature: Signatures]

\* The body of POST /devices: a usable public key or one that does not decode
\* to 32 bytes.
Registrations == [device: Devices, key: Keys \cup {"malformed"}]

\* What fetch_device and get_usage read of a row of `devices`.
Marks == [device: Devices, sequence: Sequences \cup {-1}, count: Counts \cup {0}]

ASSUME BackendAssumption ==
    /\ Sequences \subseteq Nat
    /\ Counts \subseteq Nat
    /\ Keys \cap {"forged", "not_base64", "malformed", "absent", "unusable"} = {}
    /\ None \notin Reports \cup Registrations \cup Marks

VARIABLES publicKey,     \* devices.public_key; "absent" when there is no row
          lastSequence,  \* devices.last_accepted_sequence
          lastCount,     \* devices.last_accepted_count
          rows,          \* the table usage_reports
          verified,      \* report each thread has verified and not yet stored
          registering,   \* registration each thread found no row for
          reading,       \* marks each thread has read for GET usage
          reply,         \* the last HTTP answer, with the request it answers
          authorised     \* history: keys the operator ever gave each device

tables == <<publicKey, lastSequence, lastCount, rows, authorised>>
requests == <<verified, registering, reading>>
vars == <<publicKey, lastSequence, lastCount, rows, verified, registering,
          reading, reply, authorised>>

Idle(t) == verified[t] = None /\ registering[t] = None /\ reading[t] = None

Answer(request, code) == [request |-> request, code |-> code]

RowsOf(d) == {r \in rows : r.device = d}

-----------------------------------------------------------------------------
(* verify.py: the gate a report passes.  Each check answers a code.         *)

\* Mutant: a key that cannot be loaded lets the report through (fail open).
CheckSignatureFailsOpen(r) ==
    IF publicKey[r.device] = "unusable" THEN "ok"
    ELSE IF r.signature = "not_base64" THEN "bad_signature_encoding"
    ELSE IF r.signature # publicKey[r.device] THEN "bad_signature"
    ELSE "ok"

CheckSignature(r) ==
    IF publicKey[r.device] = "unusable" THEN "bad_registered_key"
    ELSE IF r.signature = "not_base64" THEN "bad_signature_encoding"
    ELSE IF r.signature # publicKey[r.device] THEN "bad_signature"
    ELSE "ok"

CheckSequence(r) ==
    IF r.sequence <= lastSequence[r.device]
    THEN "replay_or_rollback_sequence" ELSE "ok"

\* Mutant: an unchanged count is taken for a rollback.
CheckCountStrictlyMonotonic(r) ==
    IF r.count <= lastCount[r.device] THEN "count_rollback" ELSE "ok"

CheckCountMonotonic(r) ==
    IF r.count < lastCount[r.device] THEN "count_rollback" ELSE "ok"

\* Mutant: the gate without check_sequence.
VerifyReportUnsequenced(r) ==
    IF publicKey[r.device] = "absent" THEN "unknown_device"
    ELSE IF CheckSignature(r) # "ok" THEN CheckSignature(r)
    ELSE CheckCountMonotonic(r)

\* Authenticate first, then judge freshness: the first check that objects.
VerifyReport(r) ==
    IF publicKey[r.device] = "absent" THEN "unknown_device"
    ELSE IF CheckSignature(r) # "ok" THEN CheckSignature(r)
    ELSE IF CheckSequence(r) # "ok" THEN CheckSequence(r)
    ELSE CheckCountMonotonic(r)

-----------------------------------------------------------------------------
(* POST /reports.                                                           *)

\* verify_report: one SELECT of the device's row, outside any transaction.
PostReport(t, r) ==
    /\ Idle(t)
    /\ IF VerifyReport(r) = "ok"
       THEN /\ verified' = [verified EXCEPT ![t] = r]
            /\ UNCHANGED reply
       ELSE /\ reply' = Answer(r, VerifyReport(r))
            /\ UNCHANGED verified
    /\ UNCHANGED <<tables, registering, reading>>

\* UNIQUE (device_id, sequence).
SequenceStored(r) == \E x \in RowsOf(r.device) : x.sequence = r.sequence

\* Mutant: the mark is the next sequence awaited, not the last accepted.
CommitReportNextAwaited(r) ==
    /\ rows' = rows \cup {r}
    /\ lastSequence' = [lastSequence EXCEPT ![r.device] = r.sequence + 1]
    /\ lastCount' = [lastCount EXCEPT ![r.device] = r.count]

\* Mutant: the UPDATE forgets last_accepted_count.
CommitReportCountKept(r) ==
    /\ rows' = rows \cup {r}
    /\ lastSequence' = [lastSequence EXCEPT ![r.device] = r.sequence]
    /\ UNCHANGED lastCount

\* What the transaction commits: the row, and the marks overwritten with the
\* report's own values whatever they are by now.
CommitReport(r) ==
    /\ rows' = rows \cup {r}
    /\ lastSequence' = [lastSequence EXCEPT ![r.device] = r.sequence]
    /\ lastCount' = [lastCount EXCEPT ![r.device] = r.count]

\* BEGIN IMMEDIATE .. COMMIT, or ROLLBACK on the UNIQUE constraint.  Once it is
\* committed the worker may die before it answers.
StoreReport(t) ==
    /\ verified[t] # None
    /\ verified' = [verified EXCEPT ![t] = None]
    /\ \/ /\ ~ SequenceStored(verified[t])
          /\ CommitReport(verified[t])
          /\ reply' \in {Answer(verified[t], "accepted"), reply}
       \/ /\ SequenceStored(verified[t])
          /\ reply' = Answer(verified[t], "replay_or_rollback_sequence")
          /\ UNCHANGED <<lastSequence, lastCount, rows>>
    /\ UNCHANGED <<publicKey, authorised, registering, reading>>

\* The database stays locked (a 500 that no handler catches) or the worker
\* dies before COMMIT: nothing of the transaction remains.
StoreFails(t) ==
    /\ verified[t] # None
    /\ verified' = [verified EXCEPT ![t] = None]
    /\ reply' \in {Answer(verified[t], "internal_error"), reply}
    /\ UNCHANGED <<tables, registering, reading>>

-----------------------------------------------------------------------------
(* POST /devices, and the operator's own hand on the database.              *)

\* The key is judged, then one SELECT looks for the row.
RegisterDevice(t, q) ==
    /\ Idle(t)
    /\ \/ /\ q.key = "malformed"
          /\ reply' = Answer(q, "bad_public_key")
          /\ UNCHANGED registering
       \/ /\ q.key # "malformed"
          /\ publicKey[q.device] # "absent"
          /\ reply' = Answer(q, "device_exists")
          /\ UNCHANGED registering
       \/ /\ q.key # "malformed"
          /\ publicKey[q.device] = "absent"
          /\ registering' = [registering EXCEPT ![t] = q]
          /\ UNCHANGED reply
    /\ UNCHANGED <<tables, verified, reading>>

\* Mutant: INSERT OR REPLACE, so that the slower of two registrations wins.
InsertDeviceReplaces(t) ==
    LET q == registering[t] IN
    /\ q # None
    /\ registering' = [registering EXCEPT ![t] = None]
    /\ publicKey' = [publicKey EXCEPT ![q.device] = q.key]
    /\ lastSequence' = [lastSequence EXCEPT ![q.device] = -1]
    /\ lastCount' = [lastCount EXCEPT ![q.device] = 0]
    /\ authorised' = [authorised EXCEPT ![q.device] = @ \cup {q.key}]
    /\ reply' = Answer(q, "registered")
    /\ UNCHANGED <<rows, verified, reading>>

\* The INSERT; the PRIMARY KEY refuses it (a 500) when another thread was first.
InsertDevice(t) ==
    LET q == registering[t] IN
    /\ q # None
    /\ registering' = [registering EXCEPT ![t] = None]
    /\ \/ /\ publicKey[q.device] = "absent"
          /\ publicKey' = [publicKey EXCEPT ![q.device] = q.key]
          /\ lastSequence' = [lastSequence EXCEPT ![q.device] = -1]
          /\ lastCount' = [lastCount EXCEPT ![q.device] = 0]
          /\ authorised' = [authorised EXCEPT ![q.device] = @ \cup {q.key}]
          /\ reply' \in {Answer(q, "registered"), reply}
       \/ /\ publicKey[q.device] # "absent"
          /\ reply' = Answer(q, "internal_error")
          /\ UNCHANGED <<publicKey, lastSequence, lastCount, authorised>>
    /\ UNCHANGED <<rows, verified, reading>>

\* The INSERT finds the database locked, or the worker dies before it.
InsertFails(t) ==
    /\ registering[t] # None
    /\ registering' = [registering EXCEPT ![t] = None]
    /\ reply' \in {Answer(registering[t], "internal_error"), reply}
    /\ UNCHANGED <<tables, verified, reading>>

\* Key rotation is an UPDATE the operator types into sqlite3: no endpoint, no
\* check of the key, and no other column is touched.
RotateKey(d, k) ==
    /\ publicKey[d] # "absent"
    /\ publicKey' = [publicKey EXCEPT ![d] = k]
    /\ authorised' = [authorised EXCEPT ![d] = @ \cup {k}]
    /\ UNCHANGED <<lastSequence, lastCount, rows, requests, reply>>

-----------------------------------------------------------------------------
(* GET /devices/{device_id}/usage: the marks, then the number of rows.      *)

ReadMarks(t, d) ==
    /\ Idle(t)
    /\ \/ /\ publicKey[d] = "absent"
          /\ reply' = Answer([device |-> d], "unknown_device")
          /\ UNCHANGED reading
       \/ /\ publicKey[d] # "absent"
          /\ reading' = [reading EXCEPT ![t] = [device |-> d,
                            sequence |-> lastSequence[d], count |-> lastCount[d]]]
          /\ UNCHANGED reply
    /\ UNCHANGED <<tables, verified, registering>>

CountReports(t) ==
    LET m == reading[t] IN
    /\ m # None
    /\ reply' = Answer([device |-> m.device, sequence |-> m.sequence, count |-> m.count,
                        reports |-> Cardinality(RowsOf(m.device))], "usage")
    /\ reading' = [reading EXCEPT ![t] = None]
    /\ UNCHANGED <<tables, verified, registering>>

-----------------------------------------------------------------------------
Init ==
    /\ publicKey = [d \in Devices |-> "absent"]
    /\ lastSequence = [d \in Devices |-> -1]
    /\ lastCount = [d \in Devices |-> 0]
    /\ rows = {}
    /\ verified = [t \in Threads |-> None]
    /\ registering = [t \in Threads |-> None]
    /\ reading = [t \in Threads |-> None]
    /\ reply = None
    /\ authorised = [d \in Devices |-> {}]

Next ==
    \/ \E t \in Threads :
        \/ \E r \in Reports : PostReport(t, r)
        \/ StoreReport(t)
        \/ StoreFails(t)
        \/ \E q \in Registrations : RegisterDevice(t, q)
        \/ InsertDevice(t)
        \/ InsertFails(t)
        \/ \E d \in Devices : ReadMarks(t, d)
        \/ CountReports(t)
    \/ \E d \in Devices, k \in Keys \cup {"unusable"} : RotateKey(d, k)

Spec == Init /\ [][Next]_vars

-----------------------------------------------------------------------------
(* Properties.                                                              *)

\* Every variable has its type: request slots hold a request or None, marks are
\* a sequence and a count the device could have reported.
TypeOK ==
    /\ publicKey \in [Devices -> Keys \cup {"unusable", "absent"}]
    /\ lastSequence \in [Devices -> Sequences \cup {-1}]
    /\ lastCount \in [Devices -> Counts \cup {0}]
    /\ rows \subseteq Reports
    /\ verified \in [Threads -> Reports \cup {None}]
    /\ registering \in [Threads -> [device: Devices, key: Keys] \cup {None}]
    /\ reading \in [Threads -> Marks \cup {None}]
    /\ authorised \in [Devices -> SUBSET (Keys \cup {"unusable"})]

\* However many copies of a report race past check_sequence, at most one row of
\* a device carries a sequence (app.py post_report, schema.sql UNIQUE).
OneRowPerSequence ==
    \A x, y \in rows : x.device = y.device /\ x.sequence = y.sequence => x = y

\* A client told "accepted" owns a row with exactly its fields, also when the
\* answer is followed by failures, races and rotations.
AcceptedIsStored ==
    reply # None /\ reply.code = "accepted" => reply.request \in rows

\* A replay refusal, from the check or from the UNIQUE constraint, is never given
\* unless a report with that sequence or a later one is stored for the device.
ReplayRefusalIsJustified ==
    reply # None /\ reply.code = "replay_or_rollback_sequence" =>
        \E x \in RowsOf(reply.request.device) : x.sequence >= reply.request.sequence

\* A count_rollback refusal means a larger count is stored (check_count_monotonic
\* against marks another thread may have moved since).
RollbackRefusalIsJustified ==
    reply # None /\ reply.code = "count_rollback" =>
        \E x \in RowsOf(reply.request.device) : x.count > reply.request.count

\* The marks are never an invention: both are the fields of one and the same
\* stored report, or the device is new and has none (the transaction of
\* post_report moves rows and marks together).
MarksNameAStoredReport ==
    \A d \in Devices :
        \/ lastSequence[d] = -1 /\ lastCount[d] = 0 /\ RowsOf(d) = {}
        \/ \E x \in RowsOf(d) : x.sequence = lastSequence[d] /\ x.count = lastCount[d]

\* No interleaving or failure wedges a device: a report signed with the current
\* key, newer than everything stored and not smaller, always verifies.
FreshReportVerifies ==
    \A r \in Reports :
        /\ r.signature = publicKey[r.device]
        /\ \A x \in RowsOf(r.device) : x.sequence < r.sequence /\ x.count <= r.count
        => VerifyReport(r) = "ok"

\* Everything stored was signed by a key the operator gave that device, across
\* registrations that race and keys that are rotated while reports are verified.
OnlyAuthorisedSigners ==
    \A x \in rows : x.signature \in authorised[x.device]

\* GET usage may be overtaken between its two reads, and still what it answers is
\* one stored report of the device, or nothing at all at the time it read.
UsageIsBacked ==
    reply # None /\ reply.code = "usage" /\ reply.request.sequence # -1 =>
        /\ reply.request.reports >= 1
        /\ \E x \in RowsOf(reply.request.device) :
              x.sequence = reply.request.sequence /\ x.count = reply.request.count

\* Whatever a client was told last, an acceptance, a refusal or a usage, the
\* table bears it out, although other threads and the operator went on working.
AnswersAreTrue ==
    /\ AcceptedIsStored
    /\ ReplayRefusalIsJustified
    /\ RollbackRefusalIsJustified
    /\ UsageIsBacked

\* usage_reports is append-only: no handler, retry or race drops or edits a row.
HistoryIsAppendOnly == [][rows \subseteq rows']_vars

\* Two registrations that race for one device never re-key it: once the row
\* exists only the operator's UPDATE changes its key (register_device).
NeverRekeyedByRegistration ==
    [][\A d \in Devices :
          publicKey[d] # "absent" /\ registering' # registering
             => publicKey'[d] = publicKey[d]]_vars

-----------------------------------------------------------------------------
\* A stored report without its signature, as the abstract specifications see it.
Reading(r) == [device |-> r.device, sequence |-> r.sequence, count |-> r.count]
====
