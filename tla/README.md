# Formal models of ble-usage-meter

TLA+ models of the meter in `src/`: what the gateway (Python, SQLite) and the
ESP32 firmware (C++, NVS) count and report, and what the backend (FastAPI,
SQLite) accepts and licenses.  TLC checks them on small instances; TLAPS proves
the main properties of the backend, the licence policy, the gateway, its capture,
the firmware, its observer and the report delivery for every instance.

The product of this system is one number per device: how often an appliance was
used.  Everything below is about that number - that it is not lost, invented,
lowered, reported twice, or read wrongly - when processes overlap, die in the
middle of something, or have a statement fail.

## 1. The system

| part | state | operations | talks to |
|---|---|---|---|
| backend report gate (`backend/app.py`, `verify.py`, `models.py`, `schema.sql`) | `devices` (key, two high-water marks), `usage_reports` (append-only) | `POST /reports`, `POST /devices`, `GET /devices/{id}/usage` | meters over HTTP; operator who rotates keys in SQL |
| backend licence policy (`backend/policy.py`) | `policies`; reads `usage_reports` | `GET /devices/{id}/license` | operator's system; operator who edits the row |
| backend connection (`backend/db.py`) | one SQLite connection per request | `connect`, `migrate`, `get_conn` | all endpoints |
| gateway pipeline and store (`gateway/cli.py`, `counter.py`, `store.py`) | RAM counters, SQLite `events`, `counters`, `meta` | `observe`, `proxy`, `report`, `status` | capture (callback), backend (HTTP) |
| gateway capture (`gateway/observer.py`, `proxy.py`) | a buffer per characteristic | notification handler; `forward_from_app`, `run` | BLE; calls `Pipeline.handle` |
| matching (`gateway/matcher.py`, `config.py`, `firmware/esp32/event_matcher.cpp`) | the rule list | `load_events`, `match`, `classify` | pipeline; firmware observer |
| firmware meter (`main.cpp`, `counter.cpp`, `storage_nvs.cpp`) | `entries_`, `sequence_`, `head_` in RAM; counters, sequence, log ring in NVS | `record`, `report_task`, `app_main` | observer (callback on the BLE host task) |
| firmware observer (`ble_observer.cpp`) | pool of four reassembly slots | `observer_on_att_fragment`, `gap_event` | sniffer; calls `record` |
| report delivery (`gateway/reporter.py`, `firmware/esp32/reporter.cpp`) | an attempt counter | `post` with retries | backend |
| signing (`gateway/signer.py`, `signer.cpp`) | key | canonical bytes, Ed25519 | reporter |
| operator tools (`tools/`) | none | key generation, snoop parsing | files |

What makes each part hard, and what makes it correct:

* **Report gate.**  FastAPI runs the endpoints in a thread pool.  A report is
  verified against marks read outside the transaction that stores it.  Correct
  means: a sequence is stored once, history is never rewritten, what was
  accepted is stored, what was refused deserved it, the marks belong to a stored
  report (so that no failure wedges the device), only authorised keys sign.
* **Licence policy.**  Three reads without a transaction, over a row an operator
  typed, and timestamps compared as text.  Correct means: an allow is always
  backed by a row that clearly says so, and the quota is enforced for the period.
* **Gateway.**  The log and the counter are two commits; the sequence is a
  read, a check and a write; nothing keeps two processes apart.  Correct means:
  no count without a logged event, losses bounded by faults, nothing reported
  that is not durable, a sequence never used twice.
* **Matching.**  Two implementations that must count the same writes.
* **Firmware meter.**  Two FreeRTOS tasks share a vector without a lock; NVS
  calls fail one by one; power goes at any time.  Correct means: nothing
  persisted goes back, nothing is reported that was not observed, and a restart
  costs at most the event in progress.
* **Firmware observer.**  Long writes arrive in fragments of which the sniffer
  misses some, on handles that are reused, in a pool of four.  Correct means: one
  write gives at most one value, and a whole one.

* **Gateway capture.**  A command comes in parts that are joined by nothing but
  their length, parts are missed, the link goes; a proxied write may be answered
  late or never.  Correct means: no part counts twice, values are whole or it can
  be told why not, and the proxy counts what the appliance got.
* **Report delivery.**  A copy that was given up may still arrive, behind a later
  copy or a newer report; an answer may be lost after the commit.  Correct means:
  `post`'s verdict is true, a report arrives unless there were faults for all of
  its copies, and the device's total follows.

`PROJECT.json` lists the hazards with the line where each one bites.

## 2. The modules

| module | models | kind |
|---|---|---|
| `UsageLedger` | what a stored or sent history of reports promises: entries are only added, one per device and sequence, later sequences carry no smaller count | abstract specification |
| `Backend` | report gate, thread by thread and statement by statement | state machine |
| `Overlap` | `Backend` with the history of which verified reports were overtaken before their transaction | state machine, implements `UsageLedger` for the devices that none of these was stored for |
| `Gateway` | meter and report processes over one database file | state machine, implements `UsageLedger` with one report process |
| `Delivery` | `Reporter.post` and the network, composed with `Backend` (INSTANCE, all variables shared) and fed by any `UsageLedger` | composition, with fairness and a liveness property |
| `Capture` | `PassiveObserver`'s handlers and `TransparentProxy.forward_from_app` | state machine |
| `Firmware` | `record`, `report_task`, `app_main` over NVS | state machine |
| `Reassembly` | the slot pool of the firmware observer | state machine |
| `License` | one licence decision after another, while reports arrive | state machine |
| `Matcher` | rule loading and the two matchers | algorithms as operators, compared on all small rule lists and writes |
| `BackendProofs`, `GatewayProofs`, `FirmwareProofs`, `LicenseProofs`, `CaptureProofs`, `DeliveryProofs`, `ReassemblyProofs`, `MatcherProofs` | theorems about the module they name; `BackendProofs` also about `Overlap` | TLAPS |
| `MCBackend`, `MCOverlap`, `MCCapture`, `MCGateway`, `MCFirmware`, `MCReassembly` | symmetry sets and function-valued constants | for TLC |

`Delivery`, `License` and `Matcher` need no such helper and are run as they are.

### How states and actions correspond to the code

**Backend.**  `publicKey`, `lastSequence`, `lastCount` are the columns of
`devices`; `rows` is `usage_reports`.  A thread is between two of its steps
exactly where another thread can be observed: `PostReport` is the request up to
the verdict of `verify_report` (one SELECT, app.py:91), `StoreReport` the
transaction with its IntegrityError branch (98-123), `StoreFails` the same with
an exception, or the end of the process, before COMMIT.  `RegisterDevice` /
`InsertDevice` / `InsertFails` split `POST /devices` between its SELECT and its
INSERT, `ReadMarks` / `CountReports` split `GET usage`.  `RotateKey` is the
operator's UPDATE, which keeps the marks, and may write a key that does not
decode.  A signature is the key that made it, `"forged"`, or `"not_base64"`.
`reply` is the last answer given, `authorised` the keys ever given to a device;
both are only for the properties.

`Overlap` adds two histories and no step.  A thread is in `overtaken` when a
report of its device was stored after its own had passed `verify_report` and
before its own transaction (`Overtake`); a device is in `crossed` once such a
report was stored for it all the same (`Cross`).

**Delivery.**  A copy is a report with the number of its attempt.  `Claim` is a
report process that has its snapshot and its sequence; what it claims is any
`UsageLedger`, which is what `Gateway.tla` promises of one process at a time
(`GatewayImplementsLedger`).  `StartPost` builds the payload and sends the first
copy; `TakeAnswer` is the three ranges of status codes; `Timeout` the HTTPError
branch when an answer has become impossible (the copy or its answer was lost, or
the worker died), `TimeoutEarly` the same while the copy is still on its way or
in a thread's hands.  Both go through `NextAttempt`: the identical payload
again, or the end. `flying` is unordered, so copies overtake each other.
`Receive` is the endpoint up to the verdict of `Backend!VerifyReport`, `Store`
and `StoreFails` are `Backend`'s own actions with the HTTP status they end in
(`StatusOf`). `PayloadField` is the name the meter gives the signature: the code
says `"sig"`, with which nothing is ever stored (run `delivery_field`); the
other runs set it to `"signature"` so that everything behind that mismatch is
checked as well. The loop is the gateway's.  The firmware's (reporter.cpp) is the same
but for one path: when `esp_http_client_init` gives a null client it returns with
attempts left (85), which is not modelled. `unsent` may be taken up by any poster, which is more than one
process does. Devices are registered and keys are not rotated here, `Backend`
alone covers those.

**Capture.**  A command is some full parts and perhaps a short one; `air` holds
the parts to be notified, `buf` the handlers' buffers.  `Notify` is the handler
with its early return; the new buffer is made before the callback runs, so that
a callback that raises leaves nothing behind, and the callback itself is one
element of `handed`.  `Miss` is a lost notification, `Detach` a lost link, which
`run` does not notice.  For the proxy, `Execute` is the appliance, `Written` the return
of `write_gatt_char` and the callback, `WriteFails` an exception from it.
`Restart` is the end of the process anywhere and a new one; the writes that travel go
on travelling.  `mtuKnown` is whether bleak tells the MTU, without which every
part is a value of its own.

**Gateway.**  `logged`, `counters`, `sequence` are the three tables; `live` is
the part of `Counter._counts` about the meter's own device.  A meter process is
`StartMeter` (`_load`), then `AppendEvent` and `CountEvent` for each write (the
two commits of `handle`), `SaveCounterFails` (the database refuses, by error or
by its trigger, and the process lives on, as under the proxy, or ends),
`StopMeter`, `CrashMeter`.  A report process is `LoadCounters`, `LoadSequence`,
`CheckSequence`, `SaveSequence` and one `PostReport` per device; `EndReport`
is its end, early or not.  `sent` holds every report handed to the network; the
code never looks at the answer beyond counting failures.

**Firmware.**  `nvsCount`, `nvsSequence`, `nvsHead`, `slots` survive a
`PowerLoss`; `entries`, `sequence`, `head` do not.  `record` is `AppendEvent`
(nvs_set_blob), `SaveHead` (RAM head, then NVS head), `SkipUnknown` or
`Increment`, `SaveCounter` (with storage's refusal to go back).  `Incremented`,
`Saved` and `SavedSequence` are what a counter and NVS make of a value.  A save has
three outcomes: storage reads the stored value and applies its guard; the read
fails, nothing is compared and the new value is stored as it is
(storage_nvs.cpp:68, 103); or nothing is stored.  `report_task`
is `NextSequence`, `SaveSequence`, one `PostEntry` for each turn of the loop,
`EndBatch`; the loop keeps the iterator it began with, and once `entries_` was
reallocated (`Full`: libstdc++ doubles a vector's capacity) `dangling` lets it
read any id and any of `FreedCounts` (`FreedReports`).  `from` in a report of `sent`
says which of the two it was read from.  `Boot` is `app_main`: the sequence, the head, and the one
counter of `kMeterDeviceId`.  Ids map to NVS keys by the constant `CounterKey`.

**Reassembly.**  `pool` is `g_reasm`; `OnFragment` is the whole of
`observer_on_att_fragment` with `find_slot`, `claim_slot` (its sweep of stale
slots included), the test for a break (`Broken`), the append and `deliver`.  A
byte is named by the write it belongs to and its offset there, so that a
delivered value says where it came from.  `ShortWrite`, `BeginLongWrite`,
`PrepareWrite`, `ExecuteWrite` are the link, each PDU captured or missed;
`FallSilent` lets a slot's timeout pass.

**License.**  `LoadPolicy`, `ReadLatest`, `ReadBaseline` are the three reads,
`ReadFails` an sqlite3.Error in any of them, `failed` which; `EditPolicy` and
`AcceptReport` happen in between.  `Ask` is `get_license` up to `decide`: its own
SELECT of the device is guarded by nothing and may end in a 500
(`internal_error`).  `work` is when each unit of work was done, the truth that
usage is compared with.  One unit of time stands for the resolution
of the stored timestamps; `WallClock` says whether the meter stamps its reports with a
calendar clock, as the gateway's `cmd_report` does, or with seconds since boot, as
every firmware meter does (main.cpp:85); the run and `QuotaKept` are about the first.

**Matcher.**  `LoadRule` and `FinishLoading` accept what `load_events` accepts;
`Duplicate` is its test.  `Candidates` is the index by characteristic, kept as
places in the list; "" is the gateway's None, as `or` in `classify` takes it and
as no rule can be called.  `GatewayMatch` and `FirmwareMatch` are the two
`match` functions, `GatewayCounts` and `FirmwareCounts` add what their callers
do with the result.

## 3. What is checked

Every specification but one is `Init /\ [][Next]_vars`: no fairness is assumed
and the safety properties depend on none.  A process may stop for ever at every
step, which is also how a crash without a restart is covered.

`Delivery` has the one liveness property, `ReportsArrive`, under `FairSpec`:

* weak fairness of `Posted(p)`: the event loop of a report process resumes it
  when an answer is there, a timeout has passed or a sleep is over (httpx has a
  timeout of 10 s, the loop is a bounded `for`);
* weak fairness of the receipt of each copy: what the network has not lost
  arrives, and Uvicorn's thread pool takes it up when a thread is idle.  It is
  stated for each copy, so that no newer copy is preferred for ever;
* weak fairness of `Served(t)`: a thread ends its transaction, by COMMIT or by an
  error (SQLite's busy timeout bounds the wait).

No fairness is given to `StartPost` (nobody makes the operator run `report`), to
`Kill`, or to a loss; the property excepts killed processes and as many
faults as there are copies.

Runs that pass:

| run | instance | shows |
|---|---|---|
| `backend_race` | 1 device, 2 keys, 2 threads, sequences and counts 0..1 | reports, registrations, queries and rotations race, fail and die anywhere: every answer is true (accepted is stored, a refusal has a stored reason, a usage is a stored report), the marks name a stored report so that the device is never wedged, only authorised keys sign, nobody is re-keyed by registering |
| `backend_overlap` | 1 device, 1 key, 2 threads, sequences 0..2, counts 0..1 | whatever overlaps, fails and is repeated: a mark goes back only by the commit of an overtaken report, and until one is stored for a device its reports are a ledger |
| `delivery_retries` | 1 device, 2 posters, 2 threads, sequences and counts 1..2, 2 attempts, 3 faults | verdicts of `post` are true, the total follows a report made in quiet, reports arrive |
| `capture_ways` | 2 characteristics, 3 commands of up to 2 full parts and a tail, 1 restart, observer or proxy, MTU known or not | no part counts twice, values are whole or it can be told why not, other characteristics do not interfere, the proxy counts what ran |
| `gateway_serial` | a device with 2 meters and one with 1, 1 reporter, 3 events and 1 fault per device, 2 batches | no count without a logged event, losses bounded by faults where the meter is alone, reports durable, sequences fresh, the ledger is implemented |
| `firmware_faults` | 2 appliances of which one is `kMeterDeviceId`, ring of 2, heads to 3, 2 batches a boot, 1 power loss in mid-event and any number between events, 1 failed call | what survives power losses, a failed NVS call (the read before a save included) and the dangling iterator, through which a count of 3 may be read that no appliance has; with a working NVS, one event lost per power loss in mid-event and no sequence used twice |
| `reassembly_writes` | 2 connections x 2 attributes, 2 slots, values to 3, limit 2, 3 writes | at most one value per write, whole unless the run missed a PDU, no leftovers, only stale runs give up their slot |
| `license_decide` | 48 rows over NULL, empty and garbled text, numbers and a period too large, 2 units, 2 reports, 3 days | an allow rests on a row that says so, the quota holds, usage reported before the period is not charged, a read that fails ends in a denial |
| `matcher_rules` | all lists of at most 2 rules, prefixes and values to 2 bytes of 2, 2 characteristics | order does not change what counts, the two sides agree on values that are not empty |

Why these are enough to be of use: every hazard is between two actors, or
between one actor and one fault, so two threads (two processes, two tasks) and
one or two faults reach it.  Three faults lose both copies of one report and
disturb the other, or kill a backend transaction between two losses; with two
attempts a second copy meets what the first one left.  Three commands put one
before and one after the one in question on its characteristic, or one beside
it.  Two sequences are enough for a late report to commit behind a newer one and
for a third request to meet the marks it leaves; `backend_overlap` has a third
behind both. Three events let a meter
overwrite a total that another has taken two further. A ring of two with three
heads wraps; a value of three against a limit of two overruns; three writes on
four runs exhaust two slots; two rules are the least that can be in the wrong
order; three days have a before, a cutoff and an after. The bounds are the
constants called `Max...`, `CountLimit`, `FreedCounts`, `Sequences` and `Counts`; `Full` in
`Firmware` stops at vectors of 2^16 entries.

What the passing runs leave out on purpose, because the property fails there
(section 4): overlapping report processes, a meter without a calendar clock
(`WallClock = FALSE`), text in `active`, an event called `unknown`, the meters'
own name for the signature.

`delivery_*` and `capture_ways` turn deadlock checking off: their reports and
commands are bounded and all come to an end.  Every other model can always take
a step.

## 4. Where the code and its documents disagree

Each of these is a run in which TLC finds the property violated; `PROJECT.json`
quotes the line that promises it.

| run | property | what happens |
|---|---|---|
| `delivery_field` | `RejectedOnlyIfCovered` | the meters send `sig`, the backend requires `signature`: 422, final |
| `delivery_total` | `TotalIsHighest` | a report still being verified is stored behind a newer one and lowers the total |
| `firmware_reboot` | `CountSurvivesReboot` | counts under any id but `kMeterDeviceId` start over |

Narrower disagreements have no run of their own; a property that passes says
how far the promise goes, and the model shows where it ends:

* `save_sequence` checks and writes in two statements: a process that checked
  before another saved takes the stored sequence back (store.py:104 raises
  "sequence rollback" for exactly this); the steps are `CheckSequence` and
  `SaveSequence` of `Gateway`, and `SequenceNeverReused` is for one process.
* `report_task` walks freed memory when a second appliance's first write
  reallocates `entries_` (main.cpp:89, counter.cpp:50); such a
  report may say anything, and `ReportsAreBacked` is about the others.
* "A bug upstream cannot roll the persisted count back" (storage_nvs.cpp:69-70) is
  so only while `nvs_get_u64` succeeds: if that read fails, the count of an
  appliance that was not restored after a reboot overwrites a higher one, and
  `save_sequence` does the same; `NvsRollsBackOnlyOnFault`.
* An NVS error other than "not found" when the log head is read leaves it at
  zero (storage_nvs.cpp:48), and the ring begins anew; `LoggedEntriesSurvive` and
  `NvsRollsBackOnlyOnFault` except it.
* A stale run that is found before anyone claims a slot goes on growing
  (ble_observer.cpp:38 "otherwise a stale prefix could be glued");
  `ValuesAreSound` says what such a value still is.
* When the start of a command is missed its tail is handed over alone, and a
  command that fills its last notification waits for the next one
  (observer.py:69 "joined by length"); `WholeUnlessMissed`.
* A link that drops is not noticed by `run` (observer.py:63); `Detach`.
* A delivered report whose answer was lost is tried again, refused as a replay
  and printed as undelivered (cli.py:123); `RejectedOnlyIfCovered` says it is
  stored.
* Two overlapping report processes share a sequence (counter.py:49 "never
  reused"), or send an older count under a newer one; `SequenceNeverReused` and
  `ImplementsLedger` hold for one process at a time.
* A crash between log and counter loses an event (README.md:116 "exact match");
  `AtMostOneLostPerFault` bounds the loss.
* A firmware report can be one ahead of NVS and be taken back by a power loss
  (reporter.cpp:4 "the count is already persisted"); `ReportsAreBacked`.
* A sequence that could not be saved is sent, and sent again after a boot
  (counter.h:29); `SequenceNeverReused` of `Firmware` assumes a working NVS.
* `LogEntry.seq` is the report sequence, not a "log slot number, strictly
  increasing" (storage_nvs.h:14).
* When the end of one write and the start of the next are missed, what is left
  may be joined (ble_observer.cpp:129 "cannot match a partial value");
  `ValuesAreSound`.
* `expires_on = ''` never expires and any text in `active` is active
  (policy.py:4 "fail closed"); `AllowsAreConfident` counts an empty text as no
  date.
* A `period_days` too large for timedelta raises OverflowError (policy.py:125
  "Every failure mode lands on deny"), and so does, as an sqlite3.Error, the SELECT of
  the device before `decide` is entered (app.py:154): both answer 500.
  `FailedReadsDeny` is about the reads in `decide`, and of the device it says only that
  there is no allow.
* A report of the very second of the cutoff is compared as text and taken for an
  earlier one (policy.py:68 "strictly before"); `Before` in `License`.
* A meter without SNTP stamps seconds since boot (signer.h:16 "unix seconds") and
  uses up no quota; `QuotaHolds` needs `WallClock`.
* An empty value is counted by the gateway only, an event called `unknown` by the
  firmware only, (matcher.py:4 "both sides must agree"); `SidesAgreeOnValues`.
* Overlapping prefixes: the order of the file names the event (matcher.py:11
  "order cannot matter"), though `CountIgnoresOrder`.
* `counted_events` is read by nothing (events.example.yaml:52).

Noticed while reading, and in no property: meters report a peer address as
`device_id` while the documents register a meter id (docs/deployment.md);
`debounce_ms` is never read.

## 5. What is proved

Assumptions on constants, each next to the constants it is about: bounds are
naturals or positive, the special strings are no keys, and the values that stand
for nothing (`None`, `Free`) are none of the values they are told apart from
(`BackendAssumption`, `GatewayAssumption`, `FirmwareAssumption`,
`LicenseAssumption`, `CaptureAssumption`, `DeliveryAssumption`,
`ReassemblyAssumption`, `MatcherAssumption`); a meter watches a device, the ring and the pool have a
slot.  No other constant is restricted: sets may be infinite or empty.

Some theorems have a hypothesis, without which the property is false, as section
4 shows: `OneReporter` (one report
process at a time), `Parses` (the backend knows the payload's signature field),
`WallClock` (the meter knows the date), `NoRuleIsUnknown` (no event of the file is
called `unknown`).  `NoCollisions` (no two ids share an NVS
key) is the case that section 6 leaves out.  Where NVS has to work, the property
says so.

**BackendProofs.**  `TypeStep` treats the nine actions once.  `TableSteps` then
reduces a step to one of three changes of the tables - a commit, an insert, a
rotation - or none, and the later proofs are about these three.

* `SequencesUnique`, `HistoryAppendOnly`, `NeverRekeyed` follow from the types and
  what the steps do to the tables.
* `MarksNamed`, `NeverWedged`: the marks being those of a stored report is not
  inductive alone, since a registration that is late would reset them;
  `MarksInv` adds that a device with a stored or a verified report has a row.
* `AcceptedStored`, `ReplayRefusalsJustified`, `RollbackRefusalsJustified`:
  `RepliesInv` on top of `MarksInv`, because a refusal compares with a mark and
  the property speaks of rows.
* `UsageBacked`: `UsageInv` on top of `MarksInv` says of a query between its two
  reads what the answer will say; the second read counts at least the row the
  marks named, for which the rows must be finite.  `AnswersTrue` puts the four
  kinds of answers together.
* `SignersAuthorised`: `SignersInv` adds that the current key and the signer of
  every report in flight are authorised, which is what survives a rotation.
* `MarksHighWater`, `CountsFollow`, `RetreatNeedsOvertaking`, `LedgerKept`, about
  `Overlap` and for any number of threads: `OverlapInv` adds that a verified report
  which was not overtaken still exceeds the marks.  `StoredAbove` is the step that
  needs it: such a report is stored above all rows of its device.  The code
  promises more than is true (`TotalIsHighest` in section 4), and these theorems say
  that overtaking between `verify_report` and the transaction is the only cause.

**GatewayProofs.**  `TypeInv` adds to the types that a claimed batch is
numbered from one.

* `CountersMonotonic`, `CountsHaveEvidence`, with any number of meters:
  `EvidenceInv` adds that a meter in mid-event is below the log.
* `LossIsBounded`, for every device that one meter watches, whatever the others
  do: `LossInv` adds that its meter, when running, is not behind the disk, and
  states the bound exactly for the two situations, event in progress or not.
* `ReportsDurable`: `SnapshotInv`, a snapshot may be old and never ahead.
* `SequenceDurable`, `ReportsRise`, `SequencesFresh`, `GatewayImplementsLedger`,
  under `OneReporter`: the reports of the batch that is being posted continue
  those sent.

**FirmwareProofs.**  The entries are a sequence shared by two tasks, so the
types need that no id has two entries and that the iterator stays within the
entries the loop began with.

* `EntriesSurvive`: `LogInv` says that each slot of the ring holds the newest
  entry meant for it up to `Written`, a head that may be ahead of the one in NVS
  (a save failed) and of the one in RAM (between a slot and its head).
* `NvsKept` is an action property and needs the types only; the three outcomes of
  a save are its cases.
* `SequencesFresh`: `SequenceInv`, what was sent is not above NVS, and RAM is above
  NVS only while a save is pending.
* `ReportsBacked`: `BackedInv` follows a matched write from the log (`Pending`)
  through RAM (`Counted`) to NVS, and bounds RAM by NVS and the failed calls.
* `LossesBounded`: `LossInv`, the restored id's entry is not behind NVS
  (`EntryAhead`), and what is in neither was paid for by a power loss
  (`LossBound`).

**LicenseProofs.**  A decision is three reads, between which rows and reports
change.  `AnswerInv` says that the row an answer was computed from had nothing
garbled in what the answer used (`AllowsConfident`); `FailInv` says in
which phases a read may have failed and what was answered (`FailuresDenied`).
`ReportsInv` orders reports by what they count, and `LapseInv` adds what a
decision has read so far (`UsageLapses`). `QuotaKept` needs `ClockInv`, what a
report counts was done before its end, and `PeriodIsCharged`: the work of the
period is no more than the difference that is charged.  `LargestIndex` is about
finding the last report before the cutoff.

**CaptureProofs.**  `PartsInv` says that a part is in the air, in a buffer or in
one value, once, on the characteristic of its command, and nowhere before its command is
`Seen`.  `ProxyInv` says of each write of the proxy that it is being written, has
failed or was handed over, the last only after the appliance executed it.

`ValuesWhole` and `CompleteHanded` speak of the order of parts, which `PartsInv`
forgets.  `AirInv` says that what is still to be notified on a characteristic is
the rest of its latest command, none of it heard, and that what was heard are parts of
commands.  `BufferInv` says of each buffer that it holds full parts whose command
has not ended in anyone's hearing (`HoldsOpen`); that it ends with all of the
current command so far if nothing of that was missed, and is nothing else if the
command before was closed (`HoldsCurrent`); that between two commands it is empty
unless the last one was left open (`HoldsOverOpen`); and that no value has parts of
the current command yet (`ValuesApart`).  When the end of a command is heard,
`WholeValue` then makes the buffer and that end the command, and anything else in the buffer is
what `WholeUnlessMissed` excuses.  Both are proved for any number of commands and
parts, where the run has three commands.

**DeliveryProofs.**  The composition shares `Backend`'s variables, and its steps
are taken apart once into steps of the poster, the network and the gate.  `Inv`
is `LedgerInv` (stored rows are reports that were made, one per sequence, copies
carry what was made), `MarksInv` (the marks are those of a stored report, or
none) and `VerdictInv` (an answer on its way tells the truth about its copy).
`DeliveredStored` and `RejectionsCovered` read it off. `QuietSetsTotal` needs
`CalmInv`: nothing older than a report made in quiet is `UnderWay`, so nothing
can be stored behind it, and stored it owns the marks.

`GivenUpOnFaults` counts.  `Spent` is the set of copies, as pairs of a report and
an attempt, that came to nothing: all attempts of a report given up, the earlier
ones of a report being posted, and the one a process waits for when its answer is a
server error or nothing is left that could answer.  `SpentInv` says that they are
no more than the faults; a step adds at most one copy (`Spends`, `SpentSteps`) and
adds one only together with a fault.  `VerdictsTrue` puts the three verdicts
together.

**ReassemblyProofs.**  `ExtendSteps`, `FragmentSteps` and `CapturedSteps` reduce
the handler to three outcomes - the PDU is missed, the run is lost, or it grows
in one slot - and the four PDUs of the link to one (`Pdu`).

* `TypeCorrect`: that no run has two slots is kept because `find_slot` comes
  first; `LinkInv` ties the link to the sizes.
* `OneMatchPerWrite`: `OwnInv`, a write is in at most one place, in the
  slot of the run on which it is in progress or in one delivered value.
* `SoundValues`: `SoundInv`, what a slot holds is in place, and belongs to the
  write in progress unless the run missed a PDU.
* `NoLeftovers`: `SessionInv`.  `FreshKept` needs the types only.
* `NothingIsDropped`: `CalmInv`, every write in progress that still fits is
  buffered up to its offset; `NotLost` is the one place where the pool's
  capacity and the limit matter.

**MatcherProofs.**  `SameFit` shows that the three ways in which the two programs
compare bytes are one (`Fits`), so that both choose the first of the same rules
(`Verdicts`).  Another order of the rules is a bijection of their places
(`OrdersReorder`), under which some rule fits or none does; hence
`OrderNeverChangesCount`, and `SidesAgree` with no reordering at all.  Both need the
types of the rules only: that there are no duplicates matters for the name of the
event, and `EqualPrefixesNeedNoOrder` says how far.  It makes the order irrelevant to the
name when the prefixes on a characteristic are equally long, and section 4 shows
that otherwise it does not.

Proved and in no run of their own: `OneRowPerSequence`, `HistoryIsAppendOnly`,
`MarksAreHighWater`, the parts of `AnswersAreTrue`, `CountsFollowSequences`,
`CountersNeverDecrease`, `SequenceDurableBeforeSent`, `ReportsKeepRising`,
`DeliveredIsStored`, `RejectedOnlyIfCovered` (under `Parses`) and
`GivesUpOnlyOnFaults`, and `NameIgnoresOrder`, defined beside its proof.  The first
of them are close to one guard of the code; the last three of `Delivery` are the parts of
`VerdictsAreTrue`, and the two before them parts of `ImplementsLedger`, which are
run.

Only model-checked: the liveness property `ReportsArrive`, since liveness under
fairness and ENABLED are out of the prover's reach, as are induction over data
and recursive operators.  Every other property of a passing run is a theorem,
under the hypothesis named above where it has one.

## 6. What is not modelled

* Ed25519 and the canonical bytes: a signature is known by its signer; the
  encoders are compared with each other by `tests/test_sign_verify.py`.
* Schema migration and `backend/db.py`: its autocommit connections are why
  each statement is a step; there is no further behaviour in it.
* Which pool thread runs the dependency and which the endpoint (db.py:60).
* The relay of notifications from the appliance to the app, which keeps nothing.
* Scanning, advertisement logging, NimBLE start and stop; `read_recent`.
* The erasure of an NVS partition that cannot be parsed.
* UUID and hex parsing of the configuration, `gateway.yaml`'s scalars.
* Two device ids with one NVS key (`CounterKey` allows it, no run does it).
* The operator tools.
* Sizes of SQLite and C++ integers, except that firmware counts saturate.

## 7. Plan

1. Done: `UsageLedger`, `Backend`, `Overlap`, `Gateway`, `Delivery`, `Capture`, `Firmware`,
   `Reassembly`, `License`, `Matcher`, and proofs about all of them.
2. Proofs left: what the compositions below would promise.
3. NVS key collisions: `Firmware` with two ids on one key.
4. `Gateway` composed with `Delivery` over one device: the backend's total never
   exceeds the gateway's log.  Each half is checked against `UsageLedger` now.

A run of a composition replaces a narrower run that asks less of the same code,
so that each question stays asked once.
