---- MODULE Firmware ----
(***************************************************************************)
(* The ESP32 meter (src/firmware/esp32): two FreeRTOS tasks over one NVS   *)
(* partition.  The NimBLE host task runs record() for every complete       *)
(* write; the report task wakes up, claims a sequence and posts one report *)
(* per entry of g_counter.  They share g_counter without a lock.  NVS      *)
(* calls are atomic, may fail, and survive the power loss that can come    *)
(* between any two of them; everything in RAM is gone then.                *)
(***************************************************************************)
EXTENDS Integers, Sequences

CONSTANTS Peers,        \* addresses of the appliances on the link
          MeterId,      \* kMeterDeviceId, the one id app_main restores
          CounterKey,   \* the NVS key an id is hashed to
          Capacity,     \* kEventLogCapacity
          CountLimit,   \* UINT64_MAX
          MaxHead,      \* bound: the log head
          MaxSequence,  \* bound: batches started in one boot
          MaxPowerLoss, \* bound: power losses in the middle of record()
          MaxFaults,    \* bound: NVS calls that fail
          FreedCounts,  \* bound: counts that a freed block can hold
          None          \* "no entry in this log slot", "no write in record()"

Ids == Peers \cup {MeterId}

NvsKeys == {CounterKey[d] : d \in Ids}

Writes == [device: Peers, event: {"matched", "unknown"}]

LogEntries == [at: 0..MaxHead, seq: 0..MaxSequence, device: Peers,
               event: {"matched", "unknown"}]

\* A report, and whether it was read from an entry or from a freed block.
Reports == [device: Ids \cup {"garbled"}, count: 0..CountLimit, sequence: 0..MaxSequence,
            from: {"entry", "freed"}]

ASSUME FirmwareAssumption ==
    /\ DOMAIN CounterKey = Ids
    /\ Capacity \in Nat \ {0}
    /\ CountLimit \in Nat \ {0}
    /\ MaxHead \in Nat
    /\ MaxSequence \in Nat
    /\ MaxPowerLoss \in Nat
    /\ MaxFaults \in Nat
    /\ FreedCounts \subseteq 0..CountLimit
    /\ "garbled" \notin Ids
    /\ None \notin Writes \cup LogEntries

VARIABLES nvsCount,     \* counter per NVS key; 0 when it was never written
          nvsSequence,  \* kNvsKeySeq; 0 when it was never written
          nvsHead,      \* kNvsKeyLogHead
          slots,        \* the log ring; `at` is the head it was written under
          entries,      \* g_counter.entries_, in order of arrival
          sequence,     \* g_counter.sequence_
          head,         \* g_storage.head_
          host,         \* how far record() has come in the host task
          write,        \* the write record() is working on
          reporter,     \* how far report_task has come
          next,         \* position of the range-for's iterator
          end,          \* its end, fixed when the loop is entered
          dangling,     \* entries_ was reallocated under the iterator
          sent,         \* history: every report handed to the network
          matched,      \* history: matched writes of each peer that record() saw
          high,         \* history: one more than the highest head written under
          misread,      \* history: some boot could not read the log head
          losses,       \* history: power losses in the middle of record()
          faults        \* history: NVS calls that failed

nvs == <<nvsCount, nvsSequence, nvsHead, slots>>
hostTask == <<host, write>>
reportTask == <<reporter, next, end>>
history == <<sent, matched, high, misread, losses, faults>>
vars == <<nvs, entries, sequence, head, hostTask, reportTask, dangling, history>>

\* Mutant: one slot of the ring is never used.
SlotShort(n) == IF Capacity = 1 THEN 0 ELSE n % (Capacity - 1)

\* slot_key.
Slot(n) == n % Capacity

\* Counter::find: the position of an id's entry, 0 when it has none.
Find(d) == LET at == {i \in DOMAIN entries : entries[i].device = d}
           IN IF at = {} THEN 0 ELSE CHOOSE i \in at : TRUE

\* push_back has to reallocate: the vector's capacity doubles.
Full == \E k \in 0..16 : Len(entries) = 2^k

\* Mutant: unrecognised writes are counted too.
CountsAny(event) == TRUE

\* record() goes on to count a write only if a rule matched it.
Counts(event) == event # "unknown"

\* Mutant: the comparison with the limit comes too late.
IncrementedLate(c) == IF c > CountLimit THEN CountLimit ELSE c + 1

\* Counter::increment saturates.
Incremented(c) == IF c > CountLimit - 1 THEN CountLimit ELSE c + 1

\* Mutant: a lower value is not refused.
SavedUnguarded(stored, c) == c

\* Storage::save_counter refuses a value below the stored one it has read.
Saved(stored, c) == IF c < stored THEN stored ELSE c

\* Mutant: the sequence stays in RAM.
SavedSequenceNever(stored, n) == stored

\* Storage::save_sequence refuses a value below the stored one it has read.
SavedSequence(stored, n) == IF n < stored THEN stored ELSE n

\* An NVS call fails; the bound keeps the failures few.
NvsError == faults < MaxFaults /\ faults' = faults + 1

-----------------------------------------------------------------------------
(* Host task: main.cpp record().                                            *)

\* nvs_set_blob writes the slot under the current head, or append_event fails
\* there and record() goes on as if it had not.
AppendEvent(d, event) ==
    /\ host = "waiting"
    /\ head < MaxHead
    /\ write' = [device |-> d, event |-> event]
    /\ \/ /\ slots' = [slots EXCEPT ![Slot(head)] =
                         [at |-> head, seq |-> sequence, device |-> d, event |-> event]]
          /\ high' = IF head < high THEN high ELSE head + 1
          /\ host' = "slot_written"
          /\ UNCHANGED faults
       \/ /\ NvsError
          /\ host' = "logged"
          /\ UNCHANGED <<slots, high>>
    /\ matched' = IF event = "unknown" THEN matched ELSE [matched EXCEPT ![d] = @ + 1]
    /\ UNCHANGED <<nvsCount, nvsSequence, nvsHead, entries, sequence, head, reportTask,
                   dangling, sent, misread, losses>>

\* head_ moves in RAM whether or not nvs_set_u32 then stores it.
SaveHead ==
    /\ host = "slot_written"
    /\ head' = head + 1
    /\ \/ nvsHead' = head + 1 /\ UNCHANGED faults
       \/ NvsError /\ UNCHANGED nvsHead
    /\ host' = "logged"
    /\ UNCHANGED <<nvsCount, nvsSequence, slots, entries, sequence, write, reportTask,
                   dangling, sent, matched, high, misread, losses>>

\* An unrecognised write ends after the log.
SkipUnknown ==
    /\ host = "logged"
    /\ ~ Counts(write.event)
    /\ host' = "waiting"
    /\ write' = None
    /\ UNCHANGED <<nvs, entries, sequence, head, reportTask, dangling, history>>

\* Counter::increment; a first write of a peer is a push_back, which
\* may move the vector away from under the report task's iterator.
Increment ==
    LET i == Find(write.device) IN
    /\ host = "logged"
    /\ Counts(write.event)
    /\ host' = "counted"
    /\ IF i = 0
       THEN /\ entries' = Append(entries, [device |-> write.device, count |-> 1])
            /\ dangling' = (dangling \/ (reporter = "posting" /\ next <= end /\ Full))
       ELSE /\ entries' = [entries EXCEPT ![i].count = Incremented(@)]
            /\ UNCHANGED dangling
    /\ UNCHANGED <<nvs, sequence, head, write, reportTask, history>>

\* Storage::save_counter: refusal and failure are both only logged.  When
\* nvs_get_u64 fails nothing is compared, and the count is stored as it is.
SaveCounter ==
    LET k == CounterKey[write.device]
        c == entries[Find(write.device)].count
    IN
    /\ host = "counted"
    /\ host' = "waiting"
    /\ write' = None
    /\ \/ nvsCount' = [nvsCount EXCEPT ![k] = Saved(@, c)] /\ UNCHANGED faults
       \/ NvsError /\ nvsCount' = [nvsCount EXCEPT ![k] = c]
       \/ NvsError /\ UNCHANGED nvsCount
    /\ UNCHANGED <<nvsSequence, nvsHead, slots, entries, sequence, head, reportTask,
                   dangling, sent, matched, high, misread, losses>>

-----------------------------------------------------------------------------
(* Report task: main.cpp report_task().                                     *)

\* What may be signed and sent through a dangling iterator.
FreedReports == [device: Ids \cup {"garbled"}, count: FreedCounts,
                 sequence: {sequence}, from: {"freed"}]

\* Awake again: next_sequence.
NextSequence ==
    /\ reporter = "delaying"
    /\ sequence < MaxSequence
    /\ sequence' = sequence + 1
    /\ reporter' = "sequenced"
    /\ UNCHANGED <<nvs, entries, head, hostTask, next, end, dangling, history>>

\* Nobody looks at what save_sequence returns, and the loop over the entries is
\* entered either way; a sequence that cannot be read is not compared with.
SaveSequence ==
    /\ reporter = "sequenced"
    /\ \/ nvsSequence' = SavedSequence(nvsSequence, sequence) /\ UNCHANGED faults
       \/ NvsError /\ nvsSequence' = sequence
       \/ NvsError /\ UNCHANGED nvsSequence
    /\ reporter' = "posting"
    /\ next' = 1
    /\ end' = Len(entries)
    /\ dangling' = FALSE
    /\ UNCHANGED <<nvsCount, nvsHead, slots, entries, sequence, head, hostTask, sent,
                   matched, high, misread, losses>>

\* Reporter::post of one entry: its count as it is in RAM now.  Through a
\* dangling iterator it is whatever the freed block holds: any id, any count.
PostEntry ==
    /\ reporter = "posting"
    /\ next <= end
    /\ \E r \in IF dangling THEN FreedReports
               ELSE {[device |-> entries[next].device, count |-> entries[next].count,
                      sequence |-> sequence, from |-> "entry"]} :
          sent' = sent \cup {r}
    /\ next' = next + 1
    /\ UNCHANGED <<nvs, entries, sequence, head, hostTask, reporter, end, dangling,
                   matched, high, misread, losses, faults>>

\* The loop is over; the task sleeps for kReportIntervalSec.
EndBatch ==
    /\ reporter = "posting"
    /\ next > end
    /\ reporter' = "delaying"
    /\ dangling' = FALSE
    /\ UNCHANGED <<nvs, entries, sequence, head, hostTask, next, end, history>>

-----------------------------------------------------------------------------
(* Power.                                                                   *)

\* Power is lost, or the freed block makes the report task fault: RAM is gone.
PowerLoss ==
    /\ \/ host = "waiting" /\ UNCHANGED losses
       \/ host \notin {"off", "waiting"} /\ losses < MaxPowerLoss /\ losses' = losses + 1
    /\ host' = "off"
    /\ write' = None
    /\ entries' = <<>>
    /\ sequence' = 0
    /\ head' = 0
    /\ reporter' = "off"
    /\ next' = 1
    /\ end' = 0
    /\ dangling' = FALSE
    /\ UNCHANGED <<nvs, sent, matched, high, misread, faults>>

\* Mutant: the log head is not read back.
LoadHeadNever == 0

\* Storage::init's head, Storage::load_sequence and Storage::load_counter; a key
\* that was never written reads as zero.
LoadHead == nvsHead

LoadSequence == nvsSequence

LoadCounter(d) == nvsCount[CounterKey[d]]

\* Mutant: app_main restores the sequence only.
RestoredNever == <<>>

\* Counter::restore into an empty Counter, of a count that is not zero.
Restored == IF LoadCounter(MeterId) = 0 THEN <<>>
            ELSE <<[device |-> MeterId, count |-> LoadCounter(MeterId)]>>

\* app_main: the head, the sequence and the counter of kMeterDeviceId (of no
\* other id) come back from NVS; a failed read leaves the value at zero.  The
\* report task is created only if the signing key can be read.
Boot ==
    /\ host = "off"
    /\ host' = "waiting"
    /\ reporter' \in {"delaying", "off"}
    /\ \/ /\ head' = LoadHead /\ sequence' = LoadSequence /\ entries' = Restored
          /\ UNCHANGED <<misread, faults>>
       \/ /\ NvsError
          /\ \/ /\ head' = 0 /\ sequence' = LoadSequence /\ entries' = Restored
                /\ misread' = TRUE
             \/ /\ head' = LoadHead /\ sequence' = 0 /\ entries' = Restored
                /\ UNCHANGED misread
             \/ /\ head' = LoadHead /\ sequence' = LoadSequence /\ entries' = <<>>
                /\ UNCHANGED misread
    /\ UNCHANGED <<nvs, write, next, end, dangling, sent, matched, high, losses>>

-----------------------------------------------------------------------------
Init ==
    /\ nvsCount = [k \in NvsKeys |-> 0]
    /\ nvsSequence = 0
    /\ nvsHead = 0
    /\ slots = [n \in 0..Capacity - 1 |-> None]
    /\ entries = <<>>
    /\ sequence = 0
    /\ head = 0
    /\ host = "off"
    /\ write = None
    /\ reporter = "off"
    /\ next = 1
    /\ end = 0
    /\ dangling = FALSE
    /\ sent = {}
    /\ matched = [d \in Peers |-> 0]
    /\ high = 0
    /\ misread = FALSE
    /\ losses = 0
    /\ faults = 0

Next ==
    \/ \E d \in Peers, event \in {"matched", "unknown"} : AppendEvent(d, event)
    \/ SaveHead
    \/ SkipUnknown
    \/ Increment
    \/ SaveCounter
    \/ NextSequence
    \/ SaveSequence
    \/ PostEntry
    \/ EndBatch
    \/ PowerLoss
    \/ Boot

Spec == Init /\ [][Next]_vars

-----------------------------------------------------------------------------
(* Properties.                                                              *)

\* Every variable has its type; no id ever has two entries, restored or new, so
\* that Counter::find is unambiguous; and the iterator stays within the entries
\* there were when the loop began.
TypeOK ==
    /\ nvsCount \in [NvsKeys -> 0..CountLimit]
    /\ nvsSequence \in 0..MaxSequence
    /\ nvsHead \in 0..MaxHead
    /\ slots \in [0..Capacity - 1 -> LogEntries \cup {None}]
    /\ entries \in Seq([device: Ids, count: 1..CountLimit])
    /\ \A i, j \in DOMAIN entries : entries[i].device = entries[j].device => i = j
    /\ sequence \in 0..MaxSequence
    /\ head \in 0..MaxHead
    /\ host \in {"off", "waiting", "slot_written", "logged", "counted"}
    /\ write \in Writes \cup {None}
    /\ reporter \in {"off", "delaying", "sequenced", "posting"}
    /\ next \in Nat /\ end \in 0..Len(entries) /\ next <= end + 1
    /\ dangling \in BOOLEAN
    /\ sent \subseteq Reports
    /\ matched \in [Peers -> Nat]
    /\ high \in 0..MaxHead
    /\ misread \in BOOLEAN
    /\ losses \in 0..MaxPowerLoss
    /\ faults \in 0..MaxFaults

\* The ring loses only its oldest entries, whatever power losses and failed
\* writes of the head come between: every entry whose head was saved, and that
\* Capacity later writes have not pushed out, is in its slot (append_event).  A
\* head that cannot be read is taken for zero, and the ring begins anew.
LoggedEntriesSurvive ==
    ~ misread => \A n \in 0..nvsHead - 1 :
        n + Capacity >= high => slots[Slot(n)] # None /\ slots[Slot(n)].at = n

\* The persisted count and sequence go back only in a step in which an NVS call
\* failed, whatever the RAM of a rebooted meter holds (save_counter and
\* save_sequence refuse a lower value they can compare); the log head, which
\* nothing guards, only after a boot that could not read it (Storage::init).
NvsRollsBackOnlyOnFault ==
    [][/\ faults' = faults => /\ \A k \in NvsKeys : nvsCount[k] <= nvsCount'[k]
                              /\ nvsSequence <= nvsSequence'
       /\ misread \/ nvsHead <= nvsHead']_<<nvsCount, nvsSequence, nvsHead>>

\* Nothing is reported for an appliance, across reboots and failures, that its
\* matched writes do not account for (main.cpp record), short of what is read from
\* a freed block; and what is about to be reported is durable but for the one
\* increment under way and the saves that failed ("The count is already durable",
\* main.cpp).
ReportsAreBacked ==
    /\ \A r \in sent : r.from = "entry" /\ r.device \in Peers => r.count <= matched[r.device]
    /\ \A i \in DOMAIN entries : entries[i].device \in Peers =>
          entries[i].count <= nvsCount[CounterKey[entries[i].device]] + 1 + faults

\* While NVS calls succeed, the appliance whose id app_main restores loses at most
\* one event to each power loss in the middle of record(), short of saturation.
AtMostOneLostPerPowerLoss ==
    MeterId \in Peers /\ faults = 0 /\ nvsCount[CounterKey[MeterId]] < CountLimit =>
        matched[MeterId] <= nvsCount[CounterKey[MeterId]] + losses
                               + (IF write = None \/ write.event = "unknown" THEN 0 ELSE 1)

\* While NVS calls succeed, a batch starts under a sequence larger than any that
\* was ever sent, reboots in mid-batch included ("never reused", counter.h).
SequenceNeverReused ==
    [][faults' = 0 /\ reporter = "sequenced" /\ reporter' = "posting" =>
          \A r \in sent : r.sequence < sequence]_vars

\* The count survives a reboot (README.md): what NVS holds for an appliance is
\* never ahead of a running meter's own entry once it counts it again.
CountSurvivesReboot ==
    \A i \in DOMAIN entries : entries[i].count >= nvsCount[CounterKey[entries[i].device]]
====
