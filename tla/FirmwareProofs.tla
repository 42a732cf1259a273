---- MODULE FirmwareProofs ----
(***************************************************************************)
(* Theorems about Firmware.tla for every set of appliances, every ring and *)
(* all bounds.  Where one id must not disturb another, the theorem says    *)
(* that no two ids are hashed to one NVS key (NoCollisions).               *)
(***************************************************************************)
EXTENDS Firmware, SequenceTheorems, TLAPS

NoCollisions == \A d, e \in Ids : CounterKey[d] = CounterKey[e] => d = e

Entry == [device: Ids, count: 1..CountLimit]

-----------------------------------------------------------------------------
(* Types.                                                                   *)

\* TypeOK is inductive with what a task that is in the middle of something knows.
TypeInv ==
    /\ TypeOK
    /\ next >= 1
    /\ host = "off" => entries = <<>> /\ end = 0 /\ next = 1 /\ reporter = "off"
    /\ host \in {"slot_written", "logged", "counted"} => write \in Writes
    /\ host = "slot_written" => head < MaxHead
    /\ host = "counted" => \E i \in DOMAIN entries : entries[i].device = write.device

\* Counter::find finds an entry of the id, or there is none.
LEMMA FindEntry ==
    ASSUME TypeOK, NEW d
    PROVE  \/ Find(d) = 0 /\ \A i \in DOMAIN entries : entries[i].device # d
           \/ Find(d) \in DOMAIN entries /\ entries[Find(d)].device = d
<1> DEFINE at == {i \in DOMAIN entries : entries[i].device = d}
<1>1. CASE at = {}
  BY <1>1 DEF Find
<1>2. CASE at # {}
  <2>1. Find(d) = CHOOSE i \in at : TRUE
    BY <1>2 DEF Find
  <2>2. Find(d) \in at
    BY <1>2, <2>1
  <2> QED BY <2>2
<1> QED BY <1>1, <1>2

\* What an entry holds.
LEMMA EntryTypes ==
    ASSUME TypeOK
    PROVE  /\ Len(entries) \in Nat /\ DOMAIN entries = 1..Len(entries)
           /\ \A i \in DOMAIN entries :
                 /\ entries[i] \in Entry
                 /\ entries[i].device \in Ids /\ entries[i].count \in 1..CountLimit
<1>1. entries \in Seq(Entry)
  BY DEF TypeOK, Entry
<1>2. \A i \in DOMAIN entries : entries[i] \in Entry
  BY <1>1
<1> QED BY <1>1, <1>2 DEF Entry

LEMMA SlotTypes ==
    ASSUME NEW n \in Nat
    PROVE  Slot(n) \in 0..Capacity - 1
BY FirmwareAssumption DEF Slot

\* Counting a write keeps the entries apart and in range.
LEMMA IncrementTypes ==
    ASSUME TypeInv, Increment
    PROVE  /\ entries' \in Seq(Entry)
           /\ Len(entries') >= Len(entries)
           /\ \A i, j \in DOMAIN entries' : entries'[i].device = entries'[j].device => i = j
           /\ \E i \in DOMAIN entries' : entries'[i].device = write.device
<1> DEFINE d == write.device
<1>1. d \in Ids
  BY DEF TypeInv, Increment, Writes, Ids
<1>2. entries \in Seq(Entry) /\ Len(entries) \in Nat /\ DOMAIN entries = 1..Len(entries)
  BY EntryTypes DEF TypeInv, TypeOK, Entry
<1>3. \A i, j \in DOMAIN entries : entries[i].device = entries[j].device => i = j
  BY DEF TypeInv, TypeOK
<1>4. CountLimit \in Nat \ {0}
  BY FirmwareAssumption
<1>5. CASE Find(d) = 0
  <2> DEFINE e == [device |-> d, count |-> 1]
  <2>1. entries' = Append(entries, e) /\ e \in Entry
    BY <1>1, <1>4, <1>5 DEF Increment, Entry
  <2>2. \A i \in DOMAIN entries : entries[i].device # d
    BY <1>2, <1>5, FindEntry DEF TypeInv
  <2>3. /\ entries' \in Seq(Entry) /\ Len(entries') = Len(entries) + 1
        /\ \A i \in DOMAIN entries : entries'[i] = entries[i]
        /\ entries'[Len(entries) + 1] = e
        /\ DOMAIN entries' = 1..Len(entries) + 1
    BY <1>2, <2>1
  <2>4. \A i, j \in DOMAIN entries' : entries'[i].device = entries'[j].device => i = j
    BY <1>2, <1>3, <2>2, <2>3
  <2>5. Len(entries) + 1 \in DOMAIN entries' /\ entries'[Len(entries) + 1].device = d
    BY <1>2, <2>3
  <2> QED BY <1>2, <2>3, <2>4, <2>5
<1>6. CASE Find(d) # 0
  <2>1. Find(d) \in DOMAIN entries /\ entries[Find(d)].device = d
    BY <1>6, FindEntry DEF TypeInv
  <2>2. entries' = [entries EXCEPT ![Find(d)].count = Incremented(@)]
    BY <1>6 DEF Increment
  <2>3. Incremented(entries[Find(d)].count) \in 1..CountLimit
    BY <1>4, <2>1, EntryTypes DEF TypeInv, Incremented
  <2>4. entries' = [entries EXCEPT ![Find(d)] =
                      [device |-> d, count |-> Incremented(entries[Find(d)].count)]]
    <3>1. entries[Find(d)] \in Entry
      BY <2>1, EntryTypes DEF TypeInv
    <3>2. [entries[Find(d)] EXCEPT !.count = Incremented(entries[Find(d)].count)]
            = [device |-> d, count |-> Incremented(entries[Find(d)].count)]
      BY <2>1, <3>1 DEF Entry
    <3> QED BY <2>2, <3>2
  <2>5. entries' \in Seq(Entry) /\ Len(entries') = Len(entries)
    BY <1>1, <1>2, <2>1, <2>3, <2>4 DEF Entry
  <2>6. \A i \in DOMAIN entries : entries'[i].device = entries[i].device
    BY <2>1, <2>4
  <2>7. DOMAIN entries' = DOMAIN entries
    BY <2>4
  <2> QED BY <1>2, <1>3, <2>1, <2>5, <2>6, <2>7
<1> QED BY <1>5, <1>6

\* Each action keeps the types.
LEMMA TypeStep == TypeInv /\ [Next]_vars => TypeInv'
<1> SUFFICES ASSUME TypeInv, [Next]_vars PROVE TypeInv'
  OBVIOUS
<1> USE FirmwareAssumption DEF TypeInv, TypeOK, Writes, NvsError
<1>0. /\ Len(entries) \in Nat /\ DOMAIN entries = 1..Len(entries)
      /\ \A i \in DOMAIN entries : entries[i].device \in Ids /\ entries[i].count \in 1..CountLimit
  BY EntryTypes
<1>1. ASSUME NEW d \in Peers, NEW event \in {"matched", "unknown"}, AppendEvent(d, event)
      PROVE  TypeInv'
  <2>1. write' \in Writes /\ head \in 0..MaxHead /\ head < MaxHead /\ head' = head
    BY <1>1 DEF AppendEvent
  <2>2. matched' \in [Peers -> Nat]
    BY <1>1 DEF AppendEvent
  <2> DEFINE e == [at |-> head, seq |-> sequence, device |-> d, event |-> event]
  <2>3. Slot(head) \in 0..Capacity - 1 /\ e \in LogEntries
    <3>1. head \in Nat /\ sequence \in 0..MaxSequence
      BY <2>1
    <3>2. e \in LogEntries
      BY <1>1, <2>1, <3>1 DEF LogEntries
    <3> HIDE DEF e
    <3> QED BY <3>1, <3>2, SlotTypes
  <2>4. slots' = slots \/ slots' = [slots EXCEPT ![Slot(head)] = e]
    BY <1>1 DEF AppendEvent
  <2>5. slots' \in [0..Capacity - 1 -> LogEntries \cup {None}]
    BY <2>3, <2>4
  <2>6. high' \in 0..MaxHead
    BY <1>1, <2>1 DEF AppendEvent
  <2>7. host' \in {"slot_written", "logged"} /\ faults' \in 0..MaxFaults
    BY <1>1 DEF AppendEvent
  <2> HIDE DEF e
  <2> QED BY <1>1, <2>1, <2>2, <2>5, <2>6, <2>7 DEF AppendEvent, reportTask
<1>2. CASE SaveHead
  <2>1. head + 1 \in 0..MaxHead
    BY <1>2 DEF SaveHead
  <2>2. nvsHead' \in 0..MaxHead /\ faults' \in 0..MaxFaults
    BY <1>2, <2>1 DEF SaveHead
  <2>3. host' = "logged" /\ host = "slot_written" /\ head' \in 0..MaxHead
    BY <1>2, <2>1 DEF SaveHead
  <2>4. UNCHANGED <<nvsCount, nvsSequence, slots, entries, sequence, write, reportTask,
                    dangling, sent, matched, high, misread, losses>>
    BY <1>2 DEF SaveHead
  <2> QED BY <2>2, <2>3, <2>4 DEF reportTask
<1>3. CASE SkipUnknown
  BY <1>3 DEF SkipUnknown, nvs, reportTask, history
<1>4. CASE Increment
  <2>1. /\ entries' \in Seq([device: Ids, count: 1..CountLimit])
        /\ Len(entries') >= Len(entries) /\ Len(entries') \in Nat
        /\ \A i, j \in DOMAIN entries' : entries'[i].device = entries'[j].device => i = j
        /\ \E i \in DOMAIN entries' : entries'[i].device = write.device
    BY <1>4, IncrementTypes DEF Entry
  <2>2. dangling' \in BOOLEAN
    BY <1>4 DEF Increment
  <2>3. end \in 0..Len(entries')
    BY <1>0, <2>1
  <2> QED BY <1>4, <2>1, <2>2, <2>3 DEF Increment, nvs, reportTask, history
<1>5. CASE SaveCounter
  <2> DEFINE k == CounterKey[write.device]
             c == entries[Find(write.device)].count
  <2>1. c \in 0..CountLimit
    BY <1>0, <1>5, FindEntry DEF SaveCounter
  <2>2. \/ nvsCount' = [nvsCount EXCEPT ![k] = Saved(@, c)]
        \/ nvsCount' = [nvsCount EXCEPT ![k] = c]
        \/ nvsCount' = nvsCount
    BY <1>5 DEF SaveCounter
  <2>3. \A n \in 0..CountLimit : Saved(n, c) \in 0..CountLimit
    BY <2>1 DEF Saved
  <2>4. k \in NvsKeys
    BY <1>5 DEF SaveCounter, NvsKeys, Ids
  <2> HIDE DEF k, c
  <2>5. nvsCount' \in [NvsKeys -> 0..CountLimit]
    <3>1. nvsCount \in [NvsKeys -> 0..CountLimit]
      OBVIOUS
    <3>2. Saved(nvsCount[k], c) \in 0..CountLimit /\ c \in 0..CountLimit
      BY <2>1, <2>3, <2>4, <3>1
    <3> QED BY <2>2, <2>4, <3>1, <3>2
  <2>6. faults' \in 0..MaxFaults
    BY <1>5 DEF SaveCounter
  <2> QED BY <1>5, <2>5, <2>6 DEF SaveCounter, reportTask
<1>6. CASE NextSequence
  BY <1>6 DEF NextSequence, nvs, hostTask, history
<1>7. CASE SaveSequence
  <2>1. nvsSequence' \in 0..MaxSequence /\ faults' \in 0..MaxFaults
    BY <1>7 DEF SaveSequence, SavedSequence
  <2>2. next' = 1 /\ end' = Len(entries) /\ reporter' = "posting" /\ dangling' = FALSE
        /\ reporter = "sequenced"
    BY <1>7 DEF SaveSequence
  <2>3. UNCHANGED <<nvsCount, nvsHead, slots, entries, sequence, head, hostTask, sent,
                    matched, high, misread, losses>>
    BY <1>7 DEF SaveSequence
  <2>4. next' \in Nat /\ next' >= 1 /\ end' \in 0..Len(entries') /\ next' <= end' + 1
    BY <1>0, <2>2, <2>3
  <2>5. host' # "off"
    BY <2>2, <2>3 DEF hostTask
  <2> QED BY <2>1, <2>2, <2>3, <2>4, <2>5 DEF hostTask
<1>8. CASE PostEntry
  <2>1. next \in DOMAIN entries
    BY <1>0, <1>8 DEF PostEntry
  <2>2. sent' \subseteq Reports
    <3>1. entries[next].device \in Ids /\ entries[next].count \in 0..CountLimit
      BY <1>0, <2>1
    <3>2. sequence \in 0..MaxSequence /\ FreedCounts \subseteq 0..CountLimit
      OBVIOUS
    <3> DEFINE e == [device |-> entries[next].device, count |-> entries[next].count,
                     sequence |-> sequence, from |-> "entry"]
    <3>3. e \in Reports
      BY <3>1, <3>2 DEF Reports
    <3>4. FreedReports \subseteq Reports
      BY <3>2 DEF Reports, FreedReports
    <3>5. \E r \in IF dangling THEN FreedReports ELSE {e} : sent' = sent \cup {r}
      BY <1>8 DEF PostEntry
    <3> HIDE DEF e
    <3> QED BY <3>3, <3>4, <3>5
  <2> QED BY <1>8, <2>2 DEF PostEntry, nvs, hostTask
<1>9. CASE EndBatch
  BY <1>9 DEF EndBatch, nvs, hostTask, history
<1>10. CASE PowerLoss
  <2>1. /\ host' = "off" /\ write' = None /\ entries' = <<>> /\ sequence' = 0 /\ head' = 0
        /\ reporter' = "off" /\ next' = 1 /\ end' = 0 /\ dangling' = FALSE
        /\ UNCHANGED <<nvs, sent, matched, high, misread, faults>>
    BY <1>10 DEF PowerLoss
  <2>2. losses' \in 0..MaxPowerLoss
    BY <1>10 DEF PowerLoss
  <2>3. <<>> \in Seq([device: Ids, count: 1..CountLimit]) /\ Len(<<>>) = 0
    OBVIOUS
  <2>4. UNCHANGED <<nvsCount, nvsSequence, nvsHead, slots>>
    BY <2>1 DEF nvs
  <2>5. /\ entries' \in Seq([device: Ids, count: 1..CountLimit]) /\ end' \in 0..Len(entries')
        /\ \A i, j \in DOMAIN entries' : entries'[i].device = entries'[j].device => i = j
    BY <2>1, <2>3
  <2>6. sequence' \in 0..MaxSequence /\ head' \in 0..MaxHead /\ next' \in Nat
        /\ next' <= end' + 1 /\ next' >= 1
    BY <2>1
  <2> QED BY <2>1, <2>2, <2>4, <2>5, <2>6
<1>11. CASE Boot
  <2>1. LoadCounter(MeterId) \in 0..CountLimit
    BY DEF LoadCounter, NvsKeys, Ids
  <2>2. /\ Restored \in Seq([device: Ids, count: 1..CountLimit])
        /\ Len(Restored) \in Nat
        /\ \A i, j \in DOMAIN Restored : Restored[i].device = Restored[j].device => i = j
    <3>1. CASE LoadCounter(MeterId) = 0
      BY <3>1 DEF Restored
    <3>2. CASE LoadCounter(MeterId) # 0
      <4> DEFINE e == [device |-> MeterId, count |-> LoadCounter(MeterId)]
      <4>1. Restored = <<e>> /\ e \in [device: Ids, count: 1..CountLimit]
        BY <2>1, <3>2 DEF Restored, Ids
      <4> HIDE DEF e
      <4> QED BY <4>1
    <3> QED BY <3>1, <3>2
  <2>3. /\ entries' \in Seq([device: Ids, count: 1..CountLimit]) /\ Len(entries') \in Nat
        /\ \A i, j \in DOMAIN entries' : entries'[i].device = entries'[j].device => i = j
    BY <1>11, <2>2 DEF Boot
  <2>4. /\ head' \in 0..MaxHead /\ sequence' \in 0..MaxSequence
        /\ misread' \in BOOLEAN /\ faults' \in 0..MaxFaults
    <3>1. head' \in {0, nvsHead} /\ sequence' \in {0, nvsSequence}
      BY <1>11 DEF Boot, LoadHead, LoadSequence
    <3>2. misread' \in BOOLEAN
      BY <1>11 DEF Boot
    <3>3. faults' \in 0..MaxFaults
      BY <1>11 DEF Boot
    <3> QED BY <3>1, <3>2, <3>3
  <2> QED BY <1>11, <2>3, <2>4 DEF Boot, nvs
<1>12. CASE UNCHANGED vars
  BY <1>12 DEF vars, nvs, hostTask, reportTask, history
<1> QED BY <1>1, <1>2, <1>3, <1>4, <1>5, <1>6, <1>7, <1>8, <1>9, <1>10, <1>11, <1>12 DEF Next

LEMMA TypeInvariant == Spec => []TypeInv
<1>1. Init => TypeInv
  <2>1. Init => <<>> \in Seq([device: Ids, count: 1..CountLimit]) /\ Len(<<>>) = 0
                /\ DOMAIN <<>> = {}
    OBVIOUS
  <2> SUFFICES ASSUME Init PROVE TypeInv
    OBVIOUS
  <2>2. /\ nvsCount \in [NvsKeys -> 0..CountLimit] /\ matched \in [Peers -> Nat]
        /\ slots \in [0..Capacity - 1 -> LogEntries \cup {None}]
    BY FirmwareAssumption DEF Init
  <2>3. /\ nvsSequence \in 0..MaxSequence /\ sequence \in 0..MaxSequence
        /\ nvsHead \in 0..MaxHead /\ head \in 0..MaxHead /\ high \in 0..MaxHead
        /\ losses \in 0..MaxPowerLoss /\ faults \in 0..MaxFaults
    BY FirmwareAssumption DEF Init
  <2>4. /\ entries \in Seq([device: Ids, count: 1..CountLimit])
        /\ \A i, j \in DOMAIN entries : entries[i].device = entries[j].device => i = j
        /\ next \in Nat /\ next >= 1 /\ end \in 0..Len(entries) /\ next <= end + 1
    BY <2>1 DEF Init
  <2> QED BY <2>2, <2>3, <2>4 DEF Init, TypeInv, TypeOK
<1> QED BY <1>1, TypeStep, PTL DEF Spec

\* Every variable of the meter keeps its type, no id ever has two entries, and
\* the report task's iterator stays within the entries its loop began with, for
\* any appliances, ring and bounds (counter.cpp, main.cpp).
THEOREM TypeCorrect == Spec => []TypeOK
<1>1. TypeInv => TypeOK
  BY DEF TypeInv
<1> QED BY <1>1, TypeInvariant, PTL

-----------------------------------------------------------------------------
(* The log ring and what NVS keeps.                                         *)

\* Entries less than a ring apart are in different slots.
LEMMA DifferentSlots ==
    ASSUME NEW n \in Nat, NEW h \in Nat, n < h, h < n + Capacity
    PROVE  Slot(n) # Slot(h)
<1>1. ASSUME NEW C \in Int, C > 0, NEW m \in Nat PROVE m % C = m - C * (m \div C)
  BY <1>1, Z3
<1>2. Capacity \in Int /\ Capacity > 0
  BY FirmwareAssumption
<1>3. n % Capacity = n - Capacity * (n \div Capacity)
  BY <1>1, <1>2
<1>4. h % Capacity = h - Capacity * (h \div Capacity)
  BY <1>1, <1>2
<1>5. n \div Capacity \in Int /\ h \div Capacity \in Int
      /\ n % Capacity \in Int /\ h % Capacity \in Int
  BY <1>2
<1>6. SUFFICES ASSUME n % Capacity = h % Capacity PROVE FALSE
  BY DEF Slot
<1> DEFINE q == (h \div Capacity) - (n \div Capacity)
<1>7. h - n = Capacity * q /\ q \in Int
  BY <1>2, <1>3, <1>4, <1>5, <1>6
<1> HIDE DEF q
<1>8. Capacity * q > 0 /\ Capacity * q < Capacity
  BY <1>2, <1>7
<1>9. ~ q <= 0 /\ ~ q >= 1
  BY <1>2, <1>7, <1>8
<1> QED BY <1>7, <1>9

\* The head up to which the ring has been written: ahead of NVS when a head could
\* not be saved, and of RAM between a slot and its head.
Written == IF host = "off" THEN nvsHead ELSE IF host = "slot_written" THEN head + 1 ELSE head

LogInv ==
    ~ misread =>
        /\ host # "off" => nvsHead <= head
        /\ \A n \in 0..Written - 1 :
              n + Capacity >= high => slots[Slot(n)] # None /\ slots[Slot(n)].at = n

LEMMA LogStep == TypeInv /\ LogInv /\ [Next]_vars => LogInv'
<1> SUFFICES ASSUME TypeInv, LogInv, [Next]_vars PROVE LogInv'
  OBVIOUS
<1> USE DEF LogInv
<1>0. /\ nvsHead \in Nat /\ head \in Nat /\ high \in Nat /\ Capacity \in Nat \ {0}
      /\ DOMAIN slots = 0..Capacity - 1
  BY FirmwareAssumption DEF TypeInv, TypeOK
<1>1. ASSUME NEW d \in Peers, NEW event \in {"matched", "unknown"}, AppendEvent(d, event)
      PROVE  LogInv'
  <2>1. /\ host = "waiting" /\ misread' = misread /\ nvsHead' = nvsHead /\ head' = head
        /\ Written = head /\ host' \in {"slot_written", "logged"}
    BY <1>1 DEF AppendEvent, Written
  <2>2. CASE host' = "logged"
    <3>1. slots' = slots /\ high' = high /\ Written' = head
      BY <1>1, <2>1, <2>2 DEF AppendEvent, Written
    <3> QED BY <2>1, <2>2, <3>1
  <2>3. CASE host' = "slot_written"
    <3> DEFINE e == [at |-> head, seq |-> sequence, device |-> d, event |-> event]
    <3>1. /\ slots' = [slots EXCEPT ![Slot(head)] = e]
          /\ high' = IF head < high THEN high ELSE head + 1
          /\ Written' = head + 1
      BY <1>1, <2>1, <2>3 DEF AppendEvent, Written
    <3>2. e # None /\ e.at = head
      <4>1. e \in LogEntries
        BY DEF LogEntries, TypeInv, TypeOK
      <4> QED BY <4>1, FirmwareAssumption
    <3>3. Slot(head) \in DOMAIN slots
      BY <1>0, SlotTypes
    <3> HIDE DEF e
    <3> SUFFICES ASSUME ~ misread, NEW n \in 0..head, n + Capacity >= high'
                 PROVE  slots'[Slot(n)] # None /\ slots'[Slot(n)].at = n
      BY <1>0, <2>1, <2>3, <3>1
    <3>4. CASE n = head
      BY <3>1, <3>2, <3>3, <3>4
    <3>5. CASE n < head
      <4>1. n + Capacity >= high /\ n + Capacity > head /\ n \in 0..Written - 1
        BY <1>0, <2>1, <3>1, <3>5
      <4>2. Slot(n) # Slot(head)
        BY <1>0, <3>5, <4>1, DifferentSlots
      <4> QED BY <3>1, <3>3, <4>1, <4>2
    <3> QED BY <1>0, <3>4, <3>5
  <2> QED BY <2>1, <2>2, <2>3
<1>2. CASE SaveHead
  <2>1. /\ misread' = misread /\ slots' = slots /\ high' = high /\ host' = "logged"
        /\ Written' = head + 1 /\ Written = head + 1 /\ head' = head + 1
        /\ nvsHead' = nvsHead \/ nvsHead' = head + 1
        /\ host = "slot_written"
    BY <1>2 DEF SaveHead, Written
  <2> QED BY <1>0, <2>1
<1>3. CASE PowerLoss
  <2>1. /\ misread' = misread /\ slots' = slots /\ high' = high /\ nvsHead' = nvsHead
        /\ host # "off" \/ host = "waiting"
        /\ host' = "off" /\ Written' = nvsHead
    BY <1>3 DEF PowerLoss, Written, nvs
  <2>2. ~ misread => nvsHead <= Written
    BY <1>0, <2>1 DEF Written
  <2>3. Written \in Nat
    BY <1>0 DEF Written
  <2> QED BY <1>0, <2>1, <2>2, <2>3
<1>4. CASE Boot
  <2>1. /\ slots' = slots /\ high' = high /\ nvsHead' = nvsHead /\ host = "off"
        /\ host' = "waiting" /\ (misread' \/ (misread' = misread /\ head' = nvsHead))
    <3>1. UNCHANGED nvs /\ high' = high /\ host = "off" /\ host' = "waiting"
      BY <1>4 DEF Boot
    <3>2. misread' \/ (misread' = misread /\ head' = nvsHead)
      <4>1. CASE misread' = TRUE
        BY <4>1
      <4>2. CASE UNCHANGED misread /\ head' = LoadHead
        BY <4>2 DEF LoadHead
      <4> QED BY <1>4, <4>1, <4>2 DEF Boot
    <3> QED BY <3>1, <3>2 DEF nvs
  <2>2. misread => misread'
    BY <1>4 DEF Boot
  <2>3. Written = nvsHead /\ Written' = head'
    BY <2>1 DEF Written
  <2> QED BY <1>0, <2>1, <2>2, <2>3
<1>5. ASSUME host # "off", host' # "off", host # "slot_written", host' # "slot_written",
             UNCHANGED <<misread, slots, high, nvsHead, head>>
      PROVE  LogInv'
  BY <1>5 DEF Written
<1>6. ASSUME UNCHANGED <<misread, slots, high, nvsHead, head, host>> PROVE LogInv'
  BY <1>6 DEF Written
<1>7. CASE SkipUnknown
  BY <1>5, <1>7 DEF SkipUnknown, nvs, history
<1>8. CASE Increment
  BY <1>5, <1>8 DEF Increment, nvs, history
<1>9. CASE SaveCounter
  BY <1>5, <1>9 DEF SaveCounter
<1> QED BY <1>1, <1>2, <1>3, <1>4, <1>6, <1>7, <1>8, <1>9
        DEF Next, NextSequence, SaveSequence, PostEntry, EndBatch, vars, nvs, hostTask, history

LEMMA LogInvariant == Spec => [](TypeInv /\ LogInv)
<1>1. Init => LogInv
  BY DEF Init, LogInv, Written
<1> QED BY <1>1, LogStep, TypeInvariant, PTL DEF Spec

\* Unless a boot could not read the log head, the ring loses only entries that
\* Capacity later ones have pushed out, whatever fails or loses power between a
\* slot and its head (Storage::append_event).
THEOREM EntriesSurvive == Spec => []LoggedEntriesSurvive
<1>1. TypeInv /\ LogInv => LoggedEntriesSurvive
  <2> SUFFICES ASSUME TypeInv, LogInv, ~ misread PROVE LoggedEntriesSurvive
    BY DEF LoggedEntriesSurvive
  <2>1. nvsHead <= Written /\ nvsHead \in Nat /\ Written \in Nat
    BY DEF TypeInv, TypeOK, LogInv, Written
  <2> QED BY <2>1 DEF LogInv, LoggedEntriesSurvive
<1> QED BY <1>1, LogInvariant, PTL

\* No counter and no sequence in NVS goes back in a step in which every NVS call
\* succeeds, and the log head only after a boot that could not read it, whatever
\* the RAM of a rebooted meter holds (save_counter, save_sequence, append_event).
THEOREM NvsKept == Spec => NvsRollsBackOnlyOnFault
<1> DEFINE Step == /\ faults' = faults => /\ \A k \in NvsKeys : nvsCount[k] <= nvsCount'[k]
                                          /\ nvsSequence <= nvsSequence'
                   /\ misread \/ nvsHead <= nvsHead'
<1>1. ASSUME TypeInv, LogInv, [Next]_vars PROVE Step
  <2>1. /\ \A k \in NvsKeys : nvsCount[k] \in Nat
        /\ nvsSequence \in Nat /\ nvsHead \in Nat /\ head \in Nat
        /\ sequence \in Nat /\ nvsCount \in [NvsKeys -> 0..CountLimit]
    BY <1>1, FirmwareAssumption DEF TypeInv, TypeOK
  <2>2. CASE SaveHead
    BY <1>1, <2>1, <2>2 DEF SaveHead, LogInv
  <2>3. CASE SaveCounter
    <3> DEFINE k == CounterKey[write.device]
               c == entries[Find(write.device)].count
    <3>1. c \in Nat
      BY <1>1, <2>3, FindEntry, EntryTypes DEF TypeInv, SaveCounter
    <3>2. \/ faults' = faults + 1
          \/ nvsCount' = [nvsCount EXCEPT ![k] = Saved(@, c)]
      BY <2>3 DEF SaveCounter, NvsError
    <3>3. nvsSequence' = nvsSequence /\ nvsHead' = nvsHead
      BY <2>3 DEF SaveCounter
    <3> HIDE DEF k, c
    <3>4. \A n \in Nat : n <= Saved(n, c)
      BY <3>1 DEF Saved
    <3>5. faults' = faults + 1 => faults' # faults
      BY <1>1 DEF TypeInv, TypeOK
    <3>6. faults' = faults => \A j \in NvsKeys : nvsCount[j] <= nvsCount'[j]
      BY <2>1, <3>2, <3>4, <3>5
    <3> QED BY <2>1, <3>3, <3>6
  <2>4. CASE SaveSequence
    <3>1. faults + 1 # faults
      BY <1>1 DEF TypeInv, TypeOK
    <3> QED BY <2>1, <2>4, <3>1 DEF SaveSequence, SavedSequence, NvsError
  <2>5. CASE UNCHANGED <<nvsCount, nvsSequence, nvsHead>>
    BY <2>1, <2>5
  <2> QED BY <1>1, <2>2, <2>3, <2>4, <2>5
          DEF Next, AppendEvent, SkipUnknown, Increment, NextSequence, PostEntry,
              EndBatch, PowerLoss, Boot, vars, nvs
<1>2. TypeInv /\ LogInv /\ [Next]_vars => [Step]_<<nvsCount, nvsSequence, nvsHead>>
  BY <1>1
<1> QED BY <1>2, LogInvariant, PTL DEF Spec, NvsRollsBackOnlyOnFault

-----------------------------------------------------------------------------
(* Sequences.                                                               *)

\* What is sent carries a saved sequence, as long as no NVS call has failed.
SequenceInv ==
    faults = 0 =>
        /\ \A r \in sent : r.sequence <= nvsSequence
        /\ host # "off" => nvsSequence <= sequence
        /\ reporter = "sequenced" => nvsSequence < sequence
        /\ reporter = "posting" => nvsSequence = sequence

LEMMA SequenceStep == TypeInv /\ SequenceInv /\ [Next]_vars => SequenceInv'
<1> SUFFICES ASSUME TypeInv, SequenceInv, [Next]_vars PROVE SequenceInv'
  OBVIOUS
<1> USE DEF SequenceInv
<1>0. /\ nvsSequence \in Nat /\ sequence \in Nat /\ faults \in Nat
      /\ \A r \in sent : r.sequence \in Nat
      /\ host = "off" => reporter = "off"
  BY FirmwareAssumption DEF TypeInv, TypeOK, Reports
<1>1. CASE NextSequence
  BY <1>0, <1>1 DEF NextSequence, nvs, hostTask, history
<1>2. CASE SaveSequence
  BY <1>0, <1>2 DEF SaveSequence, SavedSequence, NvsError, hostTask
<1>3. CASE PostEntry
  <2>1. \A r \in sent' : r \in sent \/ r.sequence = sequence
    <3>1. \A r \in FreedReports : r.sequence = sequence
      BY DEF FreedReports
    <3> QED BY <1>3, <3>1 DEF PostEntry
  <2>2. reporter = "posting" /\ UNCHANGED <<nvs, sequence, hostTask, reporter, faults>>
    BY <1>3 DEF PostEntry
  <2> QED BY <1>0, <2>1, <2>2 DEF nvs, hostTask
<1>4. CASE EndBatch
  BY <1>0, <1>4 DEF EndBatch, nvs, hostTask, history
<1>5. CASE PowerLoss
  BY <1>0, <1>5 DEF PowerLoss, nvs
<1>6. CASE Boot
  <2>1. /\ UNCHANGED nvs /\ sent' = sent /\ reporter' \in {"delaying", "off"}
        /\ faults' = 0 => sequence' = nvsSequence /\ faults = 0
    BY <1>0, <1>6 DEF Boot, LoadSequence, NvsError
  <2> QED BY <1>0, <2>1 DEF nvs
<1>7. ASSUME UNCHANGED <<nvsSequence, sequence, reportTask, sent>>,
             host # "off", faults' = 0 => faults = 0
      PROVE  SequenceInv'
  BY <1>7 DEF reportTask
<1>8. ASSUME NEW d \in Peers, NEW event \in {"matched", "unknown"}, AppendEvent(d, event)
      PROVE  SequenceInv'
  BY <1>0, <1>7, <1>8 DEF AppendEvent, NvsError
<1>9. CASE SaveHead
  BY <1>0, <1>7, <1>9 DEF SaveHead, NvsError
<1>10. CASE SkipUnknown
  BY <1>0, <1>7, <1>10 DEF SkipUnknown, nvs, history
<1>11. CASE Increment
  BY <1>0, <1>7, <1>11 DEF Increment, nvs, history
<1>12. CASE SaveCounter
  <2>1. UNCHANGED <<nvsSequence, sequence, reportTask, sent>> /\ host # "off"
    BY <1>12 DEF SaveCounter
  <2>2. faults' = faults \/ faults' = faults + 1
    BY <1>12 DEF SaveCounter, NvsError
  <2> QED BY <1>0, <1>7, <2>1, <2>2
<1>13. CASE UNCHANGED vars
  BY <1>13 DEF vars, nvs, hostTask, reportTask, history
<1> QED BY <1>1, <1>2, <1>3, <1>4, <1>5, <1>6, <1>8, <1>9, <1>10, <1>11, <1>12, <1>13 DEF Next

\* While NVS calls succeed, a batch is posted only under a sequence above all
\* those sent, reboots in the middle of a batch included ("never reused").
THEOREM SequencesFresh == Spec => SequenceNeverReused
<1>1. Init => SequenceInv
  BY DEF Init, SequenceInv
<1>2. TypeInv /\ SequenceInv /\ [Next]_vars =>
        [faults' = 0 /\ reporter = "sequenced" /\ reporter' = "posting" =>
            \A r \in sent : r.sequence < sequence]_vars
  <2> SUFFICES ASSUME TypeInv, SequenceInv, [Next]_vars,
                      faults' = 0, reporter = "sequenced", reporter' = "posting"
               PROVE  \A r \in sent : r.sequence < sequence
    OBVIOUS
  <2>1. SaveSequence
    BY DEF Next, AppendEvent, SaveHead, SkipUnknown, Increment, SaveCounter, NextSequence,
           PostEntry, EndBatch, PowerLoss, Boot, vars, reportTask
  <2>2. faults = 0
    <3>1. faults' = faults \/ faults' = faults + 1
      BY <2>1 DEF SaveSequence, NvsError
    <3> QED BY <3>1, FirmwareAssumption DEF TypeInv, TypeOK
  <2>3. /\ nvsSequence \in Nat /\ sequence \in Nat
        /\ \A r \in sent : r.sequence \in Nat
    BY FirmwareAssumption DEF TypeInv, TypeOK, Reports
  <2> QED BY <2>2, <2>3 DEF SequenceInv
<1> QED BY <1>1, <1>2, SequenceStep, TypeInvariant, PTL DEF Spec, SequenceNeverReused

-----------------------------------------------------------------------------
(* Counts.                                                                  *)

\* A matched write of d is logged and not counted yet, or counted and not saved.
Pending(d) == IF host \in {"slot_written", "logged"} /\ write.device = d
                    /\ write.event = "matched" THEN 1 ELSE 0

Counted(d) == IF host = "counted" /\ write.device = d THEN 1 ELSE 0

\* What Counter::increment does to each entry.
LEMMA IncrementEntries ==
    ASSUME TypeInv, Increment, NEW j \in DOMAIN entries'
    PROVE  \/ /\ j \in DOMAIN entries /\ entries'[j] = entries[j]
              /\ entries[j].device # write.device
           \/ /\ entries'[j].device = write.device /\ entries'[j].count = 1
              /\ \A i \in DOMAIN entries : entries[i].device # write.device
           \/ /\ j \in DOMAIN entries /\ entries[j].device = write.device
              /\ entries'[j].device = write.device
              /\ entries'[j].count = Incremented(entries[j].count)
<1> DEFINE d == write.device
<1>1. entries \in Seq(Entry) /\ Len(entries) \in Nat /\ DOMAIN entries = 1..Len(entries)
  BY EntryTypes DEF TypeInv, TypeOK, Entry
<1>2. CASE Find(d) = 0
  <2> DEFINE e == [device |-> d, count |-> 1]
  <2>1. entries' = Append(entries, e) /\ \A i \in DOMAIN entries : entries[i].device # d
    BY <1>2, FindEntry DEF Increment, TypeInv
  <2>2. \/ j \in DOMAIN entries /\ entries'[j] = entries[j]
        \/ entries'[j] = e
    <3> HIDE DEF e
    <3> QED BY <1>1, <2>1
  <2> QED BY <2>1, <2>2
<1>3. CASE Find(d) # 0
  <2>1. Find(d) \in DOMAIN entries /\ entries[Find(d)].device = d
    BY <1>3, FindEntry DEF TypeInv
  <2>2. entries' = [entries EXCEPT ![Find(d)].count = Incremented(@)]
    BY <1>3 DEF Increment
  <2>3. \A i \in DOMAIN entries : entries[i].device = d => i = Find(d)
    BY <2>1 DEF TypeInv, TypeOK
  <2>4. DOMAIN entries' = DOMAIN entries
    BY <2>2
  <2>5. CASE j = Find(d)
    <3>1. entries[j] \in Entry
      BY <2>1, <2>5, EntryTypes DEF TypeInv
    <3>2. entries'[j] = [entries[j] EXCEPT !.count = Incremented(entries[j].count)]
      BY <2>1, <2>2, <2>5
    <3> QED BY <2>1, <2>5, <3>1, <3>2 DEF Entry
  <2>6. CASE j # Find(d)
    BY <2>2, <2>3, <2>4, <2>6
  <2> QED BY <2>5, <2>6
<1> QED BY <1>2, <1>3

\* Counter::increment takes no entry away and renames none.
LEMMA EntryKept ==
    ASSUME TypeInv, Increment, NEW i \in DOMAIN entries
    PROVE  i \in DOMAIN entries' /\ entries'[i].device = entries[i].device
<1>1. entries \in Seq(Entry) /\ Len(entries) \in Nat /\ DOMAIN entries = 1..Len(entries)
  BY EntryTypes DEF TypeInv, TypeOK, Entry
<1>2. CASE Find(write.device) = 0
  <2> DEFINE e == [device |-> write.device, count |-> 1]
  <2>1. entries' = Append(entries, e)
    BY <1>2 DEF Increment
  <2> HIDE DEF e
  <2> QED BY <1>1, <2>1
<1>3. CASE Find(write.device) # 0
  <2>1. entries' = [entries EXCEPT ![Find(write.device)]
                      = [entries[Find(write.device)] EXCEPT !.count = Incremented(@)]]
    BY <1>3 DEF Increment
  <2>2. entries[i] \in Entry
    BY <1>1
  <2> QED BY <2>1, <2>2 DEF Entry
<1> QED BY <1>2, <1>3

\* What Storage::save_counter does to the counter of each id.
LEMMA SavedCounts ==
    ASSUME NoCollisions, TypeInv, SaveCounter
    PROVE  /\ \A d \in Ids : d # write.device => nvsCount'[CounterKey[d]] = nvsCount[CounterKey[d]]
           /\ \/ faults' = faults + 1 /\ nvsCount' = nvsCount
              \/ \E i \in DOMAIN entries :
                    /\ entries[i].device = write.device
                    /\ \/ /\ faults' = faults
                          /\ nvsCount'[CounterKey[write.device]]
                               = Saved(nvsCount[CounterKey[write.device]], entries[i].count)
                       \/ /\ faults' = faults + 1
                          /\ nvsCount'[CounterKey[write.device]] = entries[i].count
<1> DEFINE k == CounterKey[write.device]
           c == entries[Find(write.device)].count
<1>1. write.device \in Ids /\ Find(write.device) \in DOMAIN entries
      /\ entries[Find(write.device)].device = write.device
  BY FindEntry DEF SaveCounter, TypeInv, Writes, Ids
<1>2. nvsCount \in [NvsKeys -> 0..CountLimit] /\ \A d \in Ids : CounterKey[d] \in NvsKeys
  BY DEF TypeInv, TypeOK, NvsKeys
<1>3. \/ faults' = faults + 1 /\ nvsCount' = nvsCount
      \/ faults' = faults /\ nvsCount' = [nvsCount EXCEPT ![k] = Saved(nvsCount[k], c)]
      \/ faults' = faults + 1 /\ nvsCount' = [nvsCount EXCEPT ![k] = c]
  BY DEF SaveCounter, NvsError
<1>4. \A d \in Ids : d # write.device => CounterKey[d] # k
  BY <1>1 DEF NoCollisions
<1> HIDE DEF k, c
<1>5. \A d \in Ids : d # write.device => nvsCount'[CounterKey[d]] = nvsCount[CounterKey[d]]
  BY <1>2, <1>3, <1>4
<1>6. k \in NvsKeys
  BY <1>1, <1>2 DEF k
<1>7. \/ faults' = faults + 1 /\ nvsCount' = nvsCount
      \/ faults' = faults /\ nvsCount'[k] = Saved(nvsCount[k], c)
      \/ faults' = faults + 1 /\ nvsCount'[k] = c
  BY <1>2, <1>3, <1>6
<1> QED BY <1>1, <1>5, <1>7 DEF k, c

\* What was sent from an entry is backed by matched writes.
SentBacked ==
    \A r \in sent : r.from = "entry" /\ r.device \in Peers => r.count <= matched[r.device]

\* Counters are backed by matched writes, and entries by NVS.
BackedInv ==
    /\ \A d \in Peers : nvsCount[CounterKey[d]] + Pending(d) <= matched[d]
    /\ \A i \in DOMAIN entries : entries[i].device \in Peers =>
          /\ entries[i].count + Pending(entries[i].device) <= matched[entries[i].device]
          /\ entries[i].count <= nvsCount[CounterKey[entries[i].device]] + faults
                                   + Counted(entries[i].device)
    /\ SentBacked

LEMMA CountTypes ==
    ASSUME TypeInv
    PROVE  /\ \A d \in Ids : nvsCount[CounterKey[d]] \in 0..CountLimit
           /\ Peers \subseteq Ids /\ \A d \in Peers : matched[d] \in Nat
           /\ \A i \in DOMAIN entries : entries[i].device \in Ids
                                        /\ entries[i].count \in 1..CountLimit
           /\ \A r \in sent : r.count \in Nat
           /\ faults \in Nat /\ losses \in Nat /\ CountLimit \in Nat \ {0}
<1>1. \A d \in Ids : nvsCount[CounterKey[d]] \in 0..CountLimit
  BY DEF TypeInv, TypeOK, NvsKeys
<1>2. \A r \in sent : r.count \in Nat
  BY DEF TypeInv, TypeOK, Reports
<1>3. /\ Peers \subseteq Ids /\ \A d \in Peers : matched[d] \in Nat
      /\ faults \in Nat /\ losses \in Nat /\ CountLimit \in Nat \ {0}
  BY FirmwareAssumption DEF TypeInv, TypeOK, Ids
<1> QED BY <1>1, <1>2, <1>3, EntryTypes DEF TypeInv

LEMMA BackedStep == NoCollisions => (TypeInv /\ BackedInv /\ [Next]_vars => BackedInv')
<1> SUFFICES ASSUME NoCollisions, TypeInv, BackedInv, [Next]_vars PROVE BackedInv'
  OBVIOUS
<1> USE DEF BackedInv, SentBacked
<1>0. /\ \A d \in Peers : nvsCount[CounterKey[d]] \in Nat /\ matched[d] \in Nat
      /\ \A i \in DOMAIN entries : entries[i].count \in Nat
      /\ \A r \in sent : r.count \in Nat
      /\ faults \in Nat
  BY CountTypes
<1>1. ASSUME NEW d \in Peers, NEW event \in {"matched", "unknown"}, AppendEvent(d, event)
      PROVE  BackedInv'
  <2>1. /\ host = "waiting" /\ host' \in {"slot_written", "logged"}
        /\ write' = [device |-> d, event |-> event]
        /\ UNCHANGED <<nvsCount, entries, sent>>
        /\ faults' = faults \/ faults' = faults + 1
    BY <1>1 DEF AppendEvent, NvsError
  <2>2. \A e \in Peers : matched'[e] = matched[e] + Pending(e)' /\ Pending(e) = 0
    BY <1>1, <2>1, <1>0 DEF AppendEvent, Pending, TypeInv, TypeOK
  <2>3. \A e \in Peers : Pending(e)' \in Nat /\ Counted(e) = 0 /\ Counted(e)' = 0
    BY <2>1 DEF Pending, Counted
  <2>4. \A e \in Peers : matched[e] <= matched'[e]
    BY <1>0, <2>2, <2>3
  <2>5. \A e \in Peers : nvsCount'[CounterKey[e]] + Pending(e)' <= matched'[e]
    BY <1>0, <2>1, <2>2, <2>3
  <2>6. ASSUME NEW i \in DOMAIN entries, entries[i].device \in Peers
        PROVE  /\ entries[i].count + Pending(entries[i].device)' <= matched'[entries[i].device]
               /\ entries[i].count <= nvsCount[CounterKey[entries[i].device]] + faults'
                                        + Counted(entries[i].device)'
    BY <1>0, <2>1, <2>2, <2>3, <2>6
  <2>7. SentBacked'
    <3> SUFFICES ASSUME NEW r \in sent, r.from = "entry", r.device \in Peers
                 PROVE  r.count <= matched'[r.device]
      BY <2>1
    <3>1. r.count <= matched[r.device] /\ matched[r.device] <= matched'[r.device]
      BY <2>4
    <3>2. matched'[r.device] \in Nat
      BY <1>0, <2>2, <2>3
    <3> QED BY <1>0, <3>1, <3>2
  <2> QED BY <2>1, <2>5, <2>6, <2>7
<1>2. CASE SaveHead
  <2>1. /\ UNCHANGED <<nvsCount, entries, sent, matched>>
        /\ faults' = faults \/ faults' = faults + 1
        /\ \A d \in Peers : Pending(d)' = Pending(d) /\ Counted(d)' = 0 /\ Counted(d) = 0
    BY <1>2 DEF SaveHead, NvsError, Pending, Counted
  <2> QED BY <1>0, <2>1
<1>3. CASE SkipUnknown
  <2>1. /\ UNCHANGED <<nvsCount, entries, sent, matched, faults>>
        /\ \A d \in Peers : Pending(d)' = 0 /\ Pending(d) = 0 /\ Counted(d)' = 0 /\ Counted(d) = 0
    BY <1>3 DEF SkipUnknown, Counts, Pending, Counted, nvs, history
  <2> QED BY <1>0, <2>1
<1>4. CASE Increment
  <2>1. /\ UNCHANGED <<nvsCount, sent, matched, faults>>
        /\ write.device \in Peers
        /\ \A d \in Peers : /\ Pending(d)' = 0 /\ Counted(d) = 0
                             /\ Pending(d) = Counted(d)'
                             /\ Counted(d)' = IF d = write.device THEN 1 ELSE 0
    BY <1>4 DEF Increment, Counts, Pending, Counted, nvs, history, TypeInv, Writes
  <2>2. ASSUME NEW d \in Peers, NEW j \in DOMAIN entries', entries'[j].device = d
        PROVE  /\ entries'[j].count \in Nat /\ entries'[j].count <= matched[d]
               /\ entries'[j].count <= nvsCount[CounterKey[d]] + faults + Counted(d)'
    <3>0. /\ nvsCount[CounterKey[d]] \in Nat /\ matched[d] \in Nat /\ faults \in Nat
          /\ Counted(d) = 0 /\ Pending(d) = Counted(d)'
          /\ Counted(d)' = IF d = write.device THEN 1 ELSE 0
          /\ nvsCount[CounterKey[d]] + Pending(d) <= matched[d]
      BY <1>0, <2>1, <2>2
    <3>4. \A i \in DOMAIN entries : entries[i].device = d =>
            /\ entries[i].count \in Nat
            /\ entries[i].count + Pending(d) <= matched[d]
            /\ entries[i].count <= nvsCount[CounterKey[d]] + faults + Counted(d)
      BY <1>0, <2>2
    <3>1. CASE j \in DOMAIN entries /\ entries'[j] = entries[j] /\ entries[j].device # write.device
      <4>1. j \in DOMAIN entries /\ entries[j].device = d /\ entries'[j].count = entries[j].count
            /\ d # write.device
        BY <2>2, <3>1
      <4> QED BY <3>0, <3>4, <4>1
    <3>2. CASE entries'[j].device = write.device /\ entries'[j].count = 1
      BY <2>2, <3>0, <3>2
    <3>3. CASE /\ j \in DOMAIN entries /\ entries[j].device = write.device
               /\ entries'[j].device = write.device
               /\ entries'[j].count = Incremented(entries[j].count)
      <4>1. entries'[j].count \in Nat /\ entries'[j].count <= entries[j].count + 1
        BY <3>3, CountTypes DEF Incremented
      <4>2. d = write.device /\ entries[j].device = d
        BY <2>2, <3>3
      <4> QED BY <3>0, <3>3, <3>4, <4>1, <4>2
    <3> QED BY <1>4, <3>1, <3>2, <3>3, IncrementEntries
  <2>3. ASSUME NEW d \in Peers PROVE nvsCount[CounterKey[d]] + Pending(d)' <= matched[d]
    <3>1. nvsCount[CounterKey[d]] + Pending(d) <= matched[d] /\ Pending(d)' = 0
          /\ Pending(d) \in {0, 1} /\ nvsCount[CounterKey[d]] \in Nat /\ matched[d] \in Nat
      BY <1>0, <2>1
    <3> QED BY <3>1
  <2>4. SentBacked'
    BY <2>1
  <2>5. (\A j \in DOMAIN entries : entries[j].device \in Peers =>
          /\ entries[j].count + Pending(entries[j].device) <= matched[entries[j].device]
          /\ entries[j].count <= nvsCount[CounterKey[entries[j].device]] + faults
                                   + Counted(entries[j].device))'
    BY <1>0, <2>1, <2>2
  <2> QED BY <2>1, <2>3, <2>4, <2>5
<1>5. CASE SaveCounter
  <2>1. /\ UNCHANGED <<entries, sent, matched>>
        /\ write.device \in Peers /\ host = "counted" /\ host' = "waiting"
        /\ \A d \in Peers : Pending(d)' = 0 /\ Pending(d) = 0 /\ Counted(d)' = 0
        /\ \A d \in Peers : Counted(d) = IF d = write.device THEN 1 ELSE 0
    BY <1>5 DEF SaveCounter, Pending, Counted, TypeInv, Writes
  <2>2. /\ \A d \in Peers : d # write.device =>
               nvsCount'[CounterKey[d]] = nvsCount[CounterKey[d]]
        /\ \/ faults' = faults + 1 /\ nvsCount' = nvsCount
           \/ \E i \in DOMAIN entries :
                 /\ entries[i].device = write.device
                 /\ \/ /\ faults' = faults
                       /\ nvsCount'[CounterKey[write.device]]
                            = Saved(nvsCount[CounterKey[write.device]], entries[i].count)
                    \/ /\ faults' = faults + 1
                       /\ nvsCount'[CounterKey[write.device]] = entries[i].count
    BY <1>5, SavedCounts, CountTypes
  <2>3. CASE faults' = faults + 1 /\ nvsCount' = nvsCount
    BY <1>0, <2>1, <2>3
  <2>4. ASSUME NEW i \in DOMAIN entries, entries[i].device = write.device,
               \/ /\ faults' = faults
                  /\ nvsCount'[CounterKey[write.device]]
                       = Saved(nvsCount[CounterKey[write.device]], entries[i].count)
               \/ /\ faults' = faults + 1
                  /\ nvsCount'[CounterKey[write.device]] = entries[i].count
        PROVE  BackedInv'
    <3> DEFINE n == nvsCount'[CounterKey[write.device]]
    <3>0. n = nvsCount[CounterKey[write.device]] \/ n = entries[i].count
      BY <2>4 DEF Saved
    <3>1. /\ n \in Nat /\ n <= matched[write.device] /\ entries[i].count <= n
      <4>1. entries[i].count <= n
        BY <1>0, <2>1, <2>4 DEF Saved
      <4> QED BY <1>0, <2>1, <2>4, <3>0, <4>1
    <3>2. \A d \in Peers : nvsCount'[CounterKey[d]] \in Nat /\ nvsCount'[CounterKey[d]] <= matched[d]
      BY <1>0, <2>1, <2>2, <3>1
    <3>3. faults' \in Nat /\ faults <= faults'
      BY <1>0, <2>4
    <3>4. ASSUME NEW j \in DOMAIN entries, entries[j].device \in Peers
          PROVE  entries[j].count <= nvsCount'[CounterKey[entries[j].device]] + faults'
      <4>1. CASE entries[j].device = write.device
        <5>1. j = i
          BY <2>4, <4>1 DEF TypeInv, TypeOK
        <5> QED BY <1>0, <3>1, <3>3, <4>1, <5>1
      <4>2. CASE entries[j].device # write.device
        <5>1. /\ entries[j].count <= nvsCount[CounterKey[entries[j].device]] + faults
              /\ nvsCount'[CounterKey[entries[j].device]] = nvsCount[CounterKey[entries[j].device]]
          BY <1>0, <2>1, <2>2, <3>4, <4>2
        <5> QED BY <1>0, <3>3, <3>4, <5>1
      <4> QED BY <4>1, <4>2
    <3>5. SentBacked'
      BY <2>1
    <3> HIDE DEF n
    <3>6. \A d \in Peers : nvsCount'[CounterKey[d]] + Pending(d)' <= matched'[d]
      BY <1>0, <2>1, <3>2
    <3>7. ASSUME NEW j \in DOMAIN entries, entries[j].device \in Peers
          PROVE  /\ entries[j].count + 0 <= matched[entries[j].device]
                 /\ entries[j].count <= nvsCount'[CounterKey[entries[j].device]] + faults' + 0
      <4>1. entries[j].count + Pending(entries[j].device) <= matched[entries[j].device]
            /\ Pending(entries[j].device) = 0
        BY <2>1, <3>7
      <4>2. nvsCount'[CounterKey[entries[j].device]] \in Nat
        BY <3>2, <3>7
      <4> QED BY <1>0, <3>3, <3>4, <3>7, <4>1, <4>2
    <3>8. (\A j \in DOMAIN entries : entries[j].device \in Peers =>
              /\ entries[j].count + Pending(entries[j].device) <= matched[entries[j].device]
              /\ entries[j].count <= nvsCount[CounterKey[entries[j].device]] + faults
                                       + Counted(entries[j].device))'
      BY <2>1, <3>7
    <3> QED BY <3>5, <3>6, <3>8
  <2> QED BY <2>2, <2>3, <2>4
<1>6. CASE PostEntry
  <2>1. next \in DOMAIN entries
    BY <1>6, EntryTypes DEF PostEntry, TypeInv, TypeOK
  <2>2. UNCHANGED <<nvsCount, entries, matched, faults, host, write>>
    BY <1>6 DEF PostEntry, nvs, hostTask
  <2>3. \A d \in Peers : /\ Pending(d)' = Pending(d) /\ Pending(d) \in {0, 1}
                         /\ Counted(d)' = Counted(d) /\ Counted(d) \in {0, 1}
    BY <2>2 DEF Pending, Counted
  <2>4. \A r \in sent' : \/ r \in sent
                         \/ r.from # "entry"
                         \/ r.device = entries[next].device /\ r.count = entries[next].count
    <3>1. \A r \in FreedReports : r.from # "entry"
      BY DEF FreedReports
    <3>2. \E r \in IF dangling THEN FreedReports
                   ELSE {[device |-> entries[next].device, count |-> entries[next].count,
                          sequence |-> sequence, from |-> "entry"]} : sent' = sent \cup {r}
      BY <1>6 DEF PostEntry
    <3> QED BY <3>1, <3>2
  <2>5. entries[next].device \in Peers => entries[next].count <= matched[entries[next].device]
    BY <1>0, <2>1, <2>3
  <2>6. SentBacked'
    BY <2>2, <2>4, <2>5
  <2> QED BY <2>2, <2>3, <2>6
<1>7. CASE PowerLoss
  <2>1. /\ UNCHANGED <<nvsCount, matched, sent, faults>> /\ entries' = <<>>
        /\ \A d \in Peers : Pending(d)' = 0 /\ Pending(d) \in {0, 1}
    BY <1>7 DEF PowerLoss, Pending, nvs
  <2> QED BY <1>0, <2>1
<1>8. CASE Boot
  <2>1. /\ UNCHANGED <<nvsCount, matched, sent>>
        /\ entries' = <<>> \/ entries' = Restored
        /\ faults' \in Nat /\ faults <= faults'
        /\ \A d \in Peers : /\ Pending(d)' = 0 /\ Pending(d) = 0 /\ Counted(d)' = 0
    BY <1>0, <1>8 DEF Boot, NvsError, Pending, Counted, nvs
  <2>2. \A i \in DOMAIN Restored : /\ Restored[i].device = MeterId
                                   /\ Restored[i].count = nvsCount[CounterKey[MeterId]]
    BY DEF Restored, LoadCounter
  <2>3. ASSUME NEW i \in DOMAIN entries', entries'[i].device \in Peers
        PROVE  /\ entries'[i].count = nvsCount[CounterKey[entries'[i].device]]
               /\ entries'[i].count \in Nat
    BY <1>0, <2>1, <2>2, <2>3
  <2>4. SentBacked'
    BY <1>0, <2>1
  <2> QED BY <1>0, <2>1, <2>3, <2>4
<1>9. CASE UNCHANGED <<nvsCount, entries, sent, matched, faults, host, write>>
  BY <1>9 DEF Pending, Counted
<1>10. CASE SaveSequence
  <2>1. /\ UNCHANGED <<nvsCount, entries, sent, matched, host, write>>
        /\ faults' = faults \/ faults' = faults + 1
    BY <1>10 DEF SaveSequence, NvsError, hostTask
  <2>2. \A d : /\ Pending(d)' = Pending(d)
              /\ Counted(d)' = Counted(d) /\ Counted(d) \in {0, 1}
    BY <2>1 DEF Pending, Counted
  <2> QED BY <1>0, <2>1, <2>2
<1> QED BY <1>1, <1>2, <1>3, <1>4, <1>5, <1>6, <1>7, <1>8, <1>9, <1>10
        DEF Next, NextSequence, EndBatch, vars, nvs, hostTask, history

\* If no two ids share an NVS key, no report read from an entry claims for an
\* appliance more than its matched writes, and no entry is ahead of NVS by more
\* than the increment under way and the saves that failed, across reboots and
\* reads of NVS that fail (record, report_task).
THEOREM ReportsBacked == NoCollisions => (Spec => []ReportsAreBacked)
<1> SUFFICES ASSUME NoCollisions PROVE Spec => []ReportsAreBacked
  OBVIOUS
<1>1. Init => BackedInv
  <2> SUFFICES ASSUME Init PROVE BackedInv
    OBVIOUS
  <2>1. \A d \in Peers : nvsCount[CounterKey[d]] = 0 /\ Pending(d) = 0 /\ matched[d] = 0
    BY DEF Init, Pending, NvsKeys, Ids
  <2>2. sent = {} /\ DOMAIN entries = {}
    BY DEF Init
  <2> QED BY <2>1, <2>2 DEF BackedInv, SentBacked
<1>2. TypeInv /\ BackedInv /\ [Next]_vars => BackedInv'
  BY BackedStep
<1>3. TypeInv /\ BackedInv => ReportsAreBacked
  <2> SUFFICES ASSUME TypeInv, BackedInv, NEW i \in DOMAIN entries, entries[i].device \in Peers
               PROVE  entries[i].count <= nvsCount[CounterKey[entries[i].device]] + 1 + faults
    BY DEF BackedInv, SentBacked, ReportsAreBacked
  <2>1. /\ entries[i].count \in Nat /\ nvsCount[CounterKey[entries[i].device]] \in Nat
        /\ faults \in Nat /\ Counted(entries[i].device) \in {0, 1}
    BY CountTypes DEF Counted
  <2>2. entries[i].count <= nvsCount[CounterKey[entries[i].device]] + faults
                              + Counted(entries[i].device)
    BY DEF BackedInv
  <2> QED BY <2>1, <2>2
<1> QED BY <1>1, <1>2, <1>3, TypeInvariant, PTL DEF Spec

-----------------------------------------------------------------------------
(* Lost events.                                                             *)

\* The entry of the restored id is never behind NVS, and is ahead of it between
\* increment and save_counter, until it saturates.
EntryAhead ==
    host # "off" =>
        /\ (\A i \in DOMAIN entries : entries[i].device # MeterId)
              => nvsCount[CounterKey[MeterId]] = 0
        /\ \A i \in DOMAIN entries : entries[i].device = MeterId =>
              \/ entries[i].count >= nvsCount[CounterKey[MeterId]] + Counted(MeterId)
              \/ entries[i].count = CountLimit

\* Its matched writes are in NVS, or were lost with power, or one is under way.
LossBound ==
    nvsCount[CounterKey[MeterId]] < CountLimit =>
        matched[MeterId] <= nvsCount[CounterKey[MeterId]] + losses
                               + Pending(MeterId) + Counted(MeterId)

LossInv ==
    /\ host = "counted" => write.event = "matched"
    /\ faults = 0 /\ MeterId \in Peers => EntryAhead /\ LossBound

LEMMA LossStep == NoCollisions => (TypeInv /\ LossInv /\ [Next]_vars => LossInv')
<1> SUFFICES ASSUME NoCollisions, TypeInv, LossInv, [Next]_vars PROVE LossInv'
  OBVIOUS
<1> DEFINE n == nvsCount[CounterKey[MeterId]]
<1>0. /\ n \in 0..CountLimit /\ CountLimit \in Nat \ {0} /\ MeterId \in Ids
      /\ MeterId \in Peers => matched[MeterId] \in Nat
      /\ \A i \in DOMAIN entries : entries[i].count \in 1..CountLimit
      /\ faults \in Nat /\ losses \in Nat
      /\ Pending(MeterId) \in {0, 1} /\ Counted(MeterId) \in {0, 1}
      /\ Pending(MeterId) + Counted(MeterId) <= 1
  BY CountTypes DEF Ids, Pending, Counted
<1>1. faults' = 0 => faults = 0
  <2>1. faults' = faults \/ NvsError
    BY DEF Next, AppendEvent, SaveHead, SkipUnknown, Increment, SaveCounter, NextSequence,
           SaveSequence, PostEntry, EndBatch, PowerLoss, Boot, vars, history
  <2> QED BY <1>0, <2>1 DEF NvsError
<1>2. ASSUME NEW d \in Peers, NEW event \in {"matched", "unknown"}, AppendEvent(d, event)
      PROVE  LossInv'
  <2>1. /\ host = "waiting" /\ host' \in {"slot_written", "logged"}
        /\ write' = [device |-> d, event |-> event]
        /\ UNCHANGED <<nvsCount, entries, losses>>
    BY <1>2 DEF AppendEvent
  <2>2. MeterId \in Peers => matched'[MeterId] = matched[MeterId] + Pending(MeterId)'
    BY <1>2, <2>1, <1>0 DEF AppendEvent, Pending, TypeInv, TypeOK
  <2>3. /\ Pending(MeterId)' \in {0, 1} /\ Pending(MeterId) = 0
        /\ Counted(MeterId) = 0 /\ Counted(MeterId)' = 0
    BY <2>1 DEF Pending, Counted
  <2>4. faults' = 0 /\ MeterId \in Peers => EntryAhead'
    BY <1>0, <1>1, <2>1, <2>3 DEF EntryAhead, LossInv
  <2>5. faults' = 0 /\ MeterId \in Peers => LossBound'
    BY <1>0, <1>1, <2>1, <2>2, <2>3 DEF LossBound, LossInv
  <2> QED BY <2>1, <2>4, <2>5 DEF LossInv
<1>3. ASSUME UNCHANGED <<nvsCount, entries, matched, losses>>, host # "off", host' # "off",
             host' # "counted",
             Pending(MeterId)' = Pending(MeterId), Counted(MeterId)' = Counted(MeterId)
      PROVE  LossInv'
  BY <1>1, <1>3 DEF LossInv, EntryAhead, LossBound
<1>4. CASE SaveHead
  <2>1. /\ UNCHANGED <<nvsCount, entries, matched, losses>> /\ host # "off"
        /\ host' \notin {"off", "counted"}
        /\ Pending(MeterId)' = Pending(MeterId) /\ Counted(MeterId)' = Counted(MeterId)
    BY <1>4 DEF SaveHead, Pending, Counted
  <2> QED BY <1>3, <2>1
<1>5. CASE SkipUnknown
  <2>1. /\ UNCHANGED <<nvsCount, entries, matched, losses>> /\ host # "off"
        /\ host' \notin {"off", "counted"}
        /\ Pending(MeterId)' = Pending(MeterId) /\ Counted(MeterId)' = Counted(MeterId)
    BY <1>5 DEF SkipUnknown, Counts, Pending, Counted, nvs, history
  <2> QED BY <1>3, <2>1
<1>6. CASE Increment
  <2>1. /\ UNCHANGED <<nvsCount, matched, losses>> /\ host # "off" /\ host' = "counted"
        /\ write' = write /\ write.event = "matched"
        /\ Pending(MeterId)' = 0 /\ Counted(MeterId) = 0
        /\ Pending(MeterId) = Counted(MeterId)'
        /\ Counted(MeterId)' = IF write.device = MeterId THEN 1 ELSE 0
    BY <1>6 DEF Increment, Counts, Pending, Counted, nvs, history, TypeInv, Writes
  <2>2. faults' = 0 /\ MeterId \in Peers => LossBound'
    BY <1>0, <1>1, <2>1 DEF LossBound, LossInv
  <2>3. ASSUME faults' = 0, MeterId \in Peers, NEW j \in DOMAIN entries',
               entries'[j].device = MeterId
        PROVE  entries'[j].count >= n + Counted(MeterId)' \/ entries'[j].count = CountLimit
    <3>0. EntryAhead
      BY <1>1, <2>3 DEF LossInv
    <3>1. CASE j \in DOMAIN entries /\ entries'[j] = entries[j] /\ entries[j].device # write.device
      BY <1>0, <2>1, <2>3, <3>0, <3>1 DEF EntryAhead
    <3>2. CASE /\ entries'[j].device = write.device /\ entries'[j].count = 1
               /\ \A i \in DOMAIN entries : entries[i].device # write.device
      BY <1>0, <2>1, <2>3, <3>0, <3>2 DEF EntryAhead
    <3>3. CASE /\ j \in DOMAIN entries /\ entries[j].device = write.device
               /\ entries'[j].device = write.device
               /\ entries'[j].count = Incremented(entries[j].count)
      BY <1>0, <2>1, <2>3, <3>0, <3>3 DEF EntryAhead, Incremented
    <3> QED BY <1>6, <3>1, <3>2, <3>3, IncrementEntries
  <2>4. ASSUME faults' = 0, MeterId \in Peers,
               \A j \in DOMAIN entries' : entries'[j].device # MeterId
        PROVE  n = 0
    <3>1. \A i \in DOMAIN entries : i \in DOMAIN entries' /\ entries'[i].device = entries[i].device
      BY <1>6, EntryKept
    <3> QED BY <1>1, <2>1, <2>4, <3>1 DEF LossInv, EntryAhead
  <2>5. faults' = 0 /\ MeterId \in Peers => EntryAhead'
    BY <2>1, <2>3, <2>4 DEF EntryAhead
  <2> QED BY <2>1, <2>2, <2>5 DEF LossInv
<1>7. CASE SaveCounter
  <2>1. /\ UNCHANGED <<entries, matched, losses>> /\ host = "counted" /\ host' = "waiting"
        /\ Pending(MeterId)' = 0 /\ Pending(MeterId) = 0 /\ Counted(MeterId)' = 0
        /\ Counted(MeterId) = IF write.device = MeterId THEN 1 ELSE 0
    BY <1>7 DEF SaveCounter, Pending, Counted
  <2>2. CASE write.device # MeterId
    <3>1. nvsCount'[CounterKey[MeterId]] = n
      BY <1>0, <1>7, <2>2, SavedCounts
    <3> QED BY <1>1, <2>1, <2>2, <3>1 DEF LossInv, EntryAhead, LossBound
  <2>3. ASSUME write.device = MeterId, faults' = 0, MeterId \in Peers
        PROVE  EntryAhead' /\ LossBound'
    <3>1. PICK i \in DOMAIN entries : /\ entries[i].device = MeterId
                                      /\ nvsCount'[CounterKey[MeterId]] = Saved(n, entries[i].count)
      <4>1. \/ faults' = faults + 1 /\ nvsCount' = nvsCount
            \/ \E i \in DOMAIN entries :
                  /\ entries[i].device = MeterId
                  /\ \/ nvsCount'[CounterKey[MeterId]] = Saved(n, entries[i].count)
                     \/ faults' = faults + 1
        BY <1>7, <2>3, SavedCounts
      <4>2. faults' # faults + 1
        BY <1>0, <2>3
      <4> HIDE DEF n
      <4> QED BY <4>1, <4>2
    <3>2. entries[i].count >= n + 1 \/ entries[i].count = CountLimit
      BY <1>0, <1>1, <2>1, <2>3, <3>1 DEF LossInv, EntryAhead
    <3>3. nvsCount'[CounterKey[MeterId]] = entries[i].count /\ n <= entries[i].count
      BY <1>0, <3>1, <3>2 DEF Saved
    <3>4. \A j \in DOMAIN entries : entries[j].device = MeterId => j = i
      BY <3>1 DEF TypeInv, TypeOK
    <3>5. EntryAhead'
      BY <1>0, <2>1, <3>1, <3>3, <3>4 DEF EntryAhead
    <3>6. LossBound'
      BY <1>0, <1>1, <2>1, <2>3, <3>2, <3>3 DEF LossBound, LossInv
    <3> QED BY <3>5, <3>6
  <2> QED BY <2>1, <2>2, <2>3 DEF LossInv
<1>8. CASE PowerLoss
  <2>1. /\ UNCHANGED <<nvsCount, matched>> /\ host' = "off"
        /\ Pending(MeterId)' = 0 /\ Counted(MeterId)' = 0
        /\ \/ losses' = losses + 1
           \/ losses' = losses /\ Pending(MeterId) = 0 /\ Counted(MeterId) = 0
    BY <1>8 DEF PowerLoss, Pending, Counted, nvs
  <2> QED BY <1>0, <1>1, <2>1 DEF LossInv, EntryAhead, LossBound
<1>9. CASE Boot
  <2>1. /\ UNCHANGED <<nvsCount, matched, losses>> /\ host' = "waiting"
        /\ Pending(MeterId)' = 0 /\ Counted(MeterId)' = 0
        /\ Pending(MeterId) = 0 /\ Counted(MeterId) = 0
        /\ faults' = 0 => entries' = Restored
    BY <1>0, <1>9 DEF Boot, NvsError, Pending, Counted, nvs
  <2>2. /\ n = 0 => Restored = <<>>
        /\ n # 0 => Restored = <<[device |-> MeterId, count |-> n]>>
    BY DEF Restored, LoadCounter
  <2>3. faults' = 0 => EntryAhead'
    <3> SUFFICES ASSUME faults' = 0 PROVE EntryAhead'
      OBVIOUS
    <3>1. CASE n = 0
      BY <2>1, <2>2, <3>1 DEF EntryAhead
    <3>2. CASE n # 0
      <4>1. DOMAIN entries' = {1} /\ entries'[1].device = MeterId /\ entries'[1].count = n
        BY <2>1, <2>2, <3>2
      <4> QED BY <1>0, <2>1, <4>1 DEF EntryAhead
    <3> QED BY <3>1, <3>2
  <2> QED BY <1>1, <2>1, <2>3 DEF LossInv, LossBound
<1>10. CASE UNCHANGED <<nvsCount, entries, matched, losses, host, write>>
  BY <1>1, <1>10 DEF LossInv, EntryAhead, LossBound, Pending, Counted
<1> QED BY <1>2, <1>4, <1>5, <1>6, <1>7, <1>8, <1>9, <1>10
        DEF Next, NextSequence, SaveSequence, PostEntry, EndBatch, vars, nvs, hostTask, history

\* If no two ids share an NVS key and NVS calls succeed, the appliance whose id
\* app_main restores loses at most one event to each power loss in the middle of
\* record(), however many there are.
THEOREM LossesBounded == NoCollisions => (Spec => []AtMostOneLostPerPowerLoss)
<1> SUFFICES ASSUME NoCollisions PROVE Spec => []AtMostOneLostPerPowerLoss
  OBVIOUS
<1>1. Init => LossInv
  <2> SUFFICES ASSUME Init PROVE LossInv
    OBVIOUS
  <2>1. /\ nvsCount[CounterKey[MeterId]] = 0 /\ losses = 0 /\ host = "off"
        /\ Pending(MeterId) = 0 /\ Counted(MeterId) = 0
        /\ MeterId \in Peers => matched[MeterId] = 0
    BY DEF Init, Pending, Counted, NvsKeys, Ids
  <2> QED BY <2>1 DEF LossInv, EntryAhead, LossBound
<1>2. TypeInv /\ LossInv /\ [Next]_vars => LossInv'
  BY LossStep
<1>3. TypeInv /\ LossInv => AtMostOneLostPerPowerLoss
  <2> SUFFICES ASSUME TypeInv, LossInv, MeterId \in Peers, faults = 0,
                      nvsCount[CounterKey[MeterId]] < CountLimit
               PROVE  matched[MeterId] <= nvsCount[CounterKey[MeterId]] + losses
                        + (IF write = None \/ write.event = "unknown" THEN 0 ELSE 1)
    BY DEF AtMostOneLostPerPowerLoss
  <2>1. LossBound
    BY DEF LossInv
  <2>2. Pending(MeterId) + Counted(MeterId)
          <= (IF write = None \/ write.event = "unknown" THEN 0 ELSE 1)
    BY FirmwareAssumption DEF Pending, Counted, TypeInv, LossInv
  <2>3. /\ nvsCount[CounterKey[MeterId]] \in Nat /\ losses \in Nat /\ matched[MeterId] \in Nat
        /\ Pending(MeterId) \in Nat /\ Counted(MeterId) \in Nat
    BY CountTypes DEF Pending, Counted, Ids
  <2> QED BY <2>1, <2>2, <2>3 DEF LossBound
<1> QED BY <1>1, <1>2, <1>3, TypeInvariant, PTL DEF Spec
====
