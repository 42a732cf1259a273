---- MODULE Reassembly ----
(***************************************************************************)
(* The ESP32 observer's reassembly of long ATT writes                      *)
(* (src/firmware/esp32/ble_observer.cpp): a fixed pool of runs, one per    *)
(* connection and attribute handle, fed by observer_on_att_fragment and    *)
(* emptied by delivery, by any irregularity, by a disconnect, or, once     *)
(* stale, when some other run needs a slot.                                *)
(*                                                                         *)
(* The observer only listens.  What it listens to is the link: a phone     *)
(* that sends short writes in one PDU and long ones as Prepare Writes at   *)
(* growing offsets and an Execute Write.  Any PDU may be missed.           *)
(***************************************************************************)
EXTENDS Naturals, Sequences, FiniteSets

CONSTANTS Connections,  \* connection handles
          Attributes,   \* attribute handles
          PoolSize,     \* kMaxReassembly
          MaxPayload,   \* kMaxAttPayload, in units of one PDU's part
          MaxLength,    \* bound: units of a write
          MaxWrites,    \* bound: writes on the link
          Free          \* a slot that is not in_use; no write in progress

Runs == Connections \X Attributes

Slots == 1..PoolSize

\* A byte is known by the write it belongs to and its place there.
Units == [write: 1..MaxWrites, offset: 0..MaxLength]

\* A slot in use.
PartialWrites == [run: Runs, buf: Seq(Units), stale: BOOLEAN]

LongWrites == [write: 1..MaxWrites, offset: 1..MaxLength]

ASSUME ReassemblyAssumption ==
    /\ PoolSize \in Nat \ {0}
    /\ MaxPayload \in Nat
    /\ MaxLength \in Nat
    /\ MaxWrites \in Nat
    /\ Free \notin PartialWrites
    /\ Free \notin LongWrites

VARIABLES pool,       \* g_reasm: per slot its run, its buffer, and whether stale
          delivered,  \* history: the values handed to the callback, in order
          link,       \* per run, the long write in progress and its next offset
          size,       \* history: units of every write begun so far, by number
          done,       \* history: writes whose last PDU was sent
          missed,     \* history: runs on which a PDU was missed
          joined,     \* history: the first write of each connection's session
          quiet,      \* history: some run once fell silent for kReassemblyTimeoutUs
          crowded     \* history: a first fragment once found no slot

air == <<link, size, done, missed, joined>>
vars == <<pool, delivered, air, quiet, crowded>>

\* The part of write w at an offset, as the observer buffers it.
Unit(w, offset) == [write |-> w, offset |-> offset]

InUse(s) == pool[s] # Free

-----------------------------------------------------------------------------
(* observer_on_att_fragment.                                                *)

\* Mutant: slots are looked up by the attribute handle alone.
FindSlotByAttribute(run) == {s \in Slots : InUse(s) /\ pool[s].run[2] = run[2]}

\* Mutant: find_slot returns from inside its loop.
FindSlotFirstOnly(run) == {s \in {1} : InUse(s) /\ pool[s].run = run}

FindSlot(run) == {s \in Slots : InUse(s) /\ pool[s].run = run}

\* Mutant: any run may be swept, not only a stale one.
SweptAll == [s \in Slots |-> Free]

\* claim_slot first drops every stale run.
Swept == [s \in Slots |-> IF InUse(s) /\ pool[s].stale THEN Free ELSE pool[s]]

\* then takes the first slot that is free now, if any.
Claimable == {s \in Slots : Swept[s] = Free
                  /\ \A lower \in 1..s - 1 : Swept[lower] # Free}

\* Mutant: deliver forgets to release the slot.
DeliverAndKeep(p, s, run, value) ==
    /\ delivered' = IF value = <<>> THEN delivered
                    ELSE Append(delivered, [run |-> run, value |-> value])
    /\ pool' = [p EXCEPT ![s] = [run |-> run, buf |-> value, stale |-> FALSE]]

\* deliver: a non-empty value goes to the callback, and the slot is released.
Deliver(p, s, run, value) ==
    /\ delivered' = IF value = <<>> THEN delivered
                    ELSE Append(delivered, [run |-> run, value |-> value])
    /\ pool' = [p EXCEPT ![s] = Free]

\* Mutant: a gap in the offsets is not noticed.
BrokenByLength(buffered, offset, length) == buffered + length > MaxPayload

\* The fragment is not the next one, or makes the value too long.
Broken(buffered, offset, length) ==
    offset # buffered \/ buffered + length > MaxPayload

\* A fragment for the run in slot s of pool p: a gap or an oversize value drops
\* the run together with the fragment; otherwise the value grows, and a final
\* fragment completes it.
Extend(p, s, offset, data, final) ==
    LET value == p[s].buf \o data IN
    IF Broken(Len(p[s].buf), offset, Len(data))
    THEN pool' = [p EXCEPT ![s] = Free] /\ UNCHANGED delivered
    ELSE IF final THEN Deliver(p, s, p[s].run, value)
    ELSE /\ pool' = [p EXCEPT ![s] = [run |-> @.run, buf |-> value, stale |-> FALSE]]
         /\ UNCHANGED delivered

\* The handler: extend the run there is; else an orphan is ignored, and a first
\* fragment opens a run if the pool has room for it.
OnFragment(run, offset, data, final) ==
    \/ \E s \in FindSlot(run) : Extend(pool, s, offset, data, final)
    \/ /\ FindSlot(run) = {}
       /\ offset # 0
       /\ UNCHANGED <<pool, delivered>>
    \/ /\ FindSlot(run) = {}
       /\ offset = 0
       /\ Claimable = {}
       /\ pool' = Swept
       /\ UNCHANGED delivered
    \/ /\ FindSlot(run) = {}
       /\ offset = 0
       /\ \E s \in Claimable :
             Extend([Swept EXCEPT ![s] = [run |-> run, buf |-> <<>>, stale |-> FALSE]],
                    s, offset, data, final)

\* The PDU is captured and handled, or it is missed.
Captured(run, offset, data, final) ==
    \/ /\ OnFragment(run, offset, data, final)
       /\ crowded' = (crowded \/ (FindSlot(run) = {} /\ offset = 0 /\ Claimable = {}))
       /\ UNCHANGED missed
    \/ /\ missed' = missed \cup {run}
       /\ UNCHANGED <<pool, delivered, crowded>>

-----------------------------------------------------------------------------
(* The link, and what else happens to the pool.                             *)

\* A Write Request or Write Command: one PDU with the whole value.
ShortWrite(run, length) ==
    LET w == Len(size) + 1 IN
    /\ link[run] = Free
    /\ w <= MaxWrites
    /\ size' = Append(size, length)
    /\ done' = done \cup {w}
    /\ Captured(run, 0, [i \in 1..length |-> Unit(w, i - 1)], TRUE)
    /\ UNCHANGED <<link, joined, quiet>>

\* The first Prepare Write of a long write.
BeginLongWrite(run) ==
    LET w == Len(size) + 1 IN
    /\ link[run] = Free
    /\ w <= MaxWrites
    /\ MaxLength > 0
    /\ size' = Append(size, 1)
    /\ link' = [link EXCEPT ![run] = [write |-> w, offset |-> 1]]
    /\ Captured(run, 0, <<Unit(w, 0)>>, FALSE)
    /\ UNCHANGED <<done, joined, quiet>>

\* A further Prepare Write.
PrepareWrite(run) ==
    LET l == link[run] IN
    /\ l # Free
    /\ l.offset < MaxLength
    /\ size' = [size EXCEPT ![l.write] = @ + 1]
    /\ link' = [link EXCEPT ![run] = [write |-> l.write, offset |-> l.offset + 1]]
    /\ Captured(run, l.offset, <<Unit(l.write, l.offset)>>, FALSE)
    /\ UNCHANGED <<done, joined, quiet>>

\* The Execute Write: it carries nothing and ends the value.
ExecuteWrite(run) ==
    LET l == link[run] IN
    /\ l # Free
    /\ link' = [link EXCEPT ![run] = Free]
    /\ done' = done \cup {l.write}
    /\ Captured(run, l.offset, <<>>, TRUE)
    /\ UNCHANGED <<size, joined, quiet>>

\* Mutant: BLE_GAP_EVENT_DISCONNECT is ignored.
DisconnectIgnored(c) ==
    /\ link' = [run \in Runs |-> IF run[1] = c THEN Free ELSE link[run]]
    /\ joined' = [joined EXCEPT ![c] = Len(size) + 1]
    /\ UNCHANGED <<pool, delivered, size, done, missed, quiet, crowded>>

\* BLE_GAP_EVENT_DISCONNECT drops the runs of the connection; its handle may
\* then be given to another one.
Disconnect(c) ==
    /\ pool' = [s \in Slots |-> IF InUse(s) /\ pool[s].run[1] = c THEN Free ELSE pool[s]]
    /\ link' = [run \in Runs |-> IF run[1] = c THEN Free ELSE link[run]]
    /\ joined' = [joined EXCEPT ![c] = Len(size) + 1]
    /\ UNCHANGED <<delivered, size, done, missed, quiet, crowded>>

\* kReassemblyTimeoutUs has passed since the last fragment of a run; the clock
\* alone changes nothing in the pool.
FallSilent(s) ==
    /\ InUse(s)
    /\ ~ pool[s].stale
    /\ pool' = [pool EXCEPT ![s] = [@ EXCEPT !.stale = TRUE]]
    /\ quiet' = TRUE
    /\ UNCHANGED <<delivered, air, crowded>>

-----------------------------------------------------------------------------
Init ==
    /\ pool = [s \in Slots |-> Free]
    /\ delivered = <<>>
    /\ link = [run \in Runs |-> Free]
    /\ size = <<>>
    /\ done = {}
    /\ missed = {}
    /\ joined = [c \in Connections |-> 1]
    /\ quiet = FALSE
    /\ crowded = FALSE

Next ==
    \/ \E run \in Runs :
        \/ \E length \in 0..MaxLength : ShortWrite(run, length)
        \/ BeginLongWrite(run)
        \/ PrepareWrite(run)
        \/ ExecuteWrite(run)
    \/ \E c \in Connections : Disconnect(c)
    \/ \E s \in Slots : FallSilent(s)

Spec == Init /\ [][Next]_vars

-----------------------------------------------------------------------------
(* Properties.                                                              *)

Writes == 1..Len(size)

\* Every variable has its type; no buffer outgrows kMaxAttPayload; and no run ever
\* has two slots, however slots are swept and claimed, so that find_slot is
\* unambiguous.
TypeOK ==
    /\ \A s \in Slots : InUse(s) =>
          /\ pool[s] \in PartialWrites
          /\ Len(pool[s].buf) <= MaxPayload
          /\ \A t \in Slots : InUse(t) /\ pool[s].run = pool[t].run => s = t
    /\ delivered \in Seq([run: Runs, value: Seq(Units)])
    /\ \A run \in Runs : link[run] # Free => link[run] \in [write: Writes, offset: 1..MaxLength]
    /\ size \in Seq(0..MaxLength)
    /\ done \subseteq Writes
    /\ missed \subseteq Runs
    /\ joined \in [Connections -> 1..MaxWrites + 1]
    /\ quiet \in BOOLEAN
    /\ crowded \in BOOLEAN

\* "One reassembled value in, at most one match out": no write contributes to two
\* delivered values, whatever is missed, dropped or interleaved.
AtMostOneMatchPerWrite ==
    \A i, j \in DOMAIN delivered : \A m \in DOMAIN delivered[i].value,
                                      n \in DOMAIN delivered[j].value :
        delivered[i].value[m].write = delivered[j].value[n].write => i = j

\* Exactly one whole write.
Whole(value) == \E w \in Writes : value = [i \in 1..size[w] |-> Unit(w, i - 1)]

\* A value never has a hole, is never shifted and fits kMaxAttPayload; and on a run
\* of which no PDU was missed it is one whole write, even if the run once fell
\* silent or other runs lost PDUs.
ValuesAreSound ==
    \A i \in DOMAIN delivered : LET value == delivered[i].value IN
        /\ Len(value) <= MaxPayload
        /\ \A n \in DOMAIN value : value[n].offset = n - 1
        /\ delivered[i].run \in missed \/ Whole(value)

\* If nothing was missed, no run fell silent and every run found a slot, every
\* completed write of a legal size is handed over.
NothingDropped ==
    missed = {} /\ ~ quiet /\ ~ crowded =>
        \A w \in done : size[w] \in 1..MaxPayload =>
            \E i \in DOMAIN delivered : delivered[i].value[1].write = w

\* A half-built value never crosses into the next connection that gets the handle
\* (gap_event, "abandon any partial write on that connection").
NoLeftoverOfAnotherSession ==
    \A s \in Slots : InUse(s) =>
        \A n \in DOMAIN pool[s].buf : pool[s].buf[n].write >= joined[pool[s].run[1]]

\* A run that needs a slot never takes one from a run that is not stale, nor
\* disturbs it in any other way (claim_slot).
FreshRunsKeepTheirSlots ==
    [][\A run \in Runs :
          /\ ~ \E s \in Slots : InUse(s) /\ pool[s].run = run
          /\ \E s \in Slots : pool'[s] # Free /\ pool'[s].run = run
          => \A s \in Slots : InUse(s) /\ ~ pool[s].stale => pool'[s] = pool[s]]_vars

====
