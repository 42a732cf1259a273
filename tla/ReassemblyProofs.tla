---- MODULE ReassemblyProofs ----
(***************************************************************************)
(* Theorems about Reassembly.tla for every pool, every number of           *)
(* connections and attributes and writes of any length.                    *)
(***************************************************************************)
EXTENDS Reassembly, SequenceTheorems, TLAPS

-----------------------------------------------------------------------------
(* Sequences of units.                                                      *)

LEMMA Concatenated ==
    ASSUME NEW old \in Seq(Units), NEW data \in Seq(Units)
    PROVE  /\ old \o data \in Seq(Units)
           /\ Len(old) \in Nat /\ Len(data) \in Nat /\ Len(old \o data) = Len(old) + Len(data)
           /\ \A n \in 1..Len(old) + Len(data) :
                 (old \o data)[n] = IF n <= Len(old) THEN old[n] ELSE data[n - Len(old)]
<1> HIDE DEF Units
<1> QED OBVIOUS

-----------------------------------------------------------------------------
(* The handler.                                                             *)

PoolType == pool \in [Slots -> PartialWrites \cup {Free}]

OneSlotEach ==
    \A s, t \in Slots : InUse(s) /\ InUse(t) /\ pool[s].run = pool[t].run => s = t

\* A slot keeps its run, or is given up because it is stale or belongs to this run.
KeptOrFreed(t, run) ==
    \/ pool'[t] = pool[t]
    \/ pool'[t] = Free /\ (InUse(t) => pool[t].stale \/ pool[t].run = run)

\* Why nothing comes of a fragment; its run has no slot then.
Dropped(run, offset, data) ==
    /\ \/ FindSlot(run) = {} /\ offset # 0
       \/ FindSlot(run) = {} /\ offset = 0 /\ Claimable = {}
       \/ FindSlot(run) = {} /\ offset = 0 /\ Len(data) > MaxPayload
       \/ \E s \in FindSlot(run) : Broken(Len(pool[s].buf), offset, Len(data))
    /\ \A t \in Slots : pool'[t] # Free => pool[t].run # run

\* The run grows in slot s from what it had to `value`.
Grown(s, run, offset, data, final, old, value) ==
    /\ \/ s \in FindSlot(run) /\ old = pool[s].buf
       \/ FindSlot(run) = {} /\ (InUse(s) => pool[s].stale) /\ old = <<>>
    /\ value = old \o data
    /\ offset = Len(old) /\ Len(value) <= MaxPayload
    /\ \A t \in Slots \ {s} : KeptOrFreed(t, run) /\ (pool'[t] # pool[t] => FindSlot(run) = {})
    /\ \/ /\ final /\ pool'[s] = Free
          /\ delivered' = IF value = <<>> THEN delivered
                          ELSE Append(delivered, [run |-> run, value |-> value])
       \/ /\ ~ final /\ pool'[s] = [run |-> run, buf |-> value, stale |-> FALSE]
          /\ delivered' = delivered

\* What Extend does to pool p, its slot s being that of the run.
Extended(p, s, run, offset, data, final) ==
    /\ pool' \in [Slots -> PartialWrites \cup {Free}]
    /\ \A t \in Slots \ {s} : pool'[t] = p[t]
    /\ \/ /\ Broken(Len(p[s].buf), offset, Len(data))
          /\ pool'[s] = Free /\ delivered' = delivered
       \/ /\ offset = Len(p[s].buf) /\ Len(p[s].buf \o data) <= MaxPayload
          /\ \/ /\ final /\ pool'[s] = Free
                /\ delivered' = IF p[s].buf \o data = <<>> THEN delivered
                                ELSE Append(delivered, [run |-> run, value |-> p[s].buf \o data])
             \/ /\ ~ final
                /\ pool'[s] = [run |-> run, buf |-> p[s].buf \o data, stale |-> FALSE]
                /\ delivered' = delivered

LEMMA ExtendSteps ==
    ASSUME NEW p, p \in [Slots -> PartialWrites \cup {Free}], NEW s, s \in Slots,
           NEW run, run \in Runs, p[s] \in PartialWrites, p[s].run = run,
           NEW offset, offset \in Nat, NEW data, data \in Seq(Units),
           NEW final, final \in BOOLEAN, Extend(p, s, offset, data, final)
    PROVE  Extended(p, s, run, offset, data, final)
<1> USE DEF Extended
<1> DEFINE value == p[s].buf \o data
<1>0. p[s].buf \in Seq(Units) /\ p[s].stale \in BOOLEAN
      /\ p[s] = [run |-> run, buf |-> p[s].buf, stale |-> p[s].stale]
  BY DEF PartialWrites
<1>1. value \in Seq(Units) /\ Len(value) = Len(p[s].buf) + Len(data)
  BY <1>0, Concatenated
<1>2. [run |-> run, buf |-> value, stale |-> FALSE] \in PartialWrites
  BY <1>1 DEF PartialWrites
<1> HIDE DEF value
<1> HIDE DEF value
<1>4. CASE Broken(Len(p[s].buf), offset, Len(data))
  BY <1>4 DEF Extend
<1>5. CASE ~ Broken(Len(p[s].buf), offset, Len(data)) /\ final
  <2>1. Deliver(p, s, run, value)
    BY <1>5 DEF Extend, value
  <2>2. offset = Len(p[s].buf) /\ Len(value) <= MaxPayload
    BY <1>1, <1>5, ReassemblyAssumption, <1>0 DEF Broken
  <2> QED BY <1>5, <2>1, <2>2 DEF Deliver, value
<1>6. CASE ~ Broken(Len(p[s].buf), offset, Len(data)) /\ ~ final
  <2>1. pool' = [p EXCEPT ![s] = [run |-> run, buf |-> value, stale |-> FALSE]]
        /\ delivered' = delivered
    BY <1>6 DEF Extend, value
  <2>2. offset = Len(p[s].buf) /\ Len(value) <= MaxPayload
    BY <1>1, <1>6, ReassemblyAssumption, <1>0 DEF Broken
  <2> QED BY <1>2, <1>6, <2>1, <2>2 DEF value
<1> QED BY <1>4, <1>5, <1>6

LEMMA FragmentSteps ==
    ASSUME PoolType, OneSlotEach, NEW run \in Runs, NEW offset \in Nat,
           NEW data \in Seq(Units), NEW final \in BOOLEAN, OnFragment(run, offset, data, final)
    PROVE  /\ PoolType'
           /\ \/ /\ Dropped(run, offset, data) /\ delivered' = delivered
                 /\ \A t \in Slots : KeptOrFreed(t, run)
              \/ \E s \in Slots, old \in Seq(Units), value \in Seq(Units) :
                    Grown(s, run, offset, data, final, old, value)
<1> USE DEF PoolType
<1>1. ASSUME NEW s \in FindSlot(run), Extend(pool, s, offset, data, final)
      PROVE  /\ PoolType'
             /\ \/ /\ Dropped(run, offset, data) /\ delivered' = delivered
                   /\ \A t \in Slots : KeptOrFreed(t, run)
                \/ \E old \in Seq(Units), value \in Seq(Units) :
                      Grown(s, run, offset, data, final, old, value)
  <2>1. s \in Slots /\ pool[s] \in PartialWrites /\ pool[s].run = run
        /\ pool[s].buf \in Seq(Units)
    BY DEF FindSlot, InUse, PartialWrites
  <2>2. Extended(pool, s, run, offset, data, final)
    BY <1>1, <2>1, ExtendSteps
  <2>3. pool[s].buf \o data \in Seq(Units)
    BY <2>1, Concatenated
  <2>4. CASE /\ Broken(Len(pool[s].buf), offset, Len(data))
             /\ pool'[s] = Free /\ delivered' = delivered
    <3>1. pool'[s] = Free /\ \A t \in Slots \ {s} : pool'[t] = pool[t]
      BY <2>2, <2>4 DEF Extended
    <3>2. \A t \in Slots : pool'[t] # Free => pool[t].run # run
      BY <2>1, <3>1, ReassemblyAssumption DEF OneSlotEach, InUse
    <3>3. \A t \in Slots : KeptOrFreed(t, run)
      BY <2>1, <3>1 DEF KeptOrFreed
    <3>4. Dropped(run, offset, data)
      BY <2>4, <3>2 DEF Dropped
    <3> QED BY <2>2, <2>4, <3>3, <3>4 DEF Extended
  <2>5. CASE ~ (/\ Broken(Len(pool[s].buf), offset, Len(data))
                /\ pool'[s] = Free /\ delivered' = delivered)
    <3>1. Grown(s, run, offset, data, final, pool[s].buf, pool[s].buf \o data)
      BY <2>1, <2>2, <2>5 DEF Extended, Grown, KeptOrFreed
    <3> QED BY <2>1, <2>2, <2>3, <3>1 DEF Extended
  <2> QED BY <2>4, <2>5
<1>2. Swept \in [Slots -> PartialWrites \cup {Free}]
      /\ \A t \in Slots : Swept[t] = pool[t] \/ (Swept[t] = Free /\ (InUse(t) => pool[t].stale))
  <2>1. \A t \in Slots : Swept[t] = IF InUse(t) /\ pool[t].stale THEN Free ELSE pool[t]
    BY DEF Swept
  <2>2. \A t \in Slots : (Swept[t] = pool[t] \/ Swept[t] = Free) /\ pool[t] \in PartialWrites \cup {Free}
    BY <2>1
  <2>3. Swept \in [Slots -> PartialWrites \cup {Free}]
    BY <2>2 DEF Swept
  <2>4. ASSUME NEW t \in Slots
        PROVE  Swept[t] = pool[t] \/ (Swept[t] = Free /\ (InUse(t) => pool[t].stale))
    <3>1. CASE InUse(t) /\ pool[t].stale
      BY <2>1, <3>1
    <3>2. CASE ~ (InUse(t) /\ pool[t].stale)
      BY <2>1, <3>2
    <3> QED BY <3>1, <3>2
  <2> QED BY <2>3, <2>4
<1>3. CASE FindSlot(run) = {} /\ offset # 0 /\ UNCHANGED <<pool, delivered>>
  BY <1>3 DEF Dropped, KeptOrFreed, FindSlot, InUse
<1>4. CASE FindSlot(run) = {} /\ offset = 0 /\ Claimable = {} /\ pool' = Swept /\ UNCHANGED delivered
  <2>1. \A t \in Slots : pool'[t] # Free => pool[t].run # run
    BY <1>2, <1>4 DEF FindSlot, InUse
  <2>2. \A t \in Slots : KeptOrFreed(t, run)
    BY <1>2, <1>4 DEF KeptOrFreed
  <2> QED BY <1>2, <1>4, <2>1, <2>2 DEF Dropped
<1>5. ASSUME FindSlot(run) = {}, offset = 0, NEW s \in Claimable,
             Extend([Swept EXCEPT ![s] = [run |-> run, buf |-> <<>>, stale |-> FALSE]],
                    s, offset, data, final)
      PROVE  /\ PoolType'
             /\ \/ /\ Dropped(run, offset, data) /\ delivered' = delivered
                   /\ \A t \in Slots : KeptOrFreed(t, run)
                \/ \E old \in Seq(Units), value \in Seq(Units) :
                      Grown(s, run, offset, data, final, old, value)
  <2> DEFINE new == [run |-> run, buf |-> <<>>, stale |-> FALSE]
             p == [Swept EXCEPT ![s] = new]
  <2>1. s \in Slots /\ Swept[s] = Free
    BY DEF Claimable
  <2>2. new \in PartialWrites /\ new.run = run /\ new.buf = <<>> /\ <<>> \in Seq(Units)
    BY DEF PartialWrites
  <2>3. <<>> \o data = data /\ Len(<<>>) = 0 /\ Len(data) \in Nat
    BY Concatenated
  <2>4. InUse(s) => pool[s].stale
    BY <1>2, <2>1 DEF InUse
  <2> HIDE DEF new
  <2>5. p \in [Slots -> PartialWrites \cup {Free}] /\ p[s] = new
        /\ \A t \in Slots \ {s} : p[t] = Swept[t]
    BY <1>2, <2>1, <2>2
  <2>6. Extend(p, s, offset, data, final)
    BY <1>5 DEF new
  <2> HIDE DEF p
  <2>7. Extended(p, s, run, offset, data, final)
    BY <2>1, <2>2, <2>5, <2>6, ExtendSteps
  <2>8. \A t \in Slots \ {s} : KeptOrFreed(t, run)
    BY <1>2, <2>5, <2>7 DEF Extended, KeptOrFreed
  <2>9. CASE /\ Broken(0, offset, Len(data))
             /\ pool'[s] = Free /\ delivered' = delivered
    <3>1. \A t \in Slots : pool'[t] # Free => pool[t].run # run
      BY <1>5, <2>8, <2>9 DEF KeptOrFreed, FindSlot, InUse
    <3>2. Dropped(run, offset, data)
      BY <1>5, <2>3, <2>9, <3>1, ReassemblyAssumption DEF Dropped, Broken
    <3>3. \A t \in Slots : KeptOrFreed(t, run)
      BY <2>4, <2>8, <2>9 DEF KeptOrFreed
    <3> QED BY <2>7, <2>9, <3>2, <3>3 DEF Extended
  <2>10. CASE ~ (/\ Broken(0, offset, Len(data))
                 /\ pool'[s] = Free /\ delivered' = delivered)
    <3>1. Grown(s, run, offset, data, final, <<>>, data)
      BY <1>5, <2>1, <2>2, <2>3, <2>4, <2>5, <2>7, <2>8, <2>10 DEF Extended, Grown
    <3> QED BY <2>2, <2>7, <3>1 DEF Extended
  <2> QED BY <2>9, <2>10
<1>6. \A s \in FindSlot(run) \cup Claimable : s \in Slots
  BY DEF FindSlot, Claimable
<1> QED BY <1>1, <1>3, <1>4, <1>5, <1>6 DEF OnFragment

Missed(run) ==
    missed' = missed \cup {run} /\ pool' = pool /\ delivered' = delivered /\ crowded' = crowded

Heard(run, offset) ==
    /\ missed' = missed
    /\ crowded' = (crowded \/ (FindSlot(run) = {} /\ offset = 0 /\ Claimable = {}))

Lost(run, offset, data) ==
    /\ Dropped(run, offset, data)
    /\ delivered' = delivered
    /\ \A t \in Slots : KeptOrFreed(t, run)

\* The PDU is captured and handled, or missed.
LEMMA CapturedSteps ==
    ASSUME PoolType, OneSlotEach, NEW run, run \in Runs, NEW offset, offset \in Nat,
           NEW data, data \in Seq(Units), NEW final, final \in BOOLEAN,
           Captured(run, offset, data, final)
    PROVE  /\ PoolType'
           /\ \/ Missed(run)
              \/ Heard(run, offset) /\ Lost(run, offset, data)
              \/ /\ Heard(run, offset)
                 /\ \E s \in Slots, old \in Seq(Units), value \in Seq(Units) :
                       Grown(s, run, offset, data, final, old, value)
<1>1. CASE OnFragment(run, offset, data, final) /\ Heard(run, offset)
  <2>1. /\ PoolType'
        /\ \/ Lost(run, offset, data)
           \/ \E s \in Slots, old \in Seq(Units), value \in Seq(Units) :
                 Grown(s, run, offset, data, final, old, value)
    BY <1>1, FragmentSteps DEF Lost
  <2> QED BY <1>1, <2>1
<1>2. CASE missed' = missed \cup {run} /\ UNCHANGED <<pool, delivered, crowded>>
  BY <1>2 DEF PoolType, Missed
<1> QED BY <1>1, <1>2 DEF Captured, Heard

-----------------------------------------------------------------------------
(* Types, and the link.                                                     *)

\* The writes in progress are under way, each on one run, and know their size.
LinkInv ==
    \A run \in Runs : link[run] # Free =>
        /\ link[run].write \in Writes \ done
        /\ size[link[run].write] = link[run].offset
        /\ \A other \in Runs : link[other] # Free /\ link[other].write = link[run].write
                                  => other = run

TypeInv ==
    /\ PoolType
    /\ OneSlotEach
    /\ \A s \in Slots : InUse(s) => Len(pool[s].buf) <= MaxPayload
    /\ delivered \in Seq([run: Runs, value: Seq(Units)])
    /\ link \in [Runs -> LongWrites \cup {Free}]
    /\ LinkInv
    /\ size \in Seq(0..MaxLength) /\ Len(size) <= MaxWrites
    /\ done \subseteq Writes
    /\ missed \subseteq Runs
    /\ joined \in [Connections -> Nat]
    /\ \A c \in Connections : joined[c] \in 1..Len(size) + 1
    /\ quiet \in BOOLEAN
    /\ crowded \in BOOLEAN

\* The part of write w that starts at an offset.
Part(w, offset, data) == \A n \in 1..Len(data) : data[n] = Unit(w, offset + n - 1)

\* One PDU of write w on a run, whichever of the four it is.
Pdu(run, w, offset, data, final) ==
    /\ Captured(run, offset, data, final)
    /\ Part(w, offset, data)
    /\ \/ w = Len(size) + 1 /\ offset = 0 /\ link[run] = Free /\ Len(size') = Len(size) + 1
       \/ /\ link[run] # Free /\ w = link[run].write /\ offset = link[run].offset
          /\ Len(size') = Len(size)
    /\ size' \in Seq(0..MaxLength) /\ Len(size') <= MaxWrites
    /\ size'[w] = offset + Len(data)
    /\ \A v \in Writes \ {w} : size'[v] = size[v]
    /\ link' \in [Runs -> LongWrites \cup {Free}]
    /\ \A other \in Runs \ {run} : link'[other] = link[other]
    /\ \/ final /\ link'[run] = Free /\ done' = done \cup {w}
       \/ /\ ~ final /\ link'[run] = [write |-> w, offset |-> offset + Len(data)]
          /\ link'[run] # Free /\ done' = done
    /\ UNCHANGED <<joined, quiet>>

APdu(run) ==
    \E w \in 1..MaxWrites, offset \in Nat, data \in Seq(Units), final \in BOOLEAN :
        Pdu(run, w, offset, data, final)

LEMMA UnitFields ==
    ASSUME NEW w, NEW offset
    PROVE  Unit(w, offset).write = w /\ Unit(w, offset).offset = offset
BY DEF Unit

LEMMA UnitTyped ==
    ASSUME NEW w \in 1..MaxWrites, NEW offset \in 0..MaxLength
    PROVE  /\ Unit(w, offset) \in Units
           /\ Unit(w, offset).write = w /\ Unit(w, offset).offset = offset
BY DEF Unit, Units

\* The size of a new write.
LEMMA Begun ==
    ASSUME size \in Seq(0..MaxLength), NEW length \in 0..MaxLength, size' = Append(size, length)
    PROVE  /\ size' \in Seq(0..MaxLength) /\ Len(size') = Len(size) + 1
           /\ size'[Len(size) + 1] = length
           /\ \A v \in Writes : size'[v] = size[v]
BY DEF Writes

LEMMA ShortSteps ==
    ASSUME TypeInv, NEW run \in Runs, NEW length \in 0..MaxLength, ShortWrite(run, length)
    PROVE  APdu(run)
<1> DEFINE w == Len(size) + 1
           data == [i \in 1..length |-> Unit(w, i - 1)]
<1>1. w \in 1..MaxWrites /\ Len(size) \in Nat /\ length \in Nat
  BY ReassemblyAssumption DEF TypeInv, ShortWrite
<1>2. \A i \in 1..length : Unit(w, i - 1) \in Units
  BY <1>1, UnitTyped, ReassemblyAssumption
<1> HIDE DEF w
<1>3. data \in Seq(Units) /\ Len(data) = length /\ \A n \in 1..length : data[n] = Unit(w, n - 1)
  BY <1>1, <1>2
<1>4. Captured(run, 0, data, TRUE)
  BY DEF ShortWrite, w
<1> HIDE DEF data
<1>5. Part(w, 0, data)
  BY <1>3 DEF Part
<1>6. size' \in Seq(0..MaxLength) /\ Len(size') = Len(size) + 1 /\ size'[w] = length
      /\ \A v \in Writes : size'[v] = size[v]
  BY Begun DEF TypeInv, ShortWrite, w
<1>7. link' = link /\ link[run] = Free /\ done' = done \cup {w} /\ UNCHANGED <<joined, quiet>>
  BY DEF ShortWrite, w
<1>8. Pdu(run, w, 0, data, TRUE)
  <2>1. size'[w] = 0 + Len(data) /\ Len(size') <= MaxWrites
    BY <1>1, <1>3, <1>6, ReassemblyAssumption DEF w
  <2>2. link' \in [Runs -> LongWrites \cup {Free}]
    BY <1>7 DEF TypeInv
  <2> QED BY <1>4, <1>5, <1>6, <1>7, <2>1, <2>2 DEF Pdu, w
<1> QED BY <1>1, <1>3, <1>8 DEF APdu

LEMMA BeginSteps ==
    ASSUME TypeInv, NEW run \in Runs, BeginLongWrite(run)
    PROVE  APdu(run)
<1> DEFINE w == Len(size) + 1
           data == <<Unit(w, 0)>>
<1>1. w \in 1..MaxWrites /\ Len(size) \in Nat /\ 1 \in 0..MaxLength
  BY ReassemblyAssumption DEF TypeInv, BeginLongWrite
<1>2. Unit(w, 0) \in Units
  BY <1>1, UnitTyped, ReassemblyAssumption
<1>3. Captured(run, 0, data, FALSE)
  BY DEF BeginLongWrite
<1>4. size' \in Seq(0..MaxLength) /\ Len(size') = Len(size) + 1 /\ size'[w] = 1
      /\ \A v \in Writes : size'[v] = size[v]
  BY <1>1, Begun DEF TypeInv, BeginLongWrite
<1>5. link' = [link EXCEPT ![run] = [write |-> w, offset |-> 1]]
      /\ link[run] = Free /\ UNCHANGED <<done, joined, quiet>>
  BY DEF BeginLongWrite
<1> HIDE DEF w
<1>6. data \in Seq(Units) /\ Len(data) = 1 /\ data[1] = Unit(w, 0)
  BY <1>2
<1> HIDE DEF data
<1>7. Part(w, 0, data)
  BY <1>6 DEF Part
<1>8. [write |-> w, offset |-> 1] \in LongWrites
  BY <1>1, ReassemblyAssumption DEF LongWrites
<1>9. Pdu(run, w, 0, data, FALSE)
  <2>1. 0 + Len(data) = 1 /\ Len(size') <= MaxWrites
    BY <1>1, <1>4, <1>6, ReassemblyAssumption DEF w
  <2>2. link' \in [Runs -> LongWrites \cup {Free}] /\ link'[run] = [write |-> w, offset |-> 1]
        /\ \A other \in Runs \ {run} : link'[other] = link[other]
    BY <1>5, <1>8 DEF TypeInv
  <2>3. link'[run] # Free
    BY <1>8, <2>2, ReassemblyAssumption
  <2> QED BY <1>3, <1>4, <1>5, <1>7, <2>1, <2>2, <2>3 DEF Pdu, w
<1> QED BY <1>1, <1>6, <1>9 DEF APdu

LEMMA PrepareSteps ==
    ASSUME TypeInv, NEW run \in Runs, PrepareWrite(run)
    PROVE  APdu(run)
<1> DEFINE l == link[run]
           data == <<Unit(l.write, l.offset)>>
<1>1. l # Free /\ l \in LongWrites /\ l.offset < MaxLength
  BY DEF TypeInv, PrepareWrite
<1>2. l.write \in 1..MaxWrites /\ l.offset \in 1..MaxLength /\ l.write \in Writes
      /\ size[l.write] = l.offset
  BY <1>1 DEF LongWrites, TypeInv, LinkInv
<1>3. Unit(l.write, l.offset) \in Units
  BY <1>2, UnitTyped, ReassemblyAssumption
<1>4. Captured(run, l.offset, data, FALSE)
  BY DEF PrepareWrite
<1>5. size' = [size EXCEPT ![l.write] = l.offset + 1]
  BY <1>2 DEF PrepareWrite
<1>6. link' = [link EXCEPT ![run] = [write |-> l.write, offset |-> l.offset + 1]]
  BY DEF PrepareWrite
<1>7. UNCHANGED <<done, joined, quiet>>
  BY DEF PrepareWrite
<1> HIDE DEF l
<1>8. data \in Seq(Units) /\ Len(data) = 1 /\ data[1] = Unit(l.write, l.offset)
  BY <1>3
<1> HIDE DEF data
<1>9. Part(l.write, l.offset, data)
  BY <1>2, <1>8 DEF Part
<1>10. size' \in Seq(0..MaxLength) /\ Len(size') = Len(size) /\ size'[l.write] = l.offset + 1
       /\ \A v \in Writes \ {l.write} : size'[v] = size[v]
  BY <1>1, <1>2, <1>5, ReassemblyAssumption DEF TypeInv, Writes
<1>11. [write |-> l.write, offset |-> l.offset + 1] \in LongWrites
  BY <1>1, <1>2, ReassemblyAssumption DEF LongWrites
<1>12. Pdu(run, l.write, l.offset, data, FALSE)
  <2>1. link' \in [Runs -> LongWrites \cup {Free}]
        /\ link'[run] = [write |-> l.write, offset |-> l.offset + 1]
        /\ \A other \in Runs \ {run} : link'[other] = link[other]
    BY <1>6, <1>11 DEF TypeInv
  <2>2. link'[run] # Free
    BY <1>11, <2>1, ReassemblyAssumption
  <2>3. Len(size') <= MaxWrites
    BY <1>10 DEF TypeInv
  <2> QED BY <1>1, <1>2, <1>4, <1>7, <1>8, <1>9, <1>10, <2>1, <2>2, <2>3 DEF Pdu, l
<1>13. l.offset \in Nat
  BY <1>2, ReassemblyAssumption
<1> QED BY <1>2, <1>8, <1>12, <1>13, Zenon DEF APdu

LEMMA ExecuteSteps ==
    ASSUME TypeInv, NEW run \in Runs, ExecuteWrite(run)
    PROVE  APdu(run)
<1> DEFINE l == link[run]
<1>1. l # Free /\ l \in LongWrites
  BY DEF TypeInv, ExecuteWrite
<1>2. l.write \in 1..MaxWrites /\ l.offset \in 1..MaxLength /\ l.write \in Writes
      /\ size[l.write] = l.offset
  BY <1>1 DEF LongWrites, TypeInv, LinkInv
<1>3. Captured(run, l.offset, <<>>, TRUE)
  BY DEF ExecuteWrite
<1>4. link' = [link EXCEPT ![run] = Free] /\ done' = done \cup {l.write}
      /\ UNCHANGED <<size, joined, quiet>>
  BY DEF ExecuteWrite
<1>5. <<>> \in Seq(Units) /\ Part(l.write, l.offset, <<>>)
  BY DEF Part
<1>6. l.offset + Len(<<>>) = l.offset
  BY <1>2, ReassemblyAssumption
<1>7. link' \in [Runs -> LongWrites \cup {Free}] /\ link'[run] = Free
      /\ \A other \in Runs \ {run} : link'[other] = link[other]
  BY <1>4 DEF TypeInv
<1> HIDE DEF l
<1>8. Pdu(run, l.write, l.offset, <<>>, TRUE)
  BY <1>1, <1>2, <1>3, <1>4, <1>5, <1>6, <1>7 DEF Pdu, TypeInv, l
<1>9. l.offset \in Nat
  BY <1>2, ReassemblyAssumption
<1> QED BY <1>2, <1>5, <1>8, <1>9, Zenon DEF APdu

\* What a step can be.
LEMMA StepKinds ==
    ASSUME TypeInv, [Next]_vars
    PROVE  \/ \E run \in Runs : APdu(run)
           \/ \E c \in Connections : Disconnect(c)
           \/ \E s \in Slots : FallSilent(s)
           \/ UNCHANGED vars
BY ShortSteps, BeginSteps, PrepareSteps, ExecuteSteps DEF Next

\* The slots that a PDU of another run leaves in use are as they were.
LEMMA OthersKept ==
    ASSUME OneSlotEach, NEW run, NEW s, s \in Slots, NEW offset, NEW data, NEW final, NEW old,
           NEW value, Grown(s, run, offset, data, final, old, value),
           NEW t, t \in Slots, t # s, pool'[t] # Free
    PROVE  pool'[t] = pool[t] /\ pool[t] # Free /\ pool[t].run # run
<1>1. KeptOrFreed(t, run)
  BY DEF Grown
<1>2. pool'[t] = pool[t]
  BY <1>1 DEF KeptOrFreed
<1>3. CASE s \in FindSlot(run)
  BY <1>2, <1>3 DEF OneSlotEach, InUse, FindSlot
<1>4. CASE FindSlot(run) = {}
  BY <1>2, <1>4 DEF InUse, FindSlot
<1> QED BY <1>2, <1>3, <1>4 DEF Grown

\* The pool after a PDU keeps its form.
LEMMA PoolForm ==
    ASSUME TypeInv, NEW run \in Runs, NEW w \in 1..MaxWrites, NEW offset \in Nat,
           NEW data \in Seq(Units), NEW final \in BOOLEAN, Pdu(run, w, offset, data, final)
    PROVE  /\ PoolType' /\ OneSlotEach'
           /\ (\A s \in Slots : InUse(s) => Len(pool[s].buf) <= MaxPayload)'
           /\ delivered' \in Seq([run: Runs, value: Seq(Units)])
           /\ missed' \subseteq Runs /\ crowded' \in BOOLEAN
<1>0. PoolType /\ OneSlotEach /\ (\A s \in Slots : InUse(s) => Len(pool[s].buf) <= MaxPayload)
      /\ delivered \in Seq([run: Runs, value: Seq(Units)]) /\ missed \subseteq Runs
      /\ crowded \in BOOLEAN /\ Captured(run, offset, data, final)
  BY DEF TypeInv, Pdu
<1>1. PoolType'
  BY <1>0, CapturedSteps
<1>2. CASE Missed(run)
  BY <1>0, <1>1, <1>2 DEF Missed, OneSlotEach, InUse
<1>3. ASSUME Lost(run, offset, data)
      PROVE  /\ OneSlotEach'
             /\ (\A t \in Slots : InUse(t) => Len(pool[t].buf) <= MaxPayload)'
             /\ delivered' \in Seq([run: Runs, value: Seq(Units)])
  <2>1. delivered' = delivered /\ \A t \in Slots : pool'[t] # Free => pool'[t] = pool[t]
    BY <1>3 DEF Lost, KeptOrFreed
  <2> QED BY <1>0, <2>1 DEF OneSlotEach, InUse
<1>4. ASSUME NEW s \in Slots, NEW old \in Seq(Units),
             NEW value \in Seq(Units), Grown(s, run, offset, data, final, old, value)
      PROVE  /\ OneSlotEach'
             /\ (\A t \in Slots : InUse(t) => Len(pool[t].buf) <= MaxPayload)'
             /\ delivered' \in Seq([run: Runs, value: Seq(Units)])
  <2>1. \A t \in Slots \ {s} : pool'[t] # Free =>
            pool'[t] = pool[t] /\ pool[t] # Free /\ pool[t].run # run
    BY <1>0, <1>4, OthersKept
  <2>2. pool'[s] # Free => pool'[s].run = run /\ pool'[s].buf = value /\ Len(value) <= MaxPayload
    BY <1>4 DEF Grown
  <2>3. OneSlotEach'
    <3> SUFFICES ASSUME NEW t \in Slots, NEW u \in Slots, pool'[t] # Free, pool'[u] # Free,
                        pool'[t].run = pool'[u].run
                 PROVE  t = u
      BY DEF OneSlotEach, InUse
    <3> QED BY <1>0, <2>1, <2>2 DEF OneSlotEach, InUse
  <2>4. (\A t \in Slots : InUse(t) => Len(pool[t].buf) <= MaxPayload)'
    BY <1>0, <2>1, <2>2 DEF InUse
  <2>5. delivered' \in Seq([run: Runs, value: Seq(Units)])
    <3> DEFINE Values == [run: Runs, value: Seq(Units)]
    <3>1. [run |-> run, value |-> value] \in Values
      OBVIOUS
    <3>2. delivered' = delivered \/ delivered' = Append(delivered, [run |-> run, value |-> value])
      BY <1>4 DEF Grown
    <3>3. delivered \in Seq(Values)
      BY <1>0
    <3> HIDE DEF Values
    <3>4. delivered' \in Seq(Values)
      BY <3>1, <3>2, <3>3, AppendProperties, Zenon
    <3> QED BY <3>4 DEF Values
  <2> QED BY <2>3, <2>4, <2>5
<1>5. Heard(run, offset) => missed' \subseteq Runs /\ crowded' \in BOOLEAN
  BY <1>0 DEF Heard
<1> QED BY <1>0, <1>1, <1>2, <1>3, <1>4, <1>5, CapturedSteps

LEMMA PduTyped ==
    ASSUME TypeInv, NEW run \in Runs, NEW w \in 1..MaxWrites, NEW offset \in Nat,
           NEW data \in Seq(Units), NEW final \in BOOLEAN, Pdu(run, w, offset, data, final)
    PROVE  TypeInv'
<1>1. w \in Writes' /\ Writes \subseteq Writes' /\ Len(size) \in Nat /\ Len(size') \in Nat
  BY ReassemblyAssumption DEF Pdu, TypeInv, LinkInv, Writes
<1>2. LinkInv'
  <2> SUFFICES ASSUME NEW r \in Runs, link'[r] # Free
               PROVE  /\ link'[r].write \in Writes' \ done'
                      /\ size'[link'[r].write] = link'[r].offset
                      /\ \A other \in Runs : link'[other] # Free /\ link'[other].write = link'[r].write
                                                => other = r
    BY DEF LinkInv
  <2>1. \A other \in Runs \ {run} : link'[other] # Free =>
            link'[other] = link[other] /\ link[other].write \in Writes \ done /\ link[other].write # w
            /\ size[link[other].write] = link[other].offset
    BY DEF Pdu, TypeInv, LinkInv, Writes
  <2>2. CASE r = run
    <3>1. ~ final /\ link'[run] = [write |-> w, offset |-> offset + Len(data)] /\ done' = done
      BY <2>2, ReassemblyAssumption DEF Pdu
    <3>2. w \notin done
      BY DEF Pdu, TypeInv, LinkInv, Writes
    <3> QED BY <1>1, <2>1, <2>2, <3>1, <3>2 DEF Pdu
  <2>3. CASE r # run
    <3>1. link'[r] = link[r] /\ link[r].write \in Writes \ done /\ link[r].write # w
          /\ size'[link[r].write] = link[r].offset
      BY <2>1, <2>3 DEF Pdu
    <3>2. link'[r].write \in Writes' \ done'
      BY <1>1, <3>1 DEF Pdu
    <3>3. ASSUME NEW other \in Runs, link'[other] # Free, link'[other].write = link'[r].write
          PROVE  other = r
      <4>1. CASE other = run
        BY <3>1, <3>3, <4>1 DEF Pdu
      <4>2. CASE other # run
        BY <2>1, <3>1, <3>3, <4>2 DEF TypeInv, LinkInv
      <4> QED BY <4>1, <4>2
    <3> QED BY <3>1, <3>2, <3>3
  <2> QED BY <2>2, <2>3
<1>3. done' \subseteq Writes'
  BY <1>1 DEF Pdu, TypeInv
<1>4. joined' \in [Connections -> Nat] /\ (\A c \in Connections : joined'[c] \in 1..Len(size') + 1)
      /\ quiet' \in BOOLEAN
  BY <1>1 DEF Pdu, TypeInv
<1>5. size' \in Seq(0..MaxLength) /\ Len(size') <= MaxWrites
      /\ link' \in [Runs -> LongWrites \cup {Free}]
  BY DEF Pdu
<1>6. /\ PoolType' /\ OneSlotEach'
      /\ (\A s \in Slots : InUse(s) => Len(pool[s].buf) <= MaxPayload)'
      /\ delivered' \in Seq([run: Runs, value: Seq(Units)])
      /\ missed' \subseteq Runs /\ crowded' \in BOOLEAN
  BY PoolForm
<1> QED BY <1>2, <1>3, <1>4, <1>5, <1>6 DEF TypeInv

LEMMA DisconnectTyped ==
    ASSUME TypeInv, NEW c \in Connections, Disconnect(c)
    PROVE  TypeInv'
<1>1. UNCHANGED <<delivered, size, done, missed, quiet, crowded>>
      /\ joined' = [joined EXCEPT ![c] = Len(size) + 1] /\ Writes' = Writes
  BY DEF Disconnect, Writes
<1>2. /\ pool' \in [Slots -> PartialWrites \cup {Free}]
      /\ \A s \in Slots : pool'[s] = Free \/ pool'[s] = pool[s]
  <2>1. \A s \in Slots : (IF InUse(s) /\ pool[s].run[1] = c THEN Free ELSE pool[s])
                            \in {Free, pool[s]}
    OBVIOUS
  <2>2. \A s \in Slots : pool[s] \in PartialWrites \cup {Free}
    BY DEF TypeInv, PoolType
  <2> QED BY <2>1, <2>2 DEF Disconnect
<1>3. /\ link' \in [Runs -> LongWrites \cup {Free}]
      /\ \A r \in Runs : link'[r] = Free \/ link'[r] = link[r]
  BY DEF Disconnect, TypeInv
<1>4. PoolType' /\ OneSlotEach' /\ (\A s \in Slots : InUse(s) => Len(pool[s].buf) <= MaxPayload)'
  BY <1>2 DEF TypeInv, PoolType, OneSlotEach, InUse
<1>5. LinkInv'
  BY <1>1, <1>3 DEF TypeInv, LinkInv
<1>6. joined' \in [Connections -> Nat] /\ \A d \in Connections : joined'[d] \in 1..Len(size) + 1
  BY <1>1 DEF TypeInv
<1> QED BY <1>1, <1>3, <1>4, <1>5, <1>6 DEF TypeInv

LEMMA SilentSteps ==
    ASSUME TypeInv, NEW s \in Slots, FallSilent(s)
    PROVE  /\ PoolType'
           /\ \A t \in Slots : /\ pool'[t] # Free <=> pool[t] # Free
                               /\ pool'[t].run = pool[t].run /\ pool'[t].buf = pool[t].buf
           /\ \A t \in Slots \ {s} : pool'[t] = pool[t]
           /\ quiet' = TRUE /\ UNCHANGED <<delivered, air, crowded>>
<1>1. pool[s] \in PartialWrites /\ pool' = [pool EXCEPT ![s] = [pool[s] EXCEPT !.stale = TRUE]]
  BY DEF FallSilent, InUse, TypeInv, PoolType
<1>2. [pool[s] EXCEPT !.stale = TRUE] \in PartialWrites
      /\ [pool[s] EXCEPT !.stale = TRUE].run = pool[s].run
      /\ [pool[s] EXCEPT !.stale = TRUE].buf = pool[s].buf
  BY <1>1 DEF PartialWrites
<1>3. pool'[s] \in PartialWrites /\ pool'[s].run = pool[s].run /\ pool'[s].buf = pool[s].buf
      /\ \A t \in Slots \ {s} : pool'[t] = pool[t]
  BY <1>1, <1>2 DEF TypeInv, PoolType
<1>4. pool' \in [Slots -> PartialWrites \cup {Free}]
  BY <1>1, <1>2 DEF TypeInv, PoolType
<1>5. quiet' = TRUE /\ UNCHANGED <<delivered, air, crowded>>
  BY DEF FallSilent
<1> QED BY <1>1, <1>3, <1>4, <1>5, ReassemblyAssumption DEF PoolType

LEMMA SilentTyped ==
    ASSUME TypeInv, NEW s \in Slots, FallSilent(s)
    PROVE  TypeInv'
<1>1. PoolType' /\ OneSlotEach' /\ (\A t \in Slots : InUse(t) => Len(pool[t].buf) <= MaxPayload)'
  BY SilentSteps DEF TypeInv, OneSlotEach, InUse
<1>2. quiet' \in BOOLEAN /\ UNCHANGED <<delivered, air, crowded>>
  BY SilentSteps
<1> QED BY <1>1, <1>2 DEF TypeInv, LinkInv, Writes, air

LEMMA Typed == Spec => []TypeInv
<1>1. Init => TypeInv
  <2> SUFFICES ASSUME Init PROVE TypeInv
    OBVIOUS
  <2>1. PoolType /\ OneSlotEach /\ \A s \in Slots : InUse(s) => Len(pool[s].buf) <= MaxPayload
    BY DEF Init, PoolType, OneSlotEach, InUse
  <2>2. link \in [Runs -> LongWrites \cup {Free}] /\ LinkInv
    BY DEF Init, LinkInv
  <2>3. size \in Seq(0..MaxLength) /\ Len(size) = 0
        /\ delivered \in Seq([run: Runs, value: Seq(Units)])
    BY DEF Init
  <2>4. joined \in [Connections -> Nat] /\ \A c \in Connections : joined[c] \in 1..Len(size) + 1
    <3>1. \A c \in Connections : joined[c] = 1
      BY DEF Init
    <3> QED BY <2>3, <3>1 DEF Init
  <2>5. done \subseteq Writes /\ missed \subseteq Runs /\ quiet \in BOOLEAN /\ crowded \in BOOLEAN
    BY DEF Init
  <2> QED BY <2>1, <2>2, <2>3, <2>4, <2>5, ReassemblyAssumption DEF TypeInv
<1>2. TypeInv /\ [Next]_vars => TypeInv'
  <2> SUFFICES ASSUME TypeInv, [Next]_vars PROVE TypeInv'
    OBVIOUS
  <2>1. ASSUME UNCHANGED vars PROVE TypeInv'
    BY <2>1 DEF vars, air, TypeInv, PoolType, OneSlotEach, InUse, LinkInv, Writes
  <2> QED BY <2>1, StepKinds, PduTyped, DisconnectTyped, SilentTyped DEF APdu
<1> QED BY <1>1, <1>2, PTL DEF Spec

\* Every variable keeps its type, no buffer outgrows kMaxAttPayload, and no run has
\* two slots (find_slot, claim_slot).
THEOREM TypeCorrect == Spec => []TypeOK
<1>1. TypeInv => TypeOK
  <2> SUFFICES ASSUME TypeInv PROVE TypeOK
    OBVIOUS
  <2>1. \A s \in Slots : InUse(s) =>
          /\ pool[s] \in PartialWrites
          /\ Len(pool[s].buf) <= MaxPayload
          /\ \A t \in Slots : InUse(t) /\ pool[s].run = pool[t].run => s = t
    BY DEF TypeInv, PoolType, OneSlotEach, InUse
  <2>2. \A run \in Runs : link[run] # Free => link[run] \in [write: Writes, offset: 1..MaxLength]
    BY DEF TypeInv, LinkInv, LongWrites
  <2>3. joined \in [Connections -> 1..MaxWrites + 1]
    BY ReassemblyAssumption DEF TypeInv
  <2> QED BY <2>1, <2>2, <2>3 DEF TypeInv, TypeOK
<1> QED BY <1>1, Typed, PTL

-----------------------------------------------------------------------------
(* At most one match per write.                                             *)

Mentions(value, v) == \E n \in 1..Len(value) : value[n].write = v

Buffered(s, v) == pool[s] # Free /\ Mentions(pool[s].buf, v)

Handed(i, v) == i \in 1..Len(delivered) /\ Mentions(delivered[i].value, v)

Active(run, v) == link[run] # Free /\ link[run].write = v

\* A write is in one place: in progress it may be in the slot of its run, and
\* handed over it is neither in progress nor anywhere else.
OwnInv ==
    \A v \in Nat :
        /\ \A i, j \in Nat : Handed(i, v) /\ Handed(j, v) => i = j
        /\ \A i \in Nat, s \in Slots : Handed(i, v) => ~ Buffered(s, v)
        /\ \A s, t \in Slots : Buffered(s, v) /\ Buffered(t, v) => s = t
        /\ \A i \in Nat, run \in Runs : Handed(i, v) => ~ Active(run, v)
        /\ \A s \in Slots, run \in Runs : Buffered(s, v) /\ Active(run, v) => pool[s].run = run
        /\ \A i \in Nat : Handed(i, v) => v <= Len(size)
        /\ \A s \in Slots : Buffered(s, v) => v <= Len(size)

LEMMA HandedTyped ==
    ASSUME delivered \in Seq([run: Runs, value: Seq(Units)]), NEW i \in 1..Len(delivered)
    PROVE  /\ delivered[i].run \in Runs
           /\ delivered[i].value \in Seq(Units)
<1> DEFINE Values == [run: Runs, value: Seq(Units)]
<1>1. delivered \in Seq(Values)
  OBVIOUS
<1> HIDE DEF Values
<1>2. delivered[i] \in Values
  BY <1>1
<1> QED BY <1>2 DEF Values

LEMMA Mentioned ==
    ASSUME NEW old, old \in Seq(Units), NEW data, data \in Seq(Units), NEW w, w \in 1..MaxWrites,
           NEW offset, offset \in Nat, Part(w, offset, data), NEW v, Mentions(old \o data, v)
    PROVE  Mentions(old, v) \/ v = w
<1>1. PICK n \in 1..Len(old \o data) : (old \o data)[n].write = v
  BY DEF Mentions
<1>2. n \in 1..Len(old) + Len(data) /\ Len(old) \in Nat /\ Len(data) \in Nat
      /\ (old \o data)[n] = IF n <= Len(old) THEN old[n] ELSE data[n - Len(old)]
  BY Concatenated
<1>3. CASE n <= Len(old)
  BY <1>1, <1>2, <1>3 DEF Mentions
<1>4. CASE ~ (n <= Len(old))
  <2>1. n - Len(old) \in 1..Len(data)
    BY <1>2, <1>4
  <2>2. data[n - Len(old)] = Unit(w, offset + (n - Len(old)) - 1)
    BY <2>1 DEF Part
  <2> QED BY <1>1, <1>2, <1>4, <2>2 DEF Unit
<1> QED BY <1>3, <1>4

\* Where a PDU of write w on a run can leave some write.
LEMMA PduMoves ==
    ASSUME TypeInv, NEW run \in Runs, NEW w \in 1..MaxWrites, NEW offset \in Nat,
           NEW data \in Seq(Units), NEW final \in BOOLEAN, Pdu(run, w, offset, data, final),
           NEW v \in Nat
    PROVE  \/ /\ \A t \in Slots : Buffered(t, v)' => Buffered(t, v) /\ pool'[t].run = pool[t].run
              /\ \A i \in Nat : Handed(i, v)' => Handed(i, v)
           \/ \E s \in Slots :
              /\ \A t \in Slots \ {s} : Buffered(t, v)' => /\ Buffered(t, v)
                                                           /\ pool'[t].run = pool[t].run
                                                           /\ pool[t].run # run
              /\ \/ /\ final /\ ~ Buffered(s, v)'
                    /\ \A i \in Nat : Handed(i, v)' =>
                          \/ Handed(i, v)
                          \/ /\ i = Len(delivered) + 1
                             /\ v = w \/ (Buffered(s, v) /\ pool[s].run = run)
                 \/ /\ \A i \in Nat : Handed(i, v)' => Handed(i, v)
                    /\ Buffered(s, v)' => /\ pool'[s].run = run
                                          /\ v = w \/ (Buffered(s, v) /\ pool[s].run = run)
<1>0. PoolType /\ OneSlotEach /\ delivered \in Seq([run: Runs, value: Seq(Units)])
      /\ Captured(run, offset, data, final) /\ Part(w, offset, data)
  BY DEF TypeInv, Pdu
<1>1. CASE Lost(run, offset, data)
  BY <1>1 DEF Lost, KeptOrFreed, Buffered, Handed
<1>2. CASE Missed(run)
  BY <1>2 DEF Missed, Buffered, Handed
<1>3. ASSUME NEW s \in Slots, NEW old \in Seq(Units), NEW value \in Seq(Units),
             Grown(s, run, offset, data, final, old, value)
      PROVE  /\ \A t \in Slots \ {s} : Buffered(t, v)' => /\ Buffered(t, v)
                                                          /\ pool'[t].run = pool[t].run
                                                          /\ pool[t].run # run
             /\ \/ /\ final /\ ~ Buffered(s, v)'
                   /\ \A i \in Nat : Handed(i, v)' =>
                         \/ Handed(i, v)
                         \/ /\ i = Len(delivered) + 1
                            /\ v = w \/ (Buffered(s, v) /\ pool[s].run = run)
                \/ /\ \A i \in Nat : Handed(i, v)' => Handed(i, v)
                   /\ Buffered(s, v)' => /\ pool'[s].run = run
                                         /\ v = w \/ (Buffered(s, v) /\ pool[s].run = run)
  <2>1. \A t \in Slots \ {s} : Buffered(t, v)' =>
            Buffered(t, v) /\ pool'[t].run = pool[t].run /\ pool[t].run # run
    BY <1>0, <1>3, OthersKept DEF Buffered
  <2>2. Mentions(old, v) => Buffered(s, v) /\ pool[s].run = run
    BY <1>3 DEF Grown, FindSlot, InUse, Buffered, Mentions
  <2>3. Mentions(value, v) => v = w \/ (Buffered(s, v) /\ pool[s].run = run)
    BY <1>0, <1>3, <2>2, Mentioned DEF Grown
  <2>4. CASE final /\ pool'[s] = Free /\ delivered' = delivered
    BY <2>1, <2>4 DEF Buffered, Handed
  <2>5. CASE final /\ pool'[s] = Free
             /\ delivered' = Append(delivered, [run |-> run, value |-> value])
    <3> DEFINE e == [run |-> run, value |-> value]
    <3>1. e.value = value
      OBVIOUS
    <3> HIDE DEF e
    <3>2. delivered' = Append(delivered, e)
      BY <2>5 DEF e
    <3>3. Len(delivered') = Len(delivered) + 1 /\ Len(delivered) \in Nat
          /\ delivered'[Len(delivered) + 1] = e
          /\ \A i \in 1..Len(delivered) : delivered'[i] = delivered[i]
      BY <1>0, <3>2
    <3>4. ASSUME NEW i \in Nat, Handed(i, v)'
          PROVE  Handed(i, v) \/ (i = Len(delivered) + 1 /\ Mentions(value, v))
      BY <3>1, <3>3, <3>4 DEF Handed
    <3> QED BY <2>1, <2>3, <2>5, <3>4 DEF Buffered
  <2>6. CASE ~ final /\ pool'[s] = [run |-> run, buf |-> value, stale |-> FALSE]
             /\ delivered' = delivered
    <3>1. Buffered(s, v)' => pool'[s].run = run /\ Mentions(value, v)
      BY <2>6 DEF Buffered
    <3> QED BY <2>1, <2>3, <2>6, <3>1 DEF Handed
  <2> QED BY <1>3, <2>4, <2>5, <2>6 DEF Grown
<1>4. ASSUME \E s \in Slots, old \in Seq(Units), value \in Seq(Units) :
                Grown(s, run, offset, data, final, old, value)
      PROVE  \E s \in Slots :
             /\ \A t \in Slots \ {s} : Buffered(t, v)' => /\ Buffered(t, v)
                                                          /\ pool'[t].run = pool[t].run
                                                          /\ pool[t].run # run
             /\ \/ /\ final /\ ~ Buffered(s, v)'
                   /\ \A i \in Nat : Handed(i, v)' =>
                         \/ Handed(i, v)
                         \/ /\ i = Len(delivered) + 1
                            /\ v = w \/ (Buffered(s, v) /\ pool[s].run = run)
                \/ /\ \A i \in Nat : Handed(i, v)' => Handed(i, v)
                   /\ Buffered(s, v)' => /\ pool'[s].run = run
                                         /\ v = w \/ (Buffered(s, v) /\ pool[s].run = run)
  BY <1>3, <1>4
<1> QED BY <1>0, <1>1, <1>2, <1>4, CapturedSteps

LEMMA PduOwns ==
    ASSUME TypeInv, OwnInv, NEW run \in Runs, NEW w \in 1..MaxWrites, NEW offset \in Nat,
           NEW data \in Seq(Units), NEW final \in BOOLEAN, Pdu(run, w, offset, data, final)
    PROVE  OwnInv'
<1> SUFFICES ASSUME NEW v \in Nat
             PROVE  /\ \A i, j \in Nat : Handed(i, v)' /\ Handed(j, v)' => i = j
                    /\ \A i \in Nat, s \in Slots : Handed(i, v)' => ~ Buffered(s, v)'
                    /\ \A s, t \in Slots : Buffered(s, v)' /\ Buffered(t, v)' => s = t
                    /\ \A i \in Nat, r \in Runs : Handed(i, v)' => ~ Active(r, v)'
                    /\ \A s \in Slots, r \in Runs : Buffered(s, v)' /\ Active(r, v)' => pool'[s].run = r
                    /\ \A i \in Nat : Handed(i, v)' => v <= Len(size')
                    /\ \A s \in Slots : Buffered(s, v)' => v <= Len(size')
  BY DEF OwnInv
<1>1. /\ \A i, j \in Nat : Handed(i, v) /\ Handed(j, v) => i = j
      /\ \A i \in Nat, s \in Slots : Handed(i, v) => ~ Buffered(s, v)
      /\ \A s, t \in Slots : Buffered(s, v) /\ Buffered(t, v) => s = t
      /\ \A i \in Nat, r \in Runs : Handed(i, v) => ~ Active(r, v)
      /\ \A s \in Slots, r \in Runs : Buffered(s, v) /\ Active(r, v) => pool[s].run = r
      /\ \A i \in Nat : Handed(i, v) => v <= Len(size)
      /\ \A s \in Slots : Buffered(s, v) => v <= Len(size)
  BY DEF OwnInv
<1>2. Len(size) \in Nat /\ Len(size') \in Nat /\ Len(size) <= Len(size') /\ w <= Len(size')
  BY DEF Pdu, TypeInv, LinkInv, Writes
\* Before the PDU, write w is nowhere but in the slot of its run.
<1>3. v = w => /\ \A i \in Nat : ~ Handed(i, v)
               /\ \A s \in Slots : Buffered(s, v) => pool[s].run = run
  BY <1>1, <1>2 DEF Pdu, Active
<1>4. \A r \in Runs : Active(r, v)' => IF v = w THEN r = run ELSE Active(r, v)
  <2>1. \A r \in Runs \ {run} : Active(r, v)' => Active(r, v) /\ v # w
    BY <1>2 DEF Pdu, Active, TypeInv, LinkInv, Writes
  <2>2. Active(run, v)' => v = w
    BY DEF Pdu, Active
  <2> QED BY <2>1, <2>2
<1>5. CASE /\ \A t \in Slots : Buffered(t, v)' => Buffered(t, v) /\ pool'[t].run = pool[t].run
           /\ \A i \in Nat : Handed(i, v)' => Handed(i, v)
  BY <1>1, <1>2, <1>3, <1>4, <1>5
<1>6. ASSUME NEW s \in Slots,
             \A t \in Slots \ {s} : Buffered(t, v)' => /\ Buffered(t, v)
                                                       /\ pool'[t].run = pool[t].run
                                                       /\ pool[t].run # run,
             final, ~ Buffered(s, v)',
             \A i \in Nat : Handed(i, v)' =>
                 \/ Handed(i, v)
                 \/ /\ i = Len(delivered) + 1
                    /\ v = w \/ (Buffered(s, v) /\ pool[s].run = run)
      PROVE  /\ \A i, j \in Nat : Handed(i, v)' /\ Handed(j, v)' => i = j
             /\ \A i \in Nat, t \in Slots : Handed(i, v)' => ~ Buffered(t, v)'
             /\ \A t, u \in Slots : Buffered(t, v)' /\ Buffered(u, v)' => t = u
             /\ \A i \in Nat, r \in Runs : Handed(i, v)' => ~ Active(r, v)'
             /\ \A t \in Slots, r \in Runs : Buffered(t, v)' /\ Active(r, v)' => pool'[t].run = r
             /\ \A i \in Nat : Handed(i, v)' => v <= Len(size')
             /\ \A t \in Slots : Buffered(t, v)' => v <= Len(size')
  <2>1. \A r \in Runs : Active(r, v)' => v # w /\ Active(r, v) /\ r # run
    BY <1>4, <1>6 DEF Pdu, Active
  <2>2. \A t \in Slots : Buffered(t, v)' => /\ Buffered(t, v) /\ t # s /\ v # w
                                            /\ pool'[t].run = pool[t].run
    BY <1>3, <1>6
  <2>3. \A i \in Nat : Handed(i, v)' => \/ Handed(i, v)
                                        \/ i = Len(delivered) + 1 /\ v = w
                                        \/ i = Len(delivered) + 1 /\ Buffered(s, v) /\ pool[s].run = run
    BY <1>6
  <2>4. \A i, j \in Nat : Handed(i, v)' /\ Handed(j, v)' => i = j
    BY <1>1, <1>3, <2>3
  <2>5. \A i \in Nat, t \in Slots : Handed(i, v)' => ~ Buffered(t, v)'
    BY <1>1, <2>2, <2>3
  <2>6. \A i \in Nat, r \in Runs : Handed(i, v)' => ~ Active(r, v)'
    BY <1>1, <2>1, <2>3
  <2>7. \A i \in Nat : Handed(i, v)' => v <= Len(size')
    BY <1>1, <1>2, <2>3
  <2> QED BY <1>1, <1>2, <2>1, <2>2, <2>4, <2>5, <2>6, <2>7
<1>7. ASSUME NEW s \in Slots,
             \A t \in Slots \ {s} : Buffered(t, v)' => /\ Buffered(t, v)
                                                       /\ pool'[t].run = pool[t].run
                                                       /\ pool[t].run # run,
             \A i \in Nat : Handed(i, v)' => Handed(i, v),
             Buffered(s, v)' => /\ pool'[s].run = run
                                /\ v = w \/ (Buffered(s, v) /\ pool[s].run = run)
      PROVE  /\ \A i, j \in Nat : Handed(i, v)' /\ Handed(j, v)' => i = j
             /\ \A i \in Nat, t \in Slots : Handed(i, v)' => ~ Buffered(t, v)'
             /\ \A t, u \in Slots : Buffered(t, v)' /\ Buffered(u, v)' => t = u
             /\ \A i \in Nat, r \in Runs : Handed(i, v)' => ~ Active(r, v)'
             /\ \A t \in Slots, r \in Runs : Buffered(t, v)' /\ Active(r, v)' => pool'[t].run = r
             /\ \A i \in Nat : Handed(i, v)' => v <= Len(size')
             /\ \A t \in Slots : Buffered(t, v)' => v <= Len(size')
  <2>1. \A t \in Slots : Buffered(t, v)' =>
            \/ v = w /\ t = s /\ pool'[s].run = run
            \/ v # w /\ Buffered(t, v) /\ pool'[t].run = pool[t].run
    BY <1>3, <1>7
  <2>2. \A t \in Slots, r \in Runs : Buffered(t, v)' /\ Active(r, v)' => pool'[t].run = r
    BY <1>1, <1>4, <2>1
  <2>3. \A t, u \in Slots : Buffered(t, v)' /\ Buffered(u, v)' => t = u
    BY <1>1, <2>1
  <2>4. \A i \in Nat, t \in Slots : Handed(i, v)' => ~ Buffered(t, v)'
    BY <1>1, <1>3, <1>7, <2>1
  <2>5. \A i \in Nat, r \in Runs : Handed(i, v)' => ~ Active(r, v)'
    BY <1>1, <1>3, <1>4, <1>7
  <2>6. (\A i \in Nat : Handed(i, v)' => v <= Len(size'))
        /\ \A t \in Slots : Buffered(t, v)' => v <= Len(size')
    BY <1>1, <1>2, <1>7, <2>1
  <2> QED BY <1>1, <1>7, <2>2, <2>3, <2>4, <2>5, <2>6
<1> QED BY <1>5, <1>6, <1>7, PduMoves

LEMMA Owned == Spec => []OwnInv
<1>1. Init => OwnInv
  BY DEF Init, OwnInv, Handed, Buffered
<1>2. TypeInv /\ OwnInv /\ [Next]_vars => OwnInv'
  <2> SUFFICES ASSUME TypeInv, OwnInv, [Next]_vars PROVE OwnInv'
    OBVIOUS
  \* Nothing else adds to a slot, to what was handed over or to what is in progress.
  <2>1. ASSUME delivered' = delivered, size' = size,
               \A r \in Runs : link'[r] = Free \/ link'[r] = link[r],
               \A t \in Slots : pool'[t] # Free => /\ pool[t] # Free
                                                   /\ pool'[t].run = pool[t].run
                                                   /\ pool'[t].buf = pool[t].buf
        PROVE  OwnInv'
    <3>1. \A v \in Nat, i \in Nat : Handed(i, v)' => Handed(i, v)
      BY <2>1 DEF Handed
    <3>2. \A v \in Nat, t \in Slots : Buffered(t, v)' => Buffered(t, v) /\ pool'[t].run = pool[t].run
      BY <2>1 DEF Buffered, Mentions
    <3>3. \A v \in Nat, r \in Runs : Active(r, v)' => Active(r, v)
      BY <2>1 DEF Active
    <3> QED BY <2>1, <3>1, <3>2, <3>3 DEF OwnInv
  <2>2. ASSUME NEW c \in Connections, Disconnect(c) PROVE OwnInv'
    <3>1. \A t \in Slots : pool'[t] # Free => pool'[t] = pool[t]
      BY <2>2 DEF Disconnect
    <3>2. delivered' = delivered /\ size' = size
          /\ \A r \in Runs : link'[r] = Free \/ link'[r] = link[r]
      BY <2>2 DEF Disconnect
    <3> QED BY <2>1, <3>1, <3>2
  <2>3. ASSUME NEW s \in Slots, FallSilent(s) PROVE OwnInv'
    BY <2>1, <2>3, SilentSteps DEF air
  <2>4. ASSUME UNCHANGED vars PROVE OwnInv'
    BY <2>1, <2>4 DEF vars, air
  <2> QED BY <2>2, <2>3, <2>4, StepKinds, PduOwns DEF APdu
<1> QED BY <1>1, <1>2, Typed, PTL DEF Spec

\* "One reassembled value in, at most one match out" (ble_observer.cpp).
THEOREM OneMatchPerWrite == Spec => []AtMostOneMatchPerWrite
<1>1. TypeInv /\ OwnInv => AtMostOneMatchPerWrite
  <2> SUFFICES ASSUME TypeInv, OwnInv, NEW i \in DOMAIN delivered, NEW j \in DOMAIN delivered,
                      NEW m \in DOMAIN delivered[i].value, NEW n \in DOMAIN delivered[j].value,
                      delivered[i].value[m].write = delivered[j].value[n].write
               PROVE  i = j
    BY DEF AtMostOneMatchPerWrite
  <2>0. i \in 1..Len(delivered) /\ j \in 1..Len(delivered) /\ i \in Nat /\ j \in Nat
    BY DEF TypeInv
  <2>1. delivered[i].value \in Seq(Units) /\ delivered[j].value \in Seq(Units)
    BY <2>0, HandedTyped DEF TypeInv
  <2>2. m \in 1..Len(delivered[i].value) /\ n \in 1..Len(delivered[j].value)
        /\ delivered[i].value[m] \in Units
    BY <2>1
  <2>3. delivered[i].value[m].write \in Nat
    BY <2>2 DEF Units
  <2>4. Handed(i, delivered[i].value[m].write) /\ Handed(j, delivered[i].value[m].write)
    BY <2>0, <2>2 DEF Handed, Mentions
  <2> QED BY <2>0, <2>3, <2>4 DEF OwnInv
<1> QED BY <1>1, Typed, Owned, PTL

-----------------------------------------------------------------------------
(* Values without holes, and whole where nothing was missed.                *)

\* What a slot holds is in place, and on a run of which nothing was missed all of
\* it belongs to the write in progress there.
SlotSound(s) ==
    /\ \A n \in 1..Len(pool[s].buf) : pool[s].buf[n].offset = n - 1
    /\ pool[s].run \notin missed =>
          /\ link[pool[s].run] # Free
          /\ \A n \in 1..Len(pool[s].buf) : pool[s].buf[n].write = link[pool[s].run].write

ValueSound(i) ==
    /\ Len(delivered[i].value) \in 1..MaxPayload
    /\ \A n \in 1..Len(delivered[i].value) : delivered[i].value[n].offset = n - 1
    /\ delivered[i].run \in missed \/ Whole(delivered[i].value)

SoundInv ==
    /\ \A s \in Slots : pool[s] # Free => SlotSound(s)
    /\ \A i \in 1..Len(delivered) : ValueSound(i)

\* A value once whole stays it: a write that is handed over is not in progress.
LEMMA StaysWhole ==
    ASSUME TypeInv, OwnInv, NEW run \in Runs, NEW w \in 1..MaxWrites, NEW offset \in Nat,
           NEW data \in Seq(Units), NEW final \in BOOLEAN, Pdu(run, w, offset, data, final),
           NEW i \in 1..Len(delivered), Len(delivered[i].value) >= 1, Whole(delivered[i].value)
    PROVE  Whole(delivered[i].value)'  \/ delivered'[i] # delivered[i]
<1> DEFINE value == delivered[i].value
<1>1. PICK v \in Writes : value = [n \in 1..size[v] |-> Unit(v, n - 1)]
  BY DEF Whole
<1>2. i \in Nat /\ value \in Seq(Units) /\ Len(value) \in Nat
  BY HandedTyped DEF TypeInv
<1>3. v \in Nat /\ size[v] \in 0..MaxLength
  <2>1. size \in Seq(0..MaxLength) /\ v \in 1..Len(size)
    BY DEF TypeInv, Writes
  <2>2. v \in Nat
    BY <2>1
  <2>3. size[v] \in 0..MaxLength
    BY <2>1, ElementOfSeq, Zenon
  <2> QED BY <2>2, <2>3
<1>4. Len(value) = size[v] /\ value[1].write = v
  BY <1>1, <1>2, <1>3, ReassemblyAssumption DEF Unit
<1>5. Handed(i, v)
  BY <1>2, <1>4 DEF Handed, Mentions
<1>6. v # w
  <2>1. \A r \in Runs : ~ Active(r, v)
    BY <1>2, <1>3, <1>5 DEF OwnInv
  <2> QED BY <1>3, <2>1 DEF Pdu, Active, Writes, TypeInv
<1>7. v \in Writes' /\ size'[v] = size[v]
  BY <1>6 DEF Pdu, Writes, TypeInv
<1>8. delivered'[i] = delivered[i] => Whole(value)'
  BY <1>1, <1>7 DEF Whole
<1> QED BY <1>8

LEMMA GrownValue ==
    ASSUME NEW old, old \in Seq(Units), NEW data, data \in Seq(Units), NEW w, w \in 1..MaxWrites,
           NEW offset, offset = Len(old), Part(w, offset, data),
           \A n \in 1..Len(old) : old[n].offset = n - 1
    PROVE  /\ \A n \in 1..Len(old \o data) : (old \o data)[n].offset = n - 1
           /\ (\A n \in 1..Len(old) : old[n].write = w) =>
                  \A n \in 1..Len(old \o data) : (old \o data)[n].write = w
<1>1. Len(old) \in Nat /\ Len(data) \in Nat /\ Len(old \o data) = Len(old) + Len(data)
      /\ \A n \in 1..Len(old) + Len(data) :
            (old \o data)[n] = IF n <= Len(old) THEN old[n] ELSE data[n - Len(old)]
  BY Concatenated
<1>2. ASSUME NEW n \in 1..Len(old) + Len(data), ~ (n <= Len(old))
      PROVE  (old \o data)[n] = Unit(w, n - 1)
  <2>1. n - Len(old) \in 1..Len(data) /\ offset + (n - Len(old)) - 1 = n - 1
    BY <1>1, <1>2
  <2>2. data[n - Len(old)] = Unit(w, offset + (n - Len(old)) - 1)
    BY <2>1 DEF Part
  <2> QED BY <1>1, <1>2, <2>1, <2>2
<1>3. \A n \in 1..Len(old) + Len(data) : ~ (n <= Len(old)) =>
          (old \o data)[n].offset = n - 1 /\ (old \o data)[n].write = w
  BY <1>2, UnitFields
<1> QED BY <1>1, <1>3

LEMMA WholeValue ==
    ASSUME NEW value, value \in Seq(Units), NEW w, w \in 1..MaxWrites,
           \A n \in 1..Len(value) : value[n].offset = n - 1 /\ value[n].write = w
    PROVE  value = [n \in 1..Len(value) |-> Unit(w, n - 1)]
<1>1. ASSUME NEW n \in 1..Len(value)
      PROVE  value[n] = Unit(w, n - 1)
  <2>1. value[n] \in Units
    OBVIOUS
  <2> QED BY <2>1 DEF Units, Unit
<1>2. value = [n \in 1..Len(value) |-> value[n]]
  OBVIOUS
<1> QED BY <1>1, <1>2

\* A value is in place, and of write w alone if nothing was missed.
InPlace(value, run, w) ==
    /\ \A n \in 1..Len(value) : value[n].offset = n - 1
    /\ run \notin missed => \A n \in 1..Len(value) : value[n].write = w

LEMMA GrownSound ==
    ASSUME TypeInv, SoundInv, NEW run, run \in Runs, NEW w, w \in 1..MaxWrites,
           NEW offset, offset \in Nat, NEW data, data \in Seq(Units),
           NEW final, final \in BOOLEAN, Pdu(run, w, offset, data, final),
           NEW s, s \in Slots, NEW old, old \in Seq(Units), NEW value, value \in Seq(Units),
           Grown(s, run, offset, data, final, old, value)
    PROVE  InPlace(value, run, w)
<1>1. offset = Len(old) /\ value = old \o data /\ Part(w, offset, data)
  BY DEF Grown, Pdu
\* What the slot had.
<1>2. /\ \A n \in 1..Len(old) : old[n].offset = n - 1
      /\ run \notin missed => \A n \in 1..Len(old) : old[n].write = w
  <2>1. CASE s \in FindSlot(run) /\ old = pool[s].buf
    <3>1. SlotSound(s) /\ pool[s].run = run
      BY <2>1 DEF FindSlot, InUse, SoundInv
    <3> QED BY <2>1, <3>1 DEF SlotSound, Pdu
  <2>2. CASE old = <<>>
    BY <2>2
  <2> QED BY <2>1, <2>2 DEF Grown
<1> QED BY <1>1, <1>2, GrownValue DEF InPlace

LEMMA PduSound ==
    ASSUME TypeInv, OwnInv, SoundInv, NEW run \in Runs, NEW w \in 1..MaxWrites, NEW offset \in Nat,
           NEW data \in Seq(Units), NEW final \in BOOLEAN, Pdu(run, w, offset, data, final)
    PROVE  SoundInv'
<1>0. PoolType /\ OneSlotEach /\ delivered \in Seq([run: Runs, value: Seq(Units)])
      /\ Captured(run, offset, data, final) /\ Part(w, offset, data)
  BY DEF TypeInv, Pdu
<1>1. missed' = missed \/ Missed(run)
  BY <1>0, CapturedSteps DEF Heard
\* A run without a slot, or with another write, is one that missed something.
<1>2. ASSUME NEW t \in Slots, pool[t] # Free, pool'[t] = pool[t],
             pool[t].run # run \/ pool[t].run \in missed'
      PROVE  SlotSound(t)'
  <2>1. SlotSound(t) /\ pool[t].run \in Runs /\ missed \subseteq missed'
    BY <1>0, <1>1, <1>2, ReassemblyAssumption DEF SoundInv, PoolType, PartialWrites, Missed
  <2>2. pool[t].run \notin missed' => link'[pool[t].run] = link[pool[t].run]
    BY <1>2, <2>1 DEF Pdu
  <2> QED BY <1>2, <2>1, <2>2 DEF SlotSound
<1>3. ASSUME NEW i \in 1..Len(delivered), delivered'[i] = delivered[i]
      PROVE  ValueSound(i)'
  <2>1. ValueSound(i) /\ missed \subseteq missed'
    BY <1>1 DEF SoundInv, Missed
  <2>2. CASE delivered[i].run \in missed
    BY <1>3, <2>1, <2>2 DEF ValueSound
  <2>3. CASE Whole(delivered[i].value)
    <3>1. Len(delivered[i].value) >= 1
      BY <2>1, ReassemblyAssumption DEF ValueSound
    <3>2. Whole(delivered[i].value)'
      BY <1>3, <2>3, <3>1, StaysWhole
    <3> QED BY <1>3, <2>1, <3>2 DEF ValueSound
  <2> QED BY <2>1, <2>2, <2>3 DEF ValueSound
<1>4. CASE Missed(run)
  <2>1. ASSUME NEW t \in Slots, pool[t] # Free PROVE SlotSound(t)'
    BY <1>2, <1>4, <2>1 DEF Missed
  <2>2. ASSUME NEW i \in 1..Len(delivered) PROVE ValueSound(i)'
    BY <1>3, <1>4, <2>2 DEF Missed
  <2> QED BY <1>4, <2>1, <2>2 DEF Missed, SoundInv
\* From here on the PDU is captured.
<1>5. ASSUME NEW s \in Slots, NEW old \in Seq(Units), NEW value \in Seq(Units),
             Grown(s, run, offset, data, final, old, value), missed' = missed
      PROVE  SoundInv'
  <2>1. \A t \in Slots \ {s} : pool'[t] # Free => pool'[t] = pool[t] /\ pool[t] # Free /\ pool[t].run # run
    BY <1>0, <1>5, OthersKept
  <2>2. offset = Len(old) /\ value = old \o data /\ Len(value) <= MaxPayload
    BY <1>5 DEF Grown
  <2>4. /\ \A n \in 1..Len(value) : value[n].offset = n - 1
        /\ run \notin missed => \A n \in 1..Len(value) : value[n].write = w
    <3>1. InPlace(value, run, w)
      BY <1>5, GrownSound
    <3> QED BY <3>1 DEF InPlace
  <2>5. CASE ~ final
    <3>1. pool'[s] = [run |-> run, buf |-> value, stale |-> FALSE] /\ delivered' = delivered
          /\ link'[run] = [write |-> w, offset |-> offset + Len(data)]
      BY <1>5, <2>5 DEF Grown, Pdu
    <3>2. link'[run] # Free /\ link'[run].write = w
      BY <2>5 DEF Pdu
    <3>3. SlotSound(s)'
      BY <1>5, <2>4, <3>1, <3>2 DEF SlotSound
    <3> QED BY <1>2, <1>3, <2>1, <3>1, <3>3 DEF SoundInv
  <2>6. CASE final
    <3>1. pool'[s] = Free
      BY <1>5, <2>6 DEF Grown
    <3>2. \A t \in Slots : pool'[t] # Free => SlotSound(t)'
      BY <1>2, <2>1, <3>1
    <3>3. CASE delivered' = delivered
      BY <1>3, <3>2, <3>3 DEF SoundInv
    <3>4. CASE value # <<>> /\ delivered' = Append(delivered, [run |-> run, value |-> value])
      <4> DEFINE e == [run |-> run, value |-> value]
      <4>1. e.value = value /\ e.run = run
        OBVIOUS
      <4> HIDE DEF e
      <4>2. delivered' = Append(delivered, e)
        BY <3>4 DEF e
      <4>3. Len(delivered') = Len(delivered) + 1 /\ Len(delivered) \in Nat
            /\ delivered'[Len(delivered) + 1] = e
            /\ \A i \in 1..Len(delivered) : delivered'[i] = delivered[i]
        BY <1>0, <4>2
      <4>4. Len(value) \in 1..MaxPayload
        BY <2>2, <3>4, ReassemblyAssumption
      <4>5. run \in missed \/ Whole(value)'
        <5>1. CASE run \notin missed
          <6>1. value = [n \in 1..Len(value) |-> Unit(w, n - 1)]
            BY <2>4, <5>1, WholeValue
          <6>2. size'[w] = Len(value) /\ w \in Writes'
            BY <2>2, Concatenated DEF Pdu, TypeInv, LinkInv, Writes
          <6> QED BY <6>1, <6>2 DEF Whole
        <5> QED BY <5>1
      <4>6. ASSUME NEW i, i = Len(delivered) + 1 PROVE ValueSound(i)'
        BY <4>6, <1>5, <2>4, <4>1, <4>3, <4>4, <4>5 DEF ValueSound
      <4>7. \A i \in 1..Len(delivered') : ValueSound(i)'
        BY <1>3, <4>3, <4>6
      <4> QED BY <3>2, <4>7 DEF SoundInv
    <3> QED BY <1>5, <2>6, <3>3, <3>4 DEF Grown
  <2> QED BY <2>5, <2>6
<1>6. CASE Lost(run, offset, data)
  <2>1. ASSUME NEW t \in Slots, pool'[t] # Free PROVE SlotSound(t)'
    <3>1. pool'[t] = pool[t] /\ pool[t].run # run
      BY <1>6, <2>1 DEF Lost, Dropped, KeptOrFreed
    <3> QED BY <1>2, <2>1, <3>1
  <2>2. delivered' = delivered
    BY <1>6 DEF Lost
  <2> QED BY <1>3, <2>1, <2>2 DEF SoundInv
<1> QED BY <1>0, <1>4, <1>5, <1>6, CapturedSteps DEF Heard

LEMMA Sound == Spec => []SoundInv
<1>1. Init => SoundInv
  BY DEF Init, SoundInv
<1>2. TypeInv /\ OwnInv /\ SoundInv /\ [Next]_vars => SoundInv'
  <2> SUFFICES ASSUME TypeInv, OwnInv, SoundInv, [Next]_vars PROVE SoundInv'
    OBVIOUS
  \* Nothing else adds to a slot or to what was handed over.
  <2>1. ASSUME UNCHANGED <<delivered, size, missed>>,
               \A t \in Slots : pool'[t] # Free =>
                   /\ pool[t] # Free /\ pool'[t].run = pool[t].run /\ pool'[t].buf = pool[t].buf
                   /\ link'[pool[t].run] = link[pool[t].run]
        PROVE  SoundInv'
    <3>1. \A t \in Slots : pool'[t] # Free => SlotSound(t)'
      BY <2>1 DEF SoundInv, SlotSound
    <3>2. \A i \in 1..Len(delivered) : ValueSound(i)'
      BY <2>1 DEF SoundInv, ValueSound, Whole, Writes
    <3> QED BY <2>1, <3>1, <3>2 DEF SoundInv
  <2>2. ASSUME NEW c \in Connections, Disconnect(c) PROVE SoundInv'
    <3>1. ASSUME NEW t \in Slots, pool'[t] # Free
          PROVE  /\ pool[t] # Free /\ pool'[t] = pool[t]
                 /\ link'[pool[t].run] = link[pool[t].run]
      <4>1. pool[t] # Free /\ pool'[t] = pool[t] /\ pool[t].run[1] # c
        BY <2>2, <3>1 DEF Disconnect, InUse
      <4>2. pool[t].run \in Runs
        BY <4>1 DEF TypeInv, PoolType, PartialWrites
      <4> QED BY <2>2, <4>1, <4>2 DEF Disconnect
    <3>2. UNCHANGED <<delivered, size, missed>>
      BY <2>2 DEF Disconnect
    <3> QED BY <2>1, <3>1, <3>2
  <2>3. ASSUME NEW s \in Slots, FallSilent(s) PROVE SoundInv'
    BY <2>1, <2>3, SilentSteps DEF air
  <2>4. ASSUME UNCHANGED vars PROVE SoundInv'
    BY <2>1, <2>4 DEF vars, air
  <2> QED BY <2>2, <2>3, <2>4, StepKinds, PduSound DEF APdu
<1> QED BY <1>1, <1>2, Typed, Owned, PTL DEF Spec

\* A value handed over has no hole, is not shifted and fits kMaxAttPayload, and is
\* one whole write if no PDU of its run was missed.
THEOREM SoundValues == Spec => []ValuesAreSound
<1>1. TypeInv /\ SoundInv => ValuesAreSound
  <2> SUFFICES ASSUME TypeInv, SoundInv, NEW i \in DOMAIN delivered
               PROVE  LET value == delivered[i].value IN
                         /\ Len(value) <= MaxPayload
                         /\ \A n \in DOMAIN value : value[n].offset = n - 1
                         /\ delivered[i].run \in missed \/ Whole(value)
    BY DEF ValuesAreSound
  <2>1. i \in 1..Len(delivered)
    BY DEF TypeInv
  <2>2. ValueSound(i) /\ delivered[i].value \in Seq(Units)
    BY <2>1, HandedTyped DEF SoundInv, TypeInv
  <2>3. DOMAIN delivered[i].value = 1..Len(delivered[i].value)
    BY <2>2
  <2> QED BY <2>2, <2>3, ReassemblyAssumption DEF ValueSound
<1> QED BY <1>1, Typed, Sound, PTL

-----------------------------------------------------------------------------
(* Sessions.                                                                *)

\* What is buffered or in progress on a connection began in its session.
SessionInv ==
    \A v \in Nat :
        /\ \A s \in Slots : Buffered(s, v) => joined[pool[s].run[1]] <= v
        /\ \A r \in Runs : Active(r, v) => joined[r[1]] <= v

LEMMA PduInSession ==
    ASSUME TypeInv, SessionInv, NEW run \in Runs, NEW w \in 1..MaxWrites, NEW offset \in Nat,
           NEW data \in Seq(Units), NEW final \in BOOLEAN, Pdu(run, w, offset, data, final)
    PROVE  SessionInv'
<1> SUFFICES ASSUME NEW v \in Nat
             PROVE  /\ \A s \in Slots : Buffered(s, v)' => joined'[pool'[s].run[1]] <= v
                    /\ \A r \in Runs : Active(r, v)' => joined'[r[1]] <= v
  BY DEF SessionInv
<1>1. joined' = joined /\ run[1] \in Connections /\ w \in Nat
  BY ReassemblyAssumption DEF Pdu, Runs
<1>2. joined[run[1]] <= w
  <2>1. CASE w = Len(size) + 1
    BY <1>1, <2>1 DEF TypeInv
  <2>2. CASE link[run] # Free /\ w = link[run].write
    BY <1>1, <2>2 DEF SessionInv, Active
  <2> QED BY <2>1, <2>2 DEF Pdu
<1>3. ASSUME NEW t \in Slots, Buffered(t, v)'
      PROVE  \/ Buffered(t, v) /\ pool'[t].run = pool[t].run
             \/ pool'[t].run = run /\ (v = w \/ (Buffered(t, v) /\ pool[t].run = run))
  <2>1. CASE \A u \in Slots : Buffered(u, v)' => Buffered(u, v) /\ pool'[u].run = pool[u].run
    BY <1>3, <2>1
  <2>2. ASSUME NEW s \in Slots,
               \A u \in Slots \ {s} : Buffered(u, v)' => Buffered(u, v) /\ pool'[u].run = pool[u].run,
               \/ ~ Buffered(s, v)'
               \/ Buffered(s, v)' => /\ pool'[s].run = run
                                     /\ v = w \/ (Buffered(s, v) /\ pool[s].run = run)
        PROVE  \/ Buffered(t, v) /\ pool'[t].run = pool[t].run
               \/ pool'[t].run = run /\ (v = w \/ (Buffered(t, v) /\ pool[t].run = run))
    BY <1>3, <2>2
  <2> QED BY <2>1, <2>2, PduMoves
<1>4. \A r \in Runs : Active(r, v)' => Active(r, v) \/ (r = run /\ v = w)
  BY DEF Pdu, Active
<1> QED BY <1>1, <1>2, <1>3, <1>4 DEF SessionInv

LEMMA InSession == Spec => []SessionInv
<1>1. Init => SessionInv
  BY DEF Init, SessionInv, Buffered, Active
<1>2. TypeInv /\ SessionInv /\ [Next]_vars => SessionInv'
  <2> SUFFICES ASSUME TypeInv, SessionInv, [Next]_vars PROVE SessionInv'
    OBVIOUS
  <2>1. ASSUME NEW c \in Connections, Disconnect(c) PROVE SessionInv'
    <3> SUFFICES ASSUME NEW v \in Nat
                 PROVE  /\ \A s \in Slots : Buffered(s, v)' => joined'[pool'[s].run[1]] <= v
                        /\ \A r \in Runs : Active(r, v)' => joined'[r[1]] <= v
      BY DEF SessionInv
    <3>1. joined \in [Connections -> Nat] /\ joined' = [joined EXCEPT ![c] = Len(size) + 1]
      BY <2>1 DEF Disconnect, TypeInv
    <3>2. \A t \in Slots : pool'[t] # Free => /\ pool[t] # Free /\ pool'[t] = pool[t]
                                              /\ pool[t].run \in Runs /\ pool[t].run[1] # c
      BY <2>1 DEF Disconnect, InUse, TypeInv, PoolType, PartialWrites
    <3>3. \A r \in Runs : link'[r] # Free => link'[r] = link[r] /\ r[1] # c
      BY <2>1 DEF Disconnect
    <3>4. \A r \in Runs : r[1] # c => joined'[r[1]] = joined[r[1]]
      BY <3>1 DEF Runs
    <3>5. ASSUME NEW s \in Slots, Buffered(s, v)' PROVE joined'[pool'[s].run[1]] <= v
      <4>1. Buffered(s, v) /\ pool'[s] = pool[s] /\ pool[s].run \in Runs /\ pool[s].run[1] # c
        BY <3>2, <3>5 DEF Buffered
      <4> QED BY <3>4, <4>1 DEF SessionInv
    <3>6. ASSUME NEW r \in Runs, Active(r, v)' PROVE joined'[r[1]] <= v
      <4>1. Active(r, v) /\ r[1] # c
        BY <3>3, <3>6 DEF Active
      <4> QED BY <3>4, <4>1 DEF SessionInv
    <3> QED BY <3>5, <3>6
  <2>2. ASSUME UNCHANGED <<joined, link>>,
               \A t \in Slots : pool'[t] # Free => /\ pool[t] # Free
                                                   /\ pool'[t].run = pool[t].run
                                                   /\ pool'[t].buf = pool[t].buf
        PROVE  SessionInv'
    <3>1. \A v \in Nat, t \in Slots : Buffered(t, v)' => Buffered(t, v) /\ pool'[t].run = pool[t].run
      BY <2>2 DEF Buffered, Mentions
    <3>2. \A v \in Nat, r \in Runs : Active(r, v)' => Active(r, v)
      BY <2>2 DEF Active
    <3> QED BY <2>2, <3>1, <3>2 DEF SessionInv
  <2>3. ASSUME NEW s \in Slots, FallSilent(s) PROVE SessionInv'
    BY <2>2, <2>3, SilentSteps DEF air
  <2>4. ASSUME UNCHANGED vars PROVE SessionInv'
    BY <2>2, <2>4 DEF vars, air
  <2> QED BY <2>1, <2>3, <2>4, StepKinds, PduInSession DEF APdu
<1> QED BY <1>1, <1>2, Typed, PTL DEF Spec

\* A half-built value never crosses into the next connection that gets the handle
\* (gap_event).
THEOREM NoLeftovers == Spec => []NoLeftoverOfAnotherSession
<1>1. TypeInv /\ SessionInv => NoLeftoverOfAnotherSession
  <2> SUFFICES ASSUME TypeInv, SessionInv, NEW s \in Slots, InUse(s), NEW n \in DOMAIN pool[s].buf
               PROVE  pool[s].buf[n].write >= joined[pool[s].run[1]]
    BY DEF NoLeftoverOfAnotherSession
  <2>1. pool[s] # Free /\ pool[s].buf \in Seq(Units) /\ pool[s].run \in Runs
    BY DEF InUse, TypeInv, PoolType, PartialWrites
  <2>2. n \in 1..Len(pool[s].buf) /\ pool[s].buf[n] \in Units
    BY <2>1
  <2>3. pool[s].buf[n].write \in Nat
    BY <2>2 DEF Units
  <2>4. Buffered(s, pool[s].buf[n].write)
    BY <2>1, <2>2 DEF Buffered, Mentions
  <2>5. joined[pool[s].run[1]] \in Nat
    BY <2>1 DEF Runs, TypeInv
  <2> QED BY <2>3, <2>4, <2>5 DEF SessionInv
<1> QED BY <1>1, Typed, InSession, PTL

-----------------------------------------------------------------------------
(* The pool is shared fairly.                                               *)

\* A run that needs a slot takes none from a run that is not stale (claim_slot).
THEOREM FreshKept == Spec => FreshRunsKeepTheirSlots
<1> DEFINE Action ==
        \A run \in Runs :
          /\ ~ \E s \in Slots : InUse(s) /\ pool[s].run = run
          /\ \E s \in Slots : pool'[s] # Free /\ pool'[s].run = run
          => \A s \in Slots : InUse(s) /\ ~ pool[s].stale => pool'[s] = pool[s]
<1>1. TypeInv /\ [Next]_vars => Action
  <2> SUFFICES ASSUME TypeInv, [Next]_vars, NEW run \in Runs,
                      \A s \in Slots : ~ (pool[s] # Free /\ pool[s].run = run),
                      NEW new \in Slots, pool'[new] # Free, pool'[new].run = run,
                      NEW t \in Slots, pool[t] # Free, ~ pool[t].stale
               PROVE  pool'[t] = pool[t]
    BY DEF InUse
  \* A step that gives no slot another run opens none.
  <2>1. ASSUME \A s \in Slots : pool'[s] # Free => pool[s] # Free /\ pool'[s].run = pool[s].run
        PROVE  FALSE
    BY <2>1
  <2>2. ASSUME NEW r \in Runs, NEW w \in 1..MaxWrites, NEW offset \in Nat,
               NEW data \in Seq(Units), NEW final \in BOOLEAN, Pdu(r, w, offset, data, final)
        PROVE  pool'[t] = pool[t]
    <3>1. CASE Missed(r)
      BY <2>1, <3>1 DEF Missed
    <3>2. CASE Lost(r, offset, data)
      BY <2>1, <3>2 DEF Lost, KeptOrFreed
    <3>3. ASSUME NEW s \in Slots, NEW old \in Seq(Units), NEW value \in Seq(Units),
                 Grown(s, r, offset, data, final, old, value)
          PROVE  pool'[t] = pool[t]
      <4>1. \A u \in Slots \ {s} : pool'[u] # Free => pool'[u] = pool[u] /\ pool[u] # Free
        BY <3>3, OthersKept DEF TypeInv
      <4>2. new = s
        BY <4>1
      <4>3. pool'[s].run = r
        BY <3>3, <4>2 DEF Grown
      <4>4. FindSlot(r) = {}
        BY <4>2, <4>3 DEF FindSlot, InUse
      <4>5. t # s
        BY <3>3, <4>4 DEF Grown, InUse
      <4>6. KeptOrFreed(t, r)
        BY <3>3, <4>5 DEF Grown
      <4> QED BY <4>2, <4>3, <4>6 DEF KeptOrFreed, InUse
    <3>4. PoolType /\ OneSlotEach /\ Captured(r, offset, data, final)
      BY <2>2 DEF Pdu, TypeInv
    <3> QED BY <3>1, <3>2, <3>3, <3>4, CapturedSteps
  <2>3. ASSUME NEW c \in Connections, Disconnect(c) PROVE FALSE
    BY <2>1, <2>3 DEF Disconnect
  <2>4. ASSUME NEW s \in Slots, FallSilent(s) PROVE FALSE
    BY <2>1, <2>4, SilentSteps
  <2>5. ASSUME UNCHANGED vars PROVE FALSE
    BY <2>1, <2>5 DEF vars
  <2> QED BY <2>2, <2>3, <2>4, <2>5, StepKinds DEF APdu
<1>2. TypeInv /\ [Next]_vars => [Action]_vars
  BY <1>1
<1> HIDE DEF Action
<1>3. Spec => [][Action]_vars
  BY <1>2, Typed, PTL DEF Spec
<1> QED BY <1>3 DEF Action, FreshRunsKeepTheirSlots

-----------------------------------------------------------------------------
(* Nothing is dropped for nothing.                                          *)

Calm == missed = {} /\ ~ quiet /\ ~ crowded

HasSlot(r) == \E s \in Slots : /\ pool[s] # Free /\ pool[s].run = r
                               /\ Len(pool[s].buf) = link[r].offset

Matched(v) == \E i \in 1..Len(delivered) : /\ Len(delivered[i].value) >= 1
                                           /\ delivered[i].value[1].write = v

\* Then every write in progress that still fits is buffered up to its offset, and
\* every one that is done and fits was handed over.
CalmInv ==
    Calm =>
        /\ \A s \in Slots : pool[s] # Free => ~ pool[s].stale
        /\ \A r \in Runs : link[r] # Free /\ link[r].offset <= MaxPayload => HasSlot(r)
        /\ \A v \in done : size[v] \in 1..MaxPayload => Matched(v)

\* A PDU that was captured is lost only if its write has grown too long.
LEMMA NotLost ==
    ASSUME TypeInv, SoundInv, CalmInv, Calm, NEW run \in Runs, NEW w \in 1..MaxWrites,
           NEW offset \in Nat, NEW data \in Seq(Units), NEW final \in BOOLEAN,
           Pdu(run, w, offset, data, final), Heard(run, offset), ~ crowded',
           offset + Len(data) <= MaxPayload
    PROVE  ~ Dropped(run, offset, data)
<1>0. Len(data) \in Nat /\ MaxPayload \in Nat /\ missed = {}
  BY ReassemblyAssumption DEF Calm
<1>1. CASE offset = 0 /\ link[run] = Free
  <2>1. FindSlot(run) = {}
    BY <1>0, <1>1 DEF FindSlot, InUse, SoundInv, SlotSound
  <2>2. ~ (FindSlot(run) = {} /\ offset = 0 /\ Claimable = {})
    BY DEF Heard
  <2> QED BY <1>0, <1>1, <2>1, <2>2 DEF Dropped
<1>2. CASE link[run] # Free /\ offset = link[run].offset
  <2>1. link[run].offset <= MaxPayload
    BY <1>0, <1>2
  <2>2. PICK s \in Slots : pool[s] # Free /\ pool[s].run = run /\ Len(pool[s].buf) = offset
    BY <1>2, <2>1 DEF CalmInv, HasSlot
  <2>3. FindSlot(run) = {s}
    BY <2>2 DEF FindSlot, InUse, TypeInv, OneSlotEach
  <2>4. ~ Broken(Len(pool[s].buf), offset, Len(data))
    BY <1>0, <2>2 DEF Broken
  <2> QED BY <2>3, <2>4 DEF Dropped
<1> QED BY <1>1, <1>2 DEF Pdu

LEMMA PduCalm ==
    ASSUME TypeInv, SoundInv, CalmInv, NEW run \in Runs, NEW w \in 1..MaxWrites,
           NEW offset \in Nat, NEW data \in Seq(Units), NEW final \in BOOLEAN,
           Pdu(run, w, offset, data, final)
    PROVE  CalmInv'
<1> SUFFICES ASSUME missed' = {}, ~ quiet', ~ crowded'
             PROVE  /\ \A s \in Slots : pool'[s] # Free => ~ pool'[s].stale
                    /\ \A r \in Runs : link'[r] # Free /\ link'[r].offset <= MaxPayload => HasSlot(r)'
                    /\ \A v \in done' : size'[v] \in 1..MaxPayload => Matched(v)'
  BY DEF CalmInv, Calm
<1>0. PoolType /\ OneSlotEach /\ Captured(run, offset, data, final)
      /\ delivered \in Seq([run: Runs, value: Seq(Units)])
      /\ Len(data) \in Nat /\ MaxPayload \in Nat
  BY ReassemblyAssumption DEF Pdu, TypeInv
<1>1. Heard(run, offset)
      /\ \/ Lost(run, offset, data)
         \/ \E s \in Slots, old \in Seq(Units), value \in Seq(Units) :
               Grown(s, run, offset, data, final, old, value)
  BY <1>0, CapturedSteps DEF Missed
<1>2. Calm
  BY <1>1 DEF Heard, Calm, Pdu, TypeInv
<1>3. /\ \A s \in Slots : pool[s] # Free => ~ pool[s].stale
      /\ \A r \in Runs : link[r] # Free /\ link[r].offset <= MaxPayload => HasSlot(r)
      /\ \A v \in done : size[v] \in 1..MaxPayload => Matched(v)
  BY <1>2 DEF CalmInv
<1>4. offset + Len(data) <= MaxPayload => ~ Lost(run, offset, data)
  BY <1>1, <1>2, NotLost DEF Lost
\* Whatever happens, other runs keep their slots and earlier writes their match.
<1>5. ASSUME NEW r \in Runs, r # run, link'[r] # Free, link'[r].offset <= MaxPayload,
             \A t \in Slots : pool[t] # Free /\ pool[t].run # run => pool'[t] = pool[t]
      PROVE  HasSlot(r)'
  <2>1. link'[r] = link[r] /\ HasSlot(r)
    BY <1>3, <1>5 DEF Pdu
  <2> QED BY <1>5, <2>1 DEF HasSlot
<1>6. ASSUME NEW v \in done, size'[v] \in 1..MaxPayload, Len(delivered') >= Len(delivered),
             \A i \in 1..Len(delivered) : delivered'[i] = delivered[i], Len(delivered') \in Nat
      PROVE  Matched(v)'
  <2>1. v # w /\ v \in Writes
    BY DEF Pdu, TypeInv, LinkInv, Writes
  <2>2. size'[v] = size[v]
    BY <2>1 DEF Pdu
  <2>3. PICK i \in 1..Len(delivered) : Len(delivered[i].value) >= 1 /\ delivered[i].value[1].write = v
    BY <1>3, <1>6, <2>2 DEF Matched
  <2>4. i \in 1..Len(delivered')
    BY <1>0, <1>6
  <2> QED BY <1>6, <2>3, <2>4 DEF Matched
<1>7. CASE Lost(run, offset, data)
  <2>1. ~ (offset + Len(data) <= MaxPayload) /\ delivered' = delivered
        /\ \A t \in Slots : KeptOrFreed(t, run)
    BY <1>4, <1>7 DEF Lost
  <2>2. \A t \in Slots : pool[t] # Free /\ pool[t].run # run => pool'[t] = pool[t]
    BY <1>3, <2>1 DEF KeptOrFreed, InUse
  <2>3. \A s \in Slots : pool'[s] # Free => ~ pool'[s].stale
    BY <1>3, <2>1 DEF KeptOrFreed
  <2>4. link'[run] # Free => ~ (link'[run].offset <= MaxPayload)
    BY <2>1 DEF Pdu
  <2>5. \A v \in done' \ done : ~ (size'[v] \in 1..MaxPayload)
    BY <1>0, <2>1 DEF Pdu
  <2>6. Len(delivered') >= Len(delivered) /\ Len(delivered') \in Nat
    BY <1>0, <2>1
  <2> QED BY <1>5, <1>6, <2>1, <2>2, <2>3, <2>4, <2>5, <2>6
<1>8. ASSUME NEW s \in Slots, NEW old \in Seq(Units), NEW value \in Seq(Units),
             Grown(s, run, offset, data, final, old, value)
      PROVE  /\ \A t \in Slots : pool'[t] # Free => ~ pool'[t].stale
             /\ \A r \in Runs : link'[r] # Free /\ link'[r].offset <= MaxPayload => HasSlot(r)'
             /\ \A v \in done' : size'[v] \in 1..MaxPayload => Matched(v)'
  <2>1. s \in FindSlot(run) \/ ~ InUse(s)
    BY <1>3, <1>8 DEF Grown, InUse
  <2>2. \A t \in Slots : pool[t] # Free /\ pool[t].run # run => pool'[t] = pool[t]
    BY <1>3, <1>8, <2>1 DEF Grown, KeptOrFreed, FindSlot, InUse
  <2>3. \A t \in Slots : pool'[t] # Free => ~ pool'[t].stale
    BY <1>3, <1>8 DEF Grown, KeptOrFreed
  <2>4. Len(value) = offset + Len(data) /\ Len(value) \in Nat
    BY <1>8, Concatenated DEF Grown
  <2>5. link'[run] # Free => HasSlot(run)'
    <3>1. ASSUME link'[run] # Free
          PROVE  /\ pool'[s] = [run |-> run, buf |-> value, stale |-> FALSE]
                 /\ link'[run].offset = offset + Len(data)
      BY <1>8, <3>1 DEF Grown, Pdu
    <3>2. [run |-> run, buf |-> value, stale |-> FALSE] \in PartialWrites
      BY DEF PartialWrites
    <3>3. ASSUME link'[run] # Free
          PROVE  /\ pool'[s] # Free /\ pool'[s].run = run
                 /\ Len(pool'[s].buf) = link'[run].offset
      <4> DEFINE grown == [run |-> run, buf |-> value, stale |-> FALSE]
      <4>1. grown # Free /\ grown.run = run /\ grown.buf = value
        BY <3>2, ReassemblyAssumption
      <4> HIDE DEF grown
      <4>2. pool'[s] = grown /\ Len(value) = link'[run].offset
        BY <2>4, <3>1, <3>3 DEF grown
      <4> QED BY <4>1, <4>2
    <3> QED BY <3>3 DEF HasSlot
  <2>6. \A n \in 1..Len(value) : value[n].write = w
    <3>1. run \notin missed
      BY <1>2 DEF Calm
    <3>2. InPlace(value, run, w)
      BY <1>8, GrownSound
    <3> QED BY <3>1, <3>2 DEF InPlace
  <2>7. CASE delivered' = delivered
    <3>1. \A v \in done' \ done : ~ (size'[v] \in 1..MaxPayload)
      BY <1>0, <1>8, <2>4, <2>7 DEF Grown, Pdu
    <3>2. Len(delivered') >= Len(delivered) /\ Len(delivered') \in Nat
      BY <1>0, <2>7
    <3> QED BY <1>5, <1>6, <2>2, <2>3, <2>5, <2>7, <3>1, <3>2
  <2>8. CASE value # <<>> /\ delivered' = Append(delivered, [run |-> run, value |-> value])
    <3> DEFINE e == [run |-> run, value |-> value]
    <3>1. e.value = value
      OBVIOUS
    <3> HIDE DEF e
    <3>2. delivered' = Append(delivered, e)
      BY <2>8 DEF e
    <3>3. Len(delivered') = Len(delivered) + 1 /\ Len(delivered) \in Nat
          /\ delivered'[Len(delivered) + 1] = e
          /\ \A i \in 1..Len(delivered) : delivered'[i] = delivered[i]
      BY <1>0, <3>2
    <3>4. Len(value) >= 1 /\ value[1].write = w
      BY <2>6, <2>8
    <3>5. Matched(w)'
      BY <3>1, <3>3, <3>4 DEF Matched
    <3>6. \A v \in done' \ done : v = w
      BY DEF Pdu
    <3> QED BY <1>5, <1>6, <2>2, <2>3, <2>5, <3>3, <3>5, <3>6
  <2> QED BY <1>8, <2>7, <2>8 DEF Grown
<1> QED BY <1>1, <1>7, <1>8

LEMMA StaysCalm == Spec => []CalmInv
<1>1. Init => CalmInv
  BY DEF Init, CalmInv
<1>2. TypeInv /\ SoundInv /\ CalmInv /\ [Next]_vars => CalmInv'
  <2> SUFFICES ASSUME TypeInv, SoundInv, CalmInv, [Next]_vars PROVE CalmInv'
    OBVIOUS
  <2>1. ASSUME NEW c \in Connections, Disconnect(c) PROVE CalmInv'
    <3> SUFFICES ASSUME Calm'
                 PROVE  /\ \A s \in Slots : pool'[s] # Free => ~ pool'[s].stale
                        /\ \A r \in Runs : link'[r] # Free /\ link'[r].offset <= MaxPayload => HasSlot(r)'
                        /\ \A v \in done' : size'[v] \in 1..MaxPayload => Matched(v)'
      BY DEF CalmInv
    <3>0. UNCHANGED <<delivered, size, done, missed, quiet, crowded>>
      BY <2>1 DEF Disconnect
    <3>1. /\ \A s \in Slots : pool[s] # Free => ~ pool[s].stale
          /\ \A r \in Runs : link[r] # Free /\ link[r].offset <= MaxPayload => HasSlot(r)
          /\ \A v \in done : size[v] \in 1..MaxPayload => Matched(v)
      BY <3>0 DEF CalmInv, Calm
    <3>2. \A t \in Slots : pool'[t] = IF pool[t] # Free /\ pool[t].run[1] = c THEN Free ELSE pool[t]
      BY <2>1 DEF Disconnect, InUse
    <3>3. ASSUME NEW r \in Runs, link'[r] # Free, link'[r].offset <= MaxPayload
          PROVE  HasSlot(r)'
      <4>1. link'[r] = link[r] /\ r[1] # c
        BY <2>1, <3>3 DEF Disconnect
      <4> QED BY <3>1, <3>2, <3>3, <4>1 DEF HasSlot
    <3> QED BY <3>0, <3>1, <3>2, <3>3 DEF Matched
  <2>2. ASSUME NEW s \in Slots, FallSilent(s) PROVE CalmInv'
    BY <2>2 DEF FallSilent, CalmInv, Calm
  <2>3. ASSUME UNCHANGED vars PROVE CalmInv'
    BY <2>3 DEF vars, air, CalmInv, Calm, HasSlot, Matched
  <2> QED BY <2>1, <2>2, <2>3, StepKinds, PduCalm DEF APdu
<1> QED BY <1>1, <1>2, Typed, Sound, PTL DEF Spec

\* If no PDU was missed, no run fell silent and no run lacked a slot, every
\* completed write that fits is handed over.
THEOREM NothingIsDropped == Spec => []NothingDropped
<1>1. TypeInv /\ CalmInv => NothingDropped
  <2> SUFFICES ASSUME TypeInv, CalmInv, Calm, NEW v \in done, size[v] \in 1..MaxPayload
               PROVE  \E i \in DOMAIN delivered : delivered[i].value[1].write = v
    BY DEF NothingDropped, Calm
  <2>1. Matched(v)
    BY DEF CalmInv
  <2> QED BY <2>1 DEF Matched, TypeInv
<1> QED BY <1>1, Typed, StaysCalm, PTL
====
