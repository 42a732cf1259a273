---- MODULE MatcherProofs ----
(***************************************************************************)
(* Proofs about Matcher.tla: the rules that can be loaded, what they count *)
(* in any order, and that gateway and firmware count and name alike.       *)
(***************************************************************************)
EXTENDS Matcher, WellFoundedInduction, FiniteSetTheorems, SequenceTheorems, TLAPS


\* "unknown" is what both sides log for a write they do not count; load_events
\* does not refuse it as a name.
NoRuleIsUnknown == "unknown" \notin Events


TypeInv ==
    /\ rules \in Seq(Rules)
    /\ phase \in {"loading", "ready", "refused"}

\* What `seen` is for.
NoDuplicates ==
    \A n, m \in DOMAIN rules :
        rules[n].characteristic = rules[m].characteristic /\ rules[n].prefix = rules[m].prefix
            => n = m

LEMMA BoundedIsSeq ==
    ASSUME NEW k \in Nat, NEW s \in BoundedSeq(Bytes, k)
    PROVE  s \in Seq(Bytes)
BY DEF BoundedSeq, SeqOf

\* A rule and a list of rules by their fields.
LEMMA RuleTypes ==
    ASSUME NEW list \in Seq(Rules), NEW n \in DOMAIN list
    PROVE  /\ n \in Nat /\ list[n].characteristic \in Characteristics
           /\ list[n].prefix \in Seq(Bytes)
           /\ list[n].event \in Events
<1>1. list[n] \in Rules /\ n \in Nat
  OBVIOUS
<1>2. list[n].prefix \in BoundedSeq(Bytes, MaxPrefix)
  BY <1>1 DEF Rules
<1> QED BY <1>1, <1>2, BoundedIsSeq, MatcherAssumption DEF Rules

-----------------------------------------------------------------------------
(* What fits.                                                               *)

\* The comparison of each side is one comparison.
Fits(rule, write) ==
    /\ rule.characteristic = write.characteristic
    /\ Len(rule.prefix) <= Len(write.payload)
    /\ \A j \in 1..Len(rule.prefix) : rule.prefix[j] = write.payload[j]

Fitting(list, write) == {n \in DOMAIN list : Fits(list[n], write)}

LEMMA StartOf ==
    ASSUME NEW p \in Seq(Bytes), NEW v \in Seq(Bytes), Len(p) <= Len(v)
    PROVE  SubSeq(v, 1, Len(p)) = p <=> \A j \in 1..Len(p) : p[j] = v[j]
<1>1. PICK s : s = SubSeq(v, 1, Len(p))
  OBVIOUS
<1>2. /\ s \in Seq(Bytes) /\ Len(s) = Len(p)
      /\ \A j \in 1..Len(p) : s[j] = v[j]
  <2>1. \A j \in 1..Len(p) : v[j] \in Bytes
    OBVIOUS
  <2>2. /\ s \in Seq(Bytes) /\ Len(s) = IF 1 <= Len(p) THEN Len(p) - 1 + 1 ELSE 0
        /\ \A j \in 1..Len(p) - 1 + 1 : s[j] = v[1 + j - 1]
    BY <1>1, <2>1, SubSeqProperties
  <2> QED BY <2>2
<1>3. s = p <=> \A j \in 1..Len(p) : s[j] = p[j]
  BY <1>2
<1> QED BY <1>1, <1>2, <1>3

LEMMA SameFit ==
    ASSUME NEW list \in Seq(Rules), NEW write \in Writes
    PROVE  /\ {n \in Candidates(list, write) :
                  list[n].prefix = <<>> \/ HasPrefix(write.payload, list[n].prefix)}
                = Fitting(list, write)
           /\ {n \in DOMAIN list : FirmwareFits(list[n], write)} = Fitting(list, write)
<1>1. write.payload \in Seq(Bytes)
  BY BoundedIsSeq, MatcherAssumption DEF Writes
<1>2. ASSUME NEW n \in DOMAIN list
      PROVE  /\ FirmwareFits(list[n], write) <=> Fits(list[n], write)
             /\ Fits(list[n], write)
                  <=> /\ list[n].characteristic = write.characteristic
                      /\ list[n].prefix = <<>> \/ HasPrefix(write.payload, list[n].prefix)
  <2>1. PICK p \in Seq(Bytes), v \in Seq(Bytes) : p = list[n].prefix /\ v = write.payload
    BY <1>1, RuleTypes
  <2>2. Len(p) \in Nat /\ Len(v) \in Nat /\ (p = <<>> <=> Len(p) = 0)
    BY EmptySeq
  <2>3. SubSeq(p, 1, Len(p)) = p
    BY SubSeqFull
  <2>4. Len(p) <= Len(v) =>
           (SubSeq(v, 1, Len(p)) = p <=> \A j \in 1..Len(p) : p[j] = v[j])
    BY StartOf
  <2>5. p = <<>> => Len(p) <= Len(v) /\ 1..Len(p) = {}
    BY <2>2
  <2>6. HasPrefix(v, p) <=> Len(p) <= Len(v) /\ \A j \in 1..Len(p) : p[j] = v[j]
    BY <2>3, <2>4 DEF HasPrefix, IsPrefix
  <2>7. Fits(list[n], write)
          <=> /\ list[n].characteristic = write.characteristic
              /\ Len(p) <= Len(v) /\ \A j \in 1..Len(p) : p[j] = v[j]
    BY <2>1 DEF Fits
  <2>8. FirmwareFits(list[n], write)
          <=> /\ list[n].characteristic = write.characteristic
              /\ p # <<>> => Len(v) >= Len(p) /\ SubSeq(v, 1, Len(p)) = p
    BY <2>1 DEF FirmwareFits
  <2> QED BY <2>1, <2>2, <2>4, <2>5, <2>6, <2>7, <2>8
<1> QED BY <1>2 DEF Fitting, Candidates

\* The first that fits is one that fits.
LEMMA FirstFits ==
    ASSUME NEW list \in Seq(Rules), NEW write, Fitting(list, write) # {}
    PROVE  /\ Min(Fitting(list, write)) \in Fitting(list, write)
           /\ list[Min(Fitting(list, write))].event \in Events
<1>1. Fitting(list, write) \subseteq Nat
  BY DEF Fitting
<1>2. \E n \in Fitting(list, write) : \A m \in Fitting(list, write) : n <= m
  <2>1. PICK n \in Fitting(list, write) :
           \A m \in Fitting(list, write) : ~ (<<m, n>> \in OpToRel(<, Nat))
    BY <1>1, NatLessThanWellFounded, WFMin, Zenon
  <2>2. \A m \in Fitting(list, write) : ~ (m < n)
    BY <1>1, <2>1 DEF OpToRel
  <2> QED BY <1>1, <2>2
<1>3. Min(Fitting(list, write)) \in Fitting(list, write)
  BY <1>2 DEF Min
<1> QED BY <1>3, RuleTypes DEF Fitting

LEMMA MatchedField ==
    /\ [matched |-> FALSE, event |-> ""].matched = FALSE
    /\ \A e : /\ [matched |-> TRUE, event |-> e].matched = TRUE
              /\ [matched |-> TRUE, event |-> e].event = e
BY Zenon

\* What each side makes of a write.
LEMMA Verdicts ==
    ASSUME NoRuleIsUnknown, NEW list \in Seq(Rules), NEW write \in Writes
    PROVE  /\ GatewayCounts(list, write) <=> Fitting(list, write) # {}
           /\ FirmwareCounts(list, write)
                <=> write.payload # <<>> /\ Fitting(list, write) # {}
           /\ Fitting(list, write) # {} =>
                /\ Classify(list, write) = list[Min(Fitting(list, write))].event
                /\ FirmwareMatch(list, write).event = list[Min(Fitting(list, write))].event
<1>1. GatewayMatch(list, write) = IF Fitting(list, write) = {} THEN ""
                                  ELSE list[Min(Fitting(list, write))].event
  BY SameFit DEF GatewayMatch
<1>2. FirmwareMatch(list, write) =
         IF Fitting(list, write) = {} THEN [matched |-> FALSE, event |-> ""]
         ELSE [matched |-> TRUE, event |-> list[Min(Fitting(list, write))].event]
  BY SameFit DEF FirmwareMatch
<1>3. CASE Fitting(list, write) = {}
  <2>1. FirmwareMatch(list, write) = [matched |-> FALSE, event |-> ""]
    BY <1>2, <1>3
  <2>2. FirmwareMatch(list, write).matched = FALSE
    BY <2>1, MatchedField, Zenon
  <2>3. Classify(list, write) = "unknown"
    BY <1>1, <1>3 DEF Classify
  <2> QED BY <1>3, <2>2, <2>3 DEF GatewayCounts, FirmwareCounts
<1>4. CASE Fitting(list, write) # {}
  <2>1. PICK e \in Events : e = list[Min(Fitting(list, write))].event
    BY <1>4, FirstFits
  <2>2. e # "" /\ e # "unknown"
    BY MatcherAssumption DEF NoRuleIsUnknown
  <2>3. GatewayMatch(list, write) = e
    BY <1>1, <1>4, <2>1
  <2>4. Classify(list, write) = e
    BY <2>2, <2>3 DEF Classify
  <2>5. FirmwareMatch(list, write) = [matched |-> TRUE, event |-> e]
    BY <1>2, <1>4, <2>1
  <2>6. /\ FirmwareMatch(list, write).matched = TRUE
        /\ FirmwareMatch(list, write).event = e
    BY <2>5, MatchedField, Zenon
  <2> QED BY <1>4, <2>1, <2>2, <2>4, <2>6 DEF GatewayCounts, FirmwareCounts
<1> QED BY <1>3, <1>4

-----------------------------------------------------------------------------
(* Another order of the rules.                                              *)

\* list holds the rules, each once.
Reorders(list, f) ==
    /\ list \in Seq(Rules) /\ DOMAIN list = DOMAIN rules
    /\ f \in [DOMAIN rules -> DOMAIN rules]
    /\ \A n \in DOMAIN rules : list[n] = rules[f[n]]
    /\ \A n, m \in DOMAIN rules : f[n] = f[m] => n = m
    /\ \A m \in DOMAIN rules : \E n \in DOMAIN rules : f[n] = m

LEMMA OrdersReorder ==
    ASSUME TypeInv, NEW list \in Orders
    PROVE  \E f : Reorders(list, f)
<1>1. PICK f \in [DOMAIN rules -> DOMAIN rules] :
         /\ list = [n \in DOMAIN rules |-> rules[f[n]]]
         /\ \A n, m \in DOMAIN rules : f[n] = f[m] => n = m
  BY DEF Orders
<1>2. PICK k \in Nat : DOMAIN rules = 1..k
  BY DEF TypeInv
<1>3. \A n \in DOMAIN rules : rules[n] \in Rules
  BY DEF TypeInv
<1>4. list \in Seq(Rules) /\ DOMAIN list = DOMAIN rules
  <2>1. list \in [1..k -> Rules]
    BY <1>1, <1>2, <1>3
  <2> QED BY <1>1, <1>2, <2>1
<1>5. f \in Injection(DOMAIN rules, DOMAIN rules)
  BY <1>1 DEF Injection, IsInjective
<1>6. IsFiniteSet(DOMAIN rules)
  BY <1>2, FS_Interval
<1>7. f \in Surjection(DOMAIN rules, DOMAIN rules)
  BY <1>5, <1>6, FS_Injection
<1>8. \A m \in DOMAIN rules : \E n \in DOMAIN rules : f[n] = m
  BY <1>7 DEF Surjection
<1> QED BY <1>1, <1>4, <1>8 DEF Reorders

\* As many rules fit in one order as in the other.
LEMMA ReorderedFit ==
    ASSUME NEW list, NEW f, Reorders(list, f), NEW write
    PROVE  /\ Fitting(list, write) # {} <=> Fitting(rules, write) # {}
           /\ \A n \in Fitting(list, write) : f[n] \in Fitting(rules, write)
<1>1. \A n \in DOMAIN rules : Fits(list[n], write) <=> Fits(rules[f[n]], write)
  BY DEF Reorders
<1> QED BY <1>1 DEF Reorders, Fitting

-----------------------------------------------------------------------------
(* Loading.                                                                 *)

LEMMA LoadedInvariant == Spec => [](TypeInv /\ NoDuplicates)
<1>1. Init => TypeInv /\ NoDuplicates
  BY DEF Init, TypeInv, NoDuplicates
<1>2. TypeInv /\ NoDuplicates /\ [Next]_vars => (TypeInv /\ NoDuplicates)'
  <2> SUFFICES ASSUME TypeInv, NoDuplicates, [Next]_vars PROVE (TypeInv /\ NoDuplicates)'
    OBVIOUS
  <2>1. ASSUME NEW r \in Rules, LoadRule(r) PROVE (TypeInv /\ NoDuplicates)'
    <3>1. CASE UNCHANGED rules
      BY <2>1, <3>1 DEF LoadRule, TypeInv, NoDuplicates
    <3>2. CASE rules' = Append(rules, r) /\ phase' = phase /\ ~ Duplicate(r)
      <4>1. /\ rules' \in Seq(Rules) /\ Len(rules) \in Nat /\ DOMAIN rules = 1..Len(rules)
            /\ DOMAIN rules' = 1..Len(rules) + 1 /\ rules'[Len(rules) + 1] = r
            /\ \A n \in DOMAIN rules : rules'[n] = rules[n]
        BY <3>2 DEF TypeInv
      <4>2. \A n \in DOMAIN rules' : n \in DOMAIN rules \/ n = Len(rules) + 1
        BY <4>1
      <4>3. \A n \in DOMAIN rules : ~ (/\ rules[n].characteristic = r.characteristic
                                       /\ rules[n].prefix = r.prefix)
        BY <3>2 DEF Duplicate
      <4> HIDE DEF Rules
      <4>4. NoDuplicates'
        BY <4>1, <4>2, <4>3 DEF NoDuplicates
      <4> QED BY <3>2, <4>1, <4>4 DEF TypeInv
    <3> QED BY <2>1, <3>1, <3>2 DEF LoadRule
  <2>2. CASE FinishLoading
    BY <2>2 DEF FinishLoading, TypeInv, NoDuplicates
  <2>3. CASE Restart
    BY <2>3 DEF Restart, TypeInv, NoDuplicates
  <2>4. CASE UNCHANGED vars
    BY <2>4 DEF vars, TypeInv, NoDuplicates
  <2> QED BY <2>1, <2>2, <2>3, <2>4 DEF Next
<1> QED BY <1>1, <1>2, PTL DEF Spec

\* However long the file, a write that counts under its rules in one order counts
\* under them in every order, on the gateway and on the firmware, if no rule's
\* event is called "unknown" (load_events, Matcher.match, EventMatcher::match).
THEOREM OrderNeverChangesCount == NoRuleIsUnknown => (Spec => []CountIgnoresOrder)
<1> SUFFICES ASSUME NoRuleIsUnknown PROVE Spec => []CountIgnoresOrder
  OBVIOUS
<1>1. TypeInv => CountIgnoresOrder
  <2> SUFFICES ASSUME TypeInv, NEW write \in Writes, NEW order \in Orders
               PROVE  /\ GatewayCounts(order, write) = GatewayCounts(rules, write)
                      /\ FirmwareCounts(order, write) = FirmwareCounts(rules, write)
    BY DEF CountIgnoresOrder
  <2>1. PICK f : Reorders(order, f)
    BY OrdersReorder
  <2>2. Fitting(order, write) # {} <=> Fitting(rules, write) # {}
    BY <2>1, ReorderedFit
  <2>3. order \in Seq(Rules) /\ rules \in Seq(Rules)
    BY <2>1 DEF Reorders, TypeInv
  <2>4. GatewayCounts(order, write) <=> GatewayCounts(rules, write)
    BY <2>2, <2>3, Verdicts
  <2>5. FirmwareCounts(order, write) <=> FirmwareCounts(rules, write)
    BY <2>2, <2>3, Verdicts
  <2>6. /\ GatewayCounts(order, write) \in BOOLEAN /\ GatewayCounts(rules, write) \in BOOLEAN
        /\ FirmwareCounts(order, write) \in BOOLEAN /\ FirmwareCounts(rules, write) \in BOOLEAN
    BY DEF GatewayCounts, FirmwareCounts
  <2> QED BY <2>4, <2>5, <2>6
<1> QED BY <1>1, LoadedInvariant, PTL

\* For every loaded list and every value that is not empty, the gateway and the
\* firmware count alike and give one name, if no rule's event is called "unknown"
\* (matcher.py: "both sides must agree on what counts").
THEOREM SidesAgree == NoRuleIsUnknown => (Spec => []SidesAgreeOnValues)
<1> SUFFICES ASSUME NoRuleIsUnknown PROVE Spec => []SidesAgreeOnValues
  OBVIOUS
<1>1. TypeInv => SidesAgreeOnValues
  <2> SUFFICES ASSUME TypeInv, NEW write \in Writes, write.payload # <<>>
               PROVE  /\ GatewayCounts(rules, write) = FirmwareCounts(rules, write)
                      /\ FirmwareCounts(rules, write)
                           => Classify(rules, write) = FirmwareMatch(rules, write).event
    BY DEF SidesAgreeOnValues
  <2>1. /\ GatewayCounts(rules, write) <=> FirmwareCounts(rules, write)
        /\ FirmwareCounts(rules, write)
             => Classify(rules, write) = FirmwareMatch(rules, write).event
    BY Verdicts DEF TypeInv
  <2>2. GatewayCounts(rules, write) \in BOOLEAN /\ FirmwareCounts(rules, write) \in BOOLEAN
    BY DEF GatewayCounts, FirmwareCounts
  <2> QED BY <2>1, <2>2
<1> QED BY <1>1, LoadedInvariant, PTL

-----------------------------------------------------------------------------
(* When the order does not even change the name.                            *)

\* Two prefixes on one characteristic are equally long, as when each begins with
\* an opcode of a fixed length.
EquallyLong ==
    \A n, m \in DOMAIN rules :
        rules[n].characteristic = rules[m].characteristic
            => Len(rules[n].prefix) = Len(rules[m].prefix)

\* A write is named alike in every order of the rules.
NameIgnoresOrder ==
    phase = "ready" /\ EquallyLong =>
        \A write \in Writes, order \in Orders :
            Classify(order, write) = Classify(rules, write)

\* Of such rules, one at most fits.
LEMMA OneFits ==
    ASSUME TypeInv, NoDuplicates, EquallyLong, NEW write,
           NEW n \in Fitting(rules, write), NEW m \in Fitting(rules, write)
    PROVE  n = m
<1>1. n \in DOMAIN rules /\ m \in DOMAIN rules /\ Fits(rules[n], write) /\ Fits(rules[m], write)
  BY DEF Fitting
<1>2. PICK p \in Seq(Bytes), q \in Seq(Bytes) : p = rules[n].prefix /\ q = rules[m].prefix
  BY <1>1, RuleTypes DEF TypeInv
<1>3. Len(p) = Len(q) /\ rules[n].characteristic = rules[m].characteristic
  BY <1>1, <1>2 DEF EquallyLong, Fits
<1>4. \A j \in 1..Len(p) : p[j] = q[j]
  BY <1>1, <1>2, <1>3 DEF Fits
<1>5. p = q
  BY <1>3, <1>4
<1> QED BY <1>1, <1>2, <1>3, <1>5 DEF NoDuplicates

\* That no two rules are duplicates makes the order irrelevant, to the name too,
\* where the prefixes on a characteristic are equally long (matcher.py: "config
\* rejects duplicate triples so order cannot matter").
THEOREM EqualPrefixesNeedNoOrder == NoRuleIsUnknown => (Spec => []NameIgnoresOrder)
<1> SUFFICES ASSUME NoRuleIsUnknown PROVE Spec => []NameIgnoresOrder
  OBVIOUS
<1>1. TypeInv /\ NoDuplicates => NameIgnoresOrder
  <2> SUFFICES ASSUME TypeInv, NoDuplicates, EquallyLong,
                      NEW write \in Writes, NEW order \in Orders
               PROVE  Classify(order, write) = Classify(rules, write)
    BY DEF NameIgnoresOrder
  <2>1. PICK f : Reorders(order, f)
    BY OrdersReorder
  <2>2. order \in Seq(Rules) /\ rules \in Seq(Rules)
    BY <2>1 DEF Reorders, TypeInv
  <2>3. CASE Fitting(rules, write) = {}
    <3>1. Fitting(order, write) = {}
      BY <2>1, <2>3, ReorderedFit
    <3>2. ~ GatewayCounts(order, write) /\ ~ GatewayCounts(rules, write)
      BY <2>2, <2>3, <3>1, Verdicts
    <3> QED BY <3>2 DEF GatewayCounts
  <2>4. CASE Fitting(rules, write) # {}
    <3>1. Fitting(order, write) # {}
      BY <2>1, <2>4, ReorderedFit
    <3>2. PICK n, m : n = Min(Fitting(order, write)) /\ m = Min(Fitting(rules, write))
      OBVIOUS
    <3>3. n \in Fitting(order, write) /\ m \in Fitting(rules, write)
      BY <2>2, <2>4, <3>1, <3>2, FirstFits
    <3>4. f[n] = m
      BY <2>1, <3>3, ReorderedFit, OneFits
    <3>5. order[n] = rules[m]
      BY <2>1, <3>3, <3>4 DEF Reorders, Fitting
    <3> QED BY <2>2, <2>4, <3>1, <3>2, <3>5, Verdicts
  <2> QED BY <2>3, <2>4
<1> QED BY <1>1, LoadedInvariant, PTL
====
