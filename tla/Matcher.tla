---- MODULE Matcher ----
(***************************************************************************)
(* Which writes count.  The rules are read from events.yaml one by one     *)
(* (src/gateway/config.py load_events); each write the meter sees is       *)
(* matched against them by the gateway (src/gateway/matcher.py, cli.py)    *)
(* or by the firmware (event_matcher.cpp, main.cpp), which are meant to    *)
(* agree.  Matching keeps no state, so the properties speak of every write *)
(* at every list of rules that can be loaded.                              *)
(***************************************************************************)
EXTENDS Naturals, Sequences, SequencesExt

CONSTANTS Characteristics,  \* (service, characteristic) pairs, normalised
          Bytes,            \* values of a payload byte
          MaxPrefix,        \* bound: bytes of a prefix
          MaxLength,        \* bound: bytes of a payload
          MaxRules,         \* bound: rules in the file
          Events            \* event names in the file

ASSUME MatcherAssumption ==
    /\ MaxPrefix \in Nat
    /\ MaxLength \in Nat
    /\ MaxRules \in Nat
    /\ Events \subseteq STRING
    /\ "" \notin Events  \* load_events refuses an empty name

Rules == [characteristic: Characteristics, prefix: BoundedSeq(Bytes, MaxPrefix),
          event: Events]

\* One complete value; a value in fragments is Reassembly.tla's subject.
Writes == [characteristic: Characteristics, payload: BoundedSeq(Bytes, MaxLength)]

VARIABLES rules,  \* the rules loaded so far, in the order of the file
          phase   \* "loading", "ready", or "refused" with a ConfigError

vars == <<rules, phase>>

-----------------------------------------------------------------------------
(* load_events.                                                             *)

\* A rule on a triple that an earlier rule has.
Duplicate(r) ==
    \E n \in DOMAIN rules : rules[n].characteristic = r.characteristic
                              /\ rules[n].prefix = r.prefix

LoadRule(r) ==
    /\ phase = "loading"
    /\ Len(rules) < MaxRules
    /\ IF Duplicate(r) THEN phase' = "refused" /\ UNCHANGED rules
       ELSE rules' = Append(rules, r) /\ UNCHANGED phase

\* The file ends; one without events is refused.
FinishLoading ==
    /\ phase = "loading"
    /\ phase' = IF rules = <<>> THEN "refused" ELSE "ready"
    /\ UNCHANGED rules

\* The operator edits the file and starts the meter again.
Restart ==
    /\ phase \in {"ready", "refused"}
    /\ phase' = "loading"
    /\ rules' = <<>>

Init == rules = <<>> /\ phase = "loading"

Next ==
    \/ \E r \in Rules : LoadRule(r)
    \/ FinishLoading
    \/ Restart

Spec == Init /\ [][Next]_vars

-----------------------------------------------------------------------------
(* The gateway: Matcher.match, classify, and what Pipeline.handle counts.   *)

HasPrefix(payload, prefix) == IsPrefix(prefix, payload)

\* The rules filed under the characteristic, by their places in the list.
Candidates(list, write) ==
    {n \in DOMAIN list : list[n].characteristic = write.characteristic}

\* Mutant: the candidates after the first are not looked at.
GatewayMatchFirst(list, write) ==
    LET candidates == Candidates(list, write)
    IN IF candidates # {} /\ HasPrefix(write.payload, list[Min(candidates)].prefix)
       THEN list[Min(candidates)].event ELSE ""

\* The first candidate that fits; "" is None.
GatewayMatch(list, write) ==
    LET fitting == {n \in Candidates(list, write) :
                      list[n].prefix = <<>> \/ HasPrefix(write.payload, list[n].prefix)}
    IN IF fitting = {} THEN "" ELSE list[Min(fitting)].event

Classify(list, write) ==
    IF GatewayMatch(list, write) = "" THEN "unknown" ELSE GatewayMatch(list, write)

\* handle tells an unrecognised write by the name of its event.
GatewayCounts(list, write) == Classify(list, write) # "unknown"

-----------------------------------------------------------------------------
(* The firmware: EventMatcher::match, after deliver, and record.            *)

\* Mutant: memcmp over the shorter of the two lengths.
FirmwareFitsShort(rule, write) ==
    LET n == IF Len(write.payload) < Len(rule.prefix) THEN Len(write.payload) ELSE Len(rule.prefix)
    IN /\ rule.characteristic = write.characteristic
       /\ SubSeq(write.payload, 1, n) = SubSeq(rule.prefix, 1, n)

FirmwareFits(rule, write) ==
    /\ rule.characteristic = write.characteristic
    /\ rule.prefix # <<>> =>
          /\ Len(write.payload) >= Len(rule.prefix)
          /\ SubSeq(write.payload, 1, Len(rule.prefix)) = rule.prefix

\* A single scan; `matched` is a flag of its own, not a name.
FirmwareMatch(list, write) ==
    LET fitting == {n \in DOMAIN list : FirmwareFits(list[n], write)}
    IN IF fitting = {} THEN [matched |-> FALSE, event |-> ""]
       ELSE [matched |-> TRUE, event |-> list[Min(fitting)].event]

\* deliver hands nothing over for an empty value.
FirmwareCounts(list, write) ==
    write.payload # <<>> /\ FirmwareMatch(list, write).matched

-----------------------------------------------------------------------------
(* Properties.                                                              *)

\* The rules in every order they could have been written in.
Orders == {[n \in DOMAIN rules |-> rules[order[n]]] :
             order \in {f \in [DOMAIN rules -> DOMAIN rules] :
                          \A n, m \in DOMAIN rules : f[n] = f[m] => n = m}}

\* "Rule order can never change the count" (events.example.yaml), on either side,
\* although overlapping prefixes are not duplicates.
CountIgnoresOrder ==
    phase = "ready" =>
        \A write \in Writes, order \in Orders :
            /\ GatewayCounts(order, write) = GatewayCounts(rules, write)
            /\ FirmwareCounts(order, write) = FirmwareCounts(rules, write)

\* Gateway and firmware agree on what counts, and on the event's name, for every
\* value that is not empty (matcher.py: "same semantics").
SidesAgreeOnValues ==
    phase = "ready" =>
        \A write \in {w \in Writes : w.payload # <<>>} :
            /\ GatewayCounts(rules, write) = FirmwareCounts(rules, write)
            /\ FirmwareCounts(rules, write)
                  => Classify(rules, write) = FirmwareMatch(rules, write).event
====
