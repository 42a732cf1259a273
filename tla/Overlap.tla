---- MODULE Overlap ----
(***************************************************************************)
(* What remains of the high-water marks when requests overlap.  POST       *)
(* /reports judges a report before its transaction begins, so that another *)
(* report can be stored in between (app.py post_report).  Beside           *)
(* Backend.tla's variables this module keeps which reports that has        *)
(* happened to and for which devices one of them was stored all the same,  *)
(* and says that the marks go back, and the stored readings cease to be a  *)
(* ledger, through nothing else: no failure, replay, rotation or           *)
(* registration, however many threads there are.                           *)
(***************************************************************************)
EXTENDS Backend

VARIABLES overtaken,  \* history: threads whose verified report was overtaken
          crossed     \* history: devices an overtaken report was stored for

overlapVars == <<vars, overtaken, crossed>>

\* A report of the device is stored in this step.
StoredFor(d) == \E r \in rows' \ rows : r.device = d

\* Another report of its device is stored between a report's verify_report and
\* its transaction.
Overtake ==
    overtaken' = {t \in Threads :
                    /\ verified[t] # None
                    /\ verified'[t] # None
                    /\ t \in overtaken \/ StoredFor(verified[t].device)}

\* An overtaken report is stored.
Cross ==
    LET storing == {t \in overtaken : verified'[t] = None /\ verified[t] \in rows' \ rows}
    IN crossed' = crossed \cup {verified[t].device : t \in storing}

OverlapInit ==
    /\ Init
    /\ overtaken = {}
    /\ crossed = {}

OverlapNext == Next /\ Overtake /\ Cross

OverlapSpec == OverlapInit /\ [][OverlapNext]_overlapVars

-----------------------------------------------------------------------------
(* Properties.                                                              *)

\* "The device's high-water marks must not go backwards" (docs/deployment.md), as
\* far as the code keeps it: a mark goes back only when a report is stored that
\* another of its device overtook after verify_report had passed it.
MarksRetreatOnlyWhenOvertaken ==
    [][\A d \in Devices :
          lastSequence'[d] < lastSequence[d] \/ lastCount'[d] < lastCount[d] =>
              \E t \in overtaken : /\ verified[t].device = d
                                   /\ verified[t] \in rows' \ rows]_overlapVars

\* The marks bound every stored report of a device that no overtaken report was
\* stored for.
MarksAreHighWater ==
    \A x \in rows : x.device \notin crossed =>
        x.sequence <= lastSequence[x.device] /\ x.count <= lastCount[x.device]

\* The history of such a device never shrinks: a later sequence never carries a
\* smaller count.
CountsFollowSequences ==
    \A x, y \in rows : x.device = y.device /\ x.device \notin crossed
                         /\ x.sequence < y.sequence => x.count <= y.count

-----------------------------------------------------------------------------
(* The stored readings, without their signatures, as a ledger.              *)

readings == {Reading(r) : r \in rows}

Ledger == INSTANCE UsageLedger WITH ledger <- readings

\* A report is stored for a device that an overtaken one was stored for, now or
\* before.
StoredForCrossed ==
    /\ rows \subseteq rows'
    /\ \A r \in rows' \ rows : r.device \in crossed'

\* Every report that enters usage_reports is a reading the ledger accepts, newer
\* than and not below all of its device's earlier ones, whatever overlaps, fails
\* and is repeated, unless an overtaken report was stored for its device.
LedgerUnlessCrossed ==
    Ledger!Init /\ [][Ledger!Next \/ StoredForCrossed]_readings
====
