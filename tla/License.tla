---- MODULE License ----
(***************************************************************************)
(* GET /devices/{device_id}/license (src/backend/policy.py): may the       *)
(* device go on working?  The answer is put together from three reads that *)
(* no transaction joins: the policy row, the newest report, and the newest *)
(* report from before the rolling period.  Between them reports arrive,    *)
(* the clock runs, and the operator edits the row by hand, with whatever   *)
(* value SQLite lets into the column.                                      *)
(*                                                                         *)
(* One registered device.  Its reports are the ones Backend.tla accepts    *)
(* from one gateway: sequences and counts rise together.  One unit of time *)
(* stands for the resolution of the stored timestamps.                     *)
(***************************************************************************)
EXTENDS Integers, Sequences, FiniteSets

CONSTANTS Actives, Quotas, Periods, Expiries,  \* what the columns may hold
          Null,        \* SQL NULL; no value
          Garbled,     \* text that is no integer and no date
          Empty,       \* the empty string
          Huge,        \* a period that timedelta cannot represent
          WallClock,   \* does the meter's clock tell the date?
          MaxTime,     \* bound: the clock
          MaxCount,    \* bound: units of work
          MaxReports   \* bound: reports of the device

ASSUME LicenseAssumption ==
    /\ Quotas \ {Null, Garbled} \subseteq Int
    /\ Periods \ {Null, Garbled, Huge} \subseteq Int
    /\ Expiries \ {Null, Empty, Garbled} \subseteq Int
    /\ WallClock \in BOOLEAN
    /\ MaxTime \in Nat
    /\ MaxCount \in Nat
    /\ MaxReports \in Nat

Rows == [active: Actives, quota: Quotas, period: Periods, expires: Expiries]

VARIABLES now,      \* the backend's clock
          work,     \* history: when each unit of work was done
          made,     \* the report the gateway is trying to deliver
          reports,  \* the device's usage_reports, by sequence
          row,      \* the device's row of policies
          phase,    \* how far the request has come
          read,     \* the policy row the request has read
          cutoff,   \* start of the rolling period
          latest,   \* count of the newest report it read
          answer,   \* the decision, with what it was made from
          failed    \* history: which read of the request failed

world == <<now, work, made, reports, row>>
request == <<phase, read, cutoff, latest, answer, failed>>
vars == <<world, request>>

-----------------------------------------------------------------------------
(* The world around the request.                                            *)

Tick ==
    /\ now < MaxTime
    /\ now' = now + 1
    /\ UNCHANGED <<work, made, reports, row, request>>

DoWork ==
    /\ Len(work) < MaxCount
    /\ work' = Append(work, now)
    /\ UNCHANGED <<now, made, reports, row, request>>

\* cmd_report stamps its report with the gateway's clock (WallClock), taken to run
\* with the backend's.  The firmware's counts from boot (main.cpp report_task), so
\* that its dates are decades before any period.
MakeReport ==
    /\ made = Null
    /\ Len(reports) < MaxReports
    /\ Len(work) > 0
    /\ made' = [count |-> Len(work), end |-> IF WallClock THEN now ELSE -1000]
    /\ UNCHANGED <<now, work, reports, row, request>>

AcceptReport ==
    /\ made # Null
    /\ reports' = Append(reports, made)
    /\ made' = Null
    /\ UNCHANGED <<now, work, row, request>>

\* The operator writes, edits or deletes the row.
EditPolicy(r) ==
    /\ row # r
    /\ row' = r
    /\ UNCHANGED <<now, work, made, reports, request>>

-----------------------------------------------------------------------------
(* policy.py.                                                               *)

\* Mutant: a date that cannot be read is no date.
UnevaluableNumber(r) == r.quota = Garbled \/ r.period = Garbled

\* load_policy: text where a number or a date belongs makes the row unevaluable;
\* bool() takes any text for true, and an empty date for none.
Unevaluable(r) == r.expires = Garbled \/ r.quota = Garbled \/ r.period = Garbled

Expired(r, today) == r.expires \notin {Null, Empty, Garbled} /\ today > r.expires

\* evaluate: the first objection, or none.
Evaluate(r, used, today) ==
    IF r = Null THEN "no_policy_on_record"
    ELSE IF r.active = 0 THEN "not_activated"
    ELSE IF Expired(r, today) THEN "expired"
    ELSE IF r.quota = Null THEN "within_policy"
    ELSE IF r.period = Null \/ r.period <= 0 \/ used = Null THEN "policy_unevaluable"
    ELSE IF used >= r.quota THEN "quota_exceeded"
    ELSE "within_policy"

\* The decision goes out, and what it was read from is remembered with it.
Answer(reason, r, used) ==
    /\ phase' = "answered"
    /\ answer' = [reason |-> reason, row |-> r, used |-> used, at |-> now]

\* usage_in_period is asked for: a quota, and a period that is not NULL or 0.
Metered(r) == r # Null /\ r.quota # Null /\ r.period \notin {Null, 0}

\* The SELECT of the policy row, and everything up to the next statement.  A
\* period beyond timedelta raises OverflowError, which nothing catches.
LoadPolicy ==
    /\ phase = "asked"
    /\ read' = row
    /\ IF row # Null /\ Unevaluable(row) THEN Answer("policy_unevaluable", row, Null)
       ELSE IF ~ Metered(row) THEN Answer(Evaluate(row, Null, now), row, Null)
       ELSE IF row.period = Huge THEN Answer("internal_error", row, Null)
       ELSE phase' = "loaded" /\ UNCHANGED answer
    /\ UNCHANGED <<world, cutoff, latest, failed>>

\* The newest report; a device without reports has used nothing.
ReadLatest ==
    /\ phase = "loaded"
    /\ cutoff' = now - read.period
    /\ IF reports = <<>>
       THEN Answer(Evaluate(read, 0, now), read, 0) /\ latest' = 0
       ELSE /\ latest' = reports[Len(reports)].count
            /\ phase' = "latest_read"
            /\ UNCHANGED answer
    /\ UNCHANGED <<world, read, failed>>

\* window_end < cutoff is a comparison of texts: "...+00:00" sorts before "...Z",
\* so that a report from the very second of the cutoff passes for an earlier one.
Before(end) == end <= cutoff

\* Mutant: the oldest report before the period instead of the newest.
BaselineOldest ==
    IF \E n \in DOMAIN reports : Before(reports[n].end) THEN reports[1].count ELSE 0

\* Mutant: the report that follows the cutoff is the baseline.
BaselineFollowing ==
    LET later == {n \in DOMAIN reports : ~ Before(reports[n].end)}
    IN IF later = {} THEN reports[Len(reports)].count
       ELSE reports[CHOOSE n \in later : \A m \in later : n <= m].count

Baseline ==
    LET earlier == {n \in DOMAIN reports : Before(reports[n].end)}
    IN IF earlier = {} THEN 0
       ELSE reports[CHOOSE n \in earlier : \A m \in earlier : m <= n].count

\* The newest report before the period, and the decision.
ReadBaseline ==
    LET used == IF latest < Baseline THEN 0 ELSE latest - Baseline IN
    /\ phase = "latest_read"
    /\ Answer(Evaluate(read, used, now), read, used)
    /\ UNCHANGED <<world, read, cutoff, latest, failed>>

\* Mutant: usage that could not be read counts as none.
ReadFailsForNothing ==
    /\ \/ phase = "asked" /\ failed' = "policy" /\ Answer("policy_unevaluable", Null, Null)
       \/ /\ phase \in {"loaded", "latest_read"}
          /\ failed' = "usage"
          /\ Answer(Evaluate(read, 0, now), read, 0)
    /\ UNCHANGED <<world, read, cutoff, latest>>

\* decide catches an sqlite3.Error: of the policy row, or of the usage total,
\* which is then unknown.
ReadFails ==
    /\ \/ phase = "asked" /\ failed' = "policy" /\ Answer("policy_unevaluable", Null, Null)
       \/ /\ phase \in {"loaded", "latest_read"}
          /\ failed' = "usage"
          /\ Answer(Evaluate(read, Null, now), read, Null)
    /\ UNCHANGED <<world, read, cutoff, latest>>

\* get_license, for a registered device: decide is entered, unless the SELECT of
\* the device raises an sqlite3.Error, which nothing catches.
Ask ==
    /\ phase \in {"idle", "answered"}
    /\ read' = Null
    /\ cutoff' = 0
    /\ latest' = 0
    /\ \/ phase' = "asked" /\ answer' = Null /\ failed' = "none"
       \/ Answer("internal_error", Null, Null) /\ failed' = "device"
    /\ UNCHANGED world

-----------------------------------------------------------------------------
Init ==
    /\ now = 0
    /\ work = <<>>
    /\ made = Null
    /\ reports = <<>>
    /\ row = Null
    /\ phase = "idle"
    /\ read = Null
    /\ cutoff = 0
    /\ latest = 0
    /\ answer = Null
    /\ failed = "none"

Next ==
    \/ Tick
    \/ DoWork
    \/ MakeReport
    \/ AcceptReport
    \/ \E r \in Rows \cup {Null} : EditPolicy(r)
    \/ Ask
    \/ LoadPolicy
    \/ ReadLatest
    \/ ReadBaseline
    \/ ReadFails

Spec == Init /\ [][Next]_vars

-----------------------------------------------------------------------------
(* Properties.                                                              *)

Allowed == answer # Null /\ answer.reason = "within_policy"

\* "Every path that cannot reach a confident allow returns deny" (policy.py): an
\* allow needs a row that was read and is active, a date, if there is one, that
\* has not passed, and a quota that was compared with the usage of a period.
AllowsAreConfident ==
    Allowed =>
        /\ answer.row # Null
        /\ answer.row.active # 0
        /\ answer.row.expires # Garbled
        /\ answer.row.expires \notin {Null, Empty} => answer.at <= answer.row.expires
        /\ answer.row.quota # Null =>
              /\ answer.row.quota # Garbled
              /\ answer.used # Null
              /\ answer.row.period \notin {Null, Garbled, 0}

\* Units of work done after the cutoff that the newest report had told of.
InPeriod == {n \in 1..latest : work[n] > cutoff}

\* A quota holds although the three reads are not one: an allow is never given
\* when the reports read show the quota done within the period.
QuotaHolds ==
    Allowed /\ answer.row.quota # Null => Cardinality(InPeriod) < answer.row.quota

\* Usage lapses: when a decision is made that charges a device with usage, no unit
\* of it was reported before the period by any report stored then, not only by the
\* one usage_in_period took for its baseline.
OldUsageLapses ==
    [][answer' \notin {answer, Null} /\ answer'.used \notin {Null, 0} =>
          \A n \in DOMAIN reports :
              Before(reports[n].end) => answer'.used + reports[n].count <= latest]_vars

\* What a request that is turned down is told.
Denials == {"no_policy_on_record", "not_activated", "expired", "quota_exceeded",
            "policy_unevaluable"}

\* "Every failure mode lands on deny" (policy.py decide), of its reads: if the
\* policy row or either half of the usage total cannot be read, the answer is a
\* denial, whatever the rest of the request had found; and a device that cannot be
\* read gets no allow either.
FailedReadsDeny ==
    /\ failed \in {"policy", "usage"} => answer.reason \in Denials
    /\ failed = "device" => ~ Allowed
====
