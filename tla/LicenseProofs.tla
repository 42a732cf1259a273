---- MODULE LicenseProofs ----
(***************************************************************************)
(* Theorems about License.tla for every set of column values and all       *)
(* bounds.  Only the last one, the quota itself, needs a meter that stamps *)
(* its reports with a calendar clock (WallClock).                          *)
(***************************************************************************)
EXTENDS License, FiniteSetTheorems, SequenceTheorems, WellFoundedInduction, TLAPS

-----------------------------------------------------------------------------
(* Types.                                                                   *)

Made == [count: Nat, end: Int]

\* The row a request goes on with has a quota and a period it can compute with.
Computable(r) ==
    /\ r \in Rows
    /\ r.quota \in Int /\ r.period \in Int /\ r.quota # Null
    /\ ~ Unevaluable(r)

TypeInv ==
    /\ now \in Nat
    /\ work \in Seq(Nat)
    /\ made = Null \/ made \in Made
    /\ reports \in Seq(Made)
    /\ row \in Rows \cup {Null}
    /\ read \in Rows \cup {Null}
    /\ phase \in {"idle", "asked", "loaded", "latest_read", "answered"}
    /\ cutoff \in Int
    /\ latest \in Nat
    /\ phase \in {"loaded", "latest_read"} => read # Null /\ Computable(read)

\* What an expiry date that counts as one is.
LEMMA DatesAreNumbers ==
    ASSUME NEW r \in Rows, r.expires \notin {Null, Empty, Garbled}
    PROVE  r.expires \in Int
BY LicenseAssumption DEF Rows

\* Each action keeps the types.
LEMMA TypeStep == TypeInv /\ [Next]_vars => TypeInv'
<1> SUFFICES ASSUME TypeInv, [Next]_vars PROVE TypeInv'
  OBVIOUS
<1> USE DEF TypeInv
<1>1. CASE Tick
  BY <1>1 DEF Tick, request
<1>2. CASE DoWork
  BY <1>2 DEF DoWork, request
<1>3. CASE MakeReport
  <2>1. made' \in Made
    BY <1>3 DEF MakeReport, Made
  <2> QED BY <1>3, <2>1 DEF MakeReport, request
<1>4. CASE AcceptReport
  BY <1>4 DEF AcceptReport, request
<1>5. ASSUME NEW r \in Rows \cup {Null}, EditPolicy(r) PROVE TypeInv'
  BY <1>5 DEF EditPolicy, request
<1>6. CASE Ask
  BY <1>6 DEF Ask, Answer, world
<1>7. CASE LoadPolicy
  <2>1. phase' \in {"answered", "loaded"} /\ read' \in Rows \cup {Null}
    BY <1>7 DEF LoadPolicy, Answer
  <2>2. ASSUME phase' = "loaded" PROVE read' # Null /\ Computable(read')
    <3>1. row # Null /\ ~ Unevaluable(row) /\ Metered(row) /\ row.period # Huge
      BY <1>7, <2>2 DEF LoadPolicy, Answer, Metered
    <3>2. row \in Rows
      BY <3>1
    <3>3. row.quota \in Int /\ row.period \in Int /\ row.quota # Null
      BY <3>1, <3>2, LicenseAssumption DEF Rows, Unevaluable, Metered
    <3> QED BY <1>7, <3>1, <3>2, <3>3 DEF LoadPolicy, Unevaluable, Computable
  <2> QED BY <1>7, <2>1, <2>2 DEF LoadPolicy, world
<1>8. CASE ReadLatest
  <2>1. cutoff' \in Int
    BY <1>8 DEF ReadLatest, Computable
  <2>2. latest' \in Nat
    <3>1. CASE reports = <<>>
      BY <1>8, <3>1 DEF ReadLatest
    <3>2. CASE reports # <<>>
      <4>1. reports[Len(reports)] \in Made
        BY <3>2
      <4> QED BY <1>8, <3>2, <4>1 DEF ReadLatest, Made
    <3> QED BY <3>1, <3>2
  <2> QED BY <1>8, <2>1, <2>2 DEF ReadLatest, Answer, world
<1>9. CASE ReadBaseline
  BY <1>9 DEF ReadBaseline, Answer, world
<1>10. CASE ReadFails
  BY <1>10 DEF ReadFails, Answer, world
<1>11. CASE UNCHANGED vars
  BY <1>11 DEF vars, world, request
<1> QED BY <1>1, <1>2, <1>3, <1>4, <1>5, <1>6, <1>7, <1>8, <1>9, <1>10, <1>11 DEF Next

LEMMA TypeInvariant == Spec => []TypeInv
<1>1. Init => TypeInv
  BY DEF Init, TypeInv
<1> QED BY <1>1, TypeStep, PTL DEF Spec

-----------------------------------------------------------------------------
(* What an allow rests on.                                                  *)

\* evaluate allows only an active row that is not out of date, and a quota only
\* after a comparison over a period.
LEMMA Confident ==
    ASSUME NEW r, NEW used, NEW today, Evaluate(r, used, today) = "within_policy"
    PROVE  /\ r # Null /\ r.active # 0 /\ ~ Expired(r, today)
           /\ r.quota # Null => r.period # Null /\ ~ r.period <= 0 /\ used # Null
                                /\ ~ used >= r.quota
BY DEF Evaluate

\* A decision, if there is one, was made from a row of the table.
AnswerInv ==
    /\ answer # Null => answer.row \in Rows \cup {Null} /\ answer.at \in Nat
    /\ AllowsAreConfident

\* A decision that evaluate reached from a row without garbled text.
LEMMA AnswerConfident ==
    ASSUME TypeInv, NEW r \in Rows \cup {Null}, NEW used,
           Answer(Evaluate(r, used, now), r, used),
           r # Null => /\ r.expires # Garbled
                       /\ r.quota # Null /\ r.period \notin {Null, 0}
                             => r.quota # Garbled /\ r.period # Garbled
    PROVE  AnswerInv'
<1>1. answer' = [reason |-> Evaluate(r, used, now), row |-> r, used |-> used, at |-> now]
  BY DEF Answer
<1>2. now \in Nat
  BY DEF TypeInv
<1>3. ASSUME Evaluate(r, used, now) = "within_policy"
      PROVE  /\ r # Null /\ r.active # 0 /\ r.expires # Garbled
             /\ r.expires \notin {Null, Empty} => now <= r.expires
             /\ r.quota # Null => /\ r.quota # Garbled /\ used # Null
                                  /\ r.period \notin {Null, Garbled, 0}
  <2>1. /\ r # Null /\ r.active # 0 /\ ~ Expired(r, now)
        /\ r.quota # Null => r.period # Null /\ ~ r.period <= 0 /\ used # Null
    BY <1>3, Confident
  <2>2. ASSUME r.expires \notin {Null, Empty} PROVE now <= r.expires
    <3>1. r.expires \in Int
      BY <2>1, <2>2, DatesAreNumbers
    <3> QED BY <1>2, <2>1, <2>2, <3>1 DEF Expired
  <2> QED BY <2>1, <2>2
<1> QED BY <1>1, <1>2, <1>3 DEF AnswerInv, AllowsAreConfident, Allowed

\* A denial without a look at anything.
LEMMA DenialConfident ==
    ASSUME TypeInv, NEW r \in Rows \cup {Null}, NEW reason, Answer(reason, r, Null),
           reason # "within_policy"
    PROVE  AnswerInv'
BY DEF TypeInv, Answer, AnswerInv, AllowsAreConfident, Allowed

LEMMA AnswerStep == TypeInv /\ AnswerInv /\ [Next]_vars => AnswerInv'
<1> SUFFICES ASSUME TypeInv, AnswerInv, [Next]_vars PROVE AnswerInv'
  OBVIOUS
<1>1. ASSUME UNCHANGED answer PROVE AnswerInv'
  BY <1>1 DEF AnswerInv, AllowsAreConfident, Allowed
<1>2. ASSUME answer' = Null PROVE AnswerInv'
  BY <1>2 DEF AnswerInv, AllowsAreConfident, Allowed
<1>3. CASE LoadPolicy
  <2>1. row \in Rows \cup {Null}
    BY DEF TypeInv
  <2>2. CASE row # Null /\ Unevaluable(row)
    BY <1>3, <2>1, <2>2, DenialConfident DEF LoadPolicy
  <2>3. CASE ~ (row # Null /\ Unevaluable(row)) /\ ~ Metered(row)
    BY <1>3, <2>1, <2>3, AnswerConfident DEF LoadPolicy, Metered, Unevaluable
  <2>4. CASE ~ (row # Null /\ Unevaluable(row)) /\ Metered(row) /\ row.period = Huge
    BY <1>3, <2>1, <2>4, DenialConfident DEF LoadPolicy
  <2>5. CASE ~ (row # Null /\ Unevaluable(row)) /\ Metered(row) /\ row.period # Huge
    BY <1>1, <1>3, <2>5 DEF LoadPolicy
  <2> QED BY <2>2, <2>3, <2>4, <2>5
<1>4. CASE ReadLatest
  <2>1. read \in Rows /\ ~ Unevaluable(read)
    BY <1>4 DEF ReadLatest, TypeInv, Computable
  <2>2. ASSUME Answer(Evaluate(read, 0, now), read, 0) PROVE AnswerInv'
    BY <2>1, <2>2, AnswerConfident DEF Unevaluable
  <2> QED BY <1>1, <1>4, <2>2 DEF ReadLatest
<1>5. CASE ReadBaseline
  <2>1. read \in Rows /\ ~ Unevaluable(read)
    BY <1>5 DEF ReadBaseline, TypeInv, Computable
  <2> DEFINE used == IF latest < Baseline THEN 0 ELSE latest - Baseline
  <2>2. Answer(Evaluate(read, used, now), read, used)
    BY <1>5 DEF ReadBaseline
  <2> HIDE DEF used
  <2> QED BY <2>1, <2>2, AnswerConfident DEF Unevaluable
<1>6. CASE ReadFails
  <2>1. CASE Answer("policy_unevaluable", Null, Null)
    BY <2>1, DenialConfident
  <2>2. CASE phase \in {"loaded", "latest_read"} /\ Answer(Evaluate(read, Null, now), read, Null)
    <3>1. read \in Rows /\ ~ Unevaluable(read)
      BY <2>2 DEF TypeInv, Computable
    <3> QED BY <2>2, <3>1, AnswerConfident DEF Unevaluable
  <2> QED BY <1>6, <2>1, <2>2 DEF ReadFails
<1>7. CASE Ask
  <2>1. ASSUME Answer("internal_error", Null, Null) PROVE AnswerInv'
    BY <2>1, DenialConfident
  <2> QED BY <1>2, <1>7, <2>1 DEF Ask
<1> QED BY <1>1, <1>3, <1>4, <1>5, <1>6, <1>7
        DEF Next, Tick, DoWork, MakeReport, AcceptReport, EditPolicy, vars, request

\* An allow always rests on an active row that was read, is not out of date, and
\* whose quota, if it has one, was compared with the usage of a period
\* (policy.py), whatever the operator edits between the reads.
THEOREM AllowsConfident == Spec => []AllowsAreConfident
<1>1. Init => AnswerInv
  BY DEF Init, AnswerInv, AllowsAreConfident, Allowed
<1>2. AnswerInv => AllowsAreConfident
  BY DEF AnswerInv
<1> QED BY <1>1, <1>2, AnswerStep, TypeInvariant, PTL DEF Spec

\* A request that is still under way has had no failed read.
FailInv ==
    /\ phase \in {"idle", "asked", "loaded", "latest_read"} => failed = "none"
    /\ FailedReadsDeny

\* Without a usage total, a row with a quota is turned down.
LEMMA UnknownUsageDenied ==
    ASSUME NEW r \in Rows, r # Null, r.quota # Null, NEW today
    PROVE  Evaluate(r, Null, today) \in Denials
BY DEF Evaluate, Denials

LEMMA FailStep == TypeInv /\ FailInv /\ [Next]_vars => FailInv'
<1> SUFFICES ASSUME TypeInv, FailInv, [Next]_vars PROVE FailInv'
  OBVIOUS
<1> USE DEF FailInv, FailedReadsDeny
<1>1. ASSUME failed = "none", failed' = "none" PROVE FailInv'
  BY <1>1
<1>2. CASE Ask
  <2>1. ASSUME failed' = "device", Answer("internal_error", Null, Null) PROVE FailInv'
    BY <2>1 DEF Answer, Allowed
  <2> QED BY <1>2, <2>1 DEF Ask
<1>3. CASE LoadPolicy \/ ReadLatest \/ ReadBaseline
  BY <1>1, <1>3 DEF LoadPolicy, ReadLatest, ReadBaseline
<1>4. CASE ReadFails
  <2>1. CASE failed' = "policy" /\ Answer("policy_unevaluable", Null, Null)
    <3>1. phase' = "answered" /\ answer'.reason = "policy_unevaluable"
      BY <2>1 DEF Answer
    <3> QED BY <2>1, <3>1 DEF Denials
  <2>2. CASE /\ phase \in {"loaded", "latest_read"}
             /\ failed' = "usage" /\ Answer(Evaluate(read, Null, now), read, Null)
    <3>1. read \in Rows /\ read # Null /\ read.quota # Null
      BY <2>2 DEF TypeInv, Computable
    <3>2. Evaluate(read, Null, now) \in Denials
      BY <3>1, UnknownUsageDenied
    <3>3. phase' = "answered" /\ answer'.reason \in Denials
      BY <2>2, <3>2 DEF Answer
    <3> QED BY <2>2, <3>3
  <2> QED BY <1>4, <2>1, <2>2 DEF ReadFails
<1>5. CASE UNCHANGED request
  BY <1>5 DEF request, Allowed
<1> QED BY <1>2, <1>3, <1>4, <1>5
        DEF Next, Tick, DoWork, MakeReport, AcceptReport, EditPolicy, vars

\* Whichever of decide's reads fails, and whatever the others have found, the
\* request is answered with a denial; one whose device cannot be read is not
\* answered with an allow (policy.py decide, app.py get_license).
THEOREM FailuresDenied == Spec => []FailedReadsDeny
<1>1. Init => FailInv
  BY DEF Init, FailInv, FailedReadsDeny
<1>2. FailInv => FailedReadsDeny
  BY DEF FailInv
<1> QED BY <1>1, <1>2, FailStep, TypeInvariant, PTL DEF Spec

-----------------------------------------------------------------------------
(* What the reports say.                                                    *)

\* A non-empty set of indices has a largest one.
LEMMA LargestIndex ==
    ASSUME NEW n \in Nat, NEW S \in SUBSET (1..n), S # {}
    PROVE  \E m \in S : \A k \in S : k <= m
<1> DEFINE T == {n - k : k \in S}
<1>1. T \subseteq Nat
  OBVIOUS
<1>2. T # {}
  <2>1. PICK k \in S : TRUE
    OBVIOUS
  <2>2. n - k \in T
    OBVIOUS
  <2> QED BY <2>2
<1>3. PICK x \in T : \A y \in T : ~ (<<y, x>> \in OpToRel(<, Nat))
  <2> HIDE DEF T
  <2> QED BY <1>1, <1>2, NatLessThanWellFounded, WFMin, Zenon
<1>4. PICK m \in S : x = n - m
  OBVIOUS
<1>5. ASSUME NEW k \in S PROVE k <= m
  <2>1. n - k \in T /\ n - k \in Nat /\ x \in Nat
    BY <1>1
  <2>2. ~ (n - k < x)
    BY <1>3, <2>1 DEF OpToRel
  <2> QED BY <2>2, <1>4
<1> QED BY <1>5

\* The baseline is the count of the newest report from before the cutoff.
LEMMA BaselineIsNewest ==
    ASSUME TypeInv
    PROVE  \/ Baseline = 0 /\ \A n \in DOMAIN reports : ~ Before(reports[n].end)
           \/ \E n \in DOMAIN reports :
                 /\ Before(reports[n].end) /\ Baseline = reports[n].count
                 /\ \A m \in DOMAIN reports : Before(reports[m].end) => m <= n
<1> DEFINE earlier == {n \in DOMAIN reports : Before(reports[n].end)}
<1>1. CASE earlier = {}
  BY <1>1 DEF Baseline
<1>2. CASE earlier # {}
  <2>1. Len(reports) \in Nat /\ earlier \in SUBSET (1..Len(reports))
    BY DEF TypeInv
  <2>2. \E m \in earlier : \A k \in earlier : k <= m
    BY <1>2, <2>1, LargestIndex
  <2> DEFINE last == CHOOSE n \in earlier : \A m \in earlier : m <= n
  <2>3. last \in earlier /\ \A m \in earlier : m <= last
    BY <2>2
  <2>4. Baseline = reports[last].count
    BY <1>2 DEF Baseline
  <2> QED BY <2>3, <2>4
<1> QED BY <1>1, <1>2

\* What a stored report carries.
LEMMA ReportNumbers ==
    ASSUME TypeInv
    PROVE  \A n \in DOMAIN reports : reports[n].count \in Nat /\ reports[n].end \in Int
<1> TAKE n \in DOMAIN reports
<1>1. reports[n] \in Made
  BY DEF TypeInv
<1> QED BY <1>1 DEF Made

\* Counts rise from report to report, and none is ahead of the work done.
ReportsInv ==
    /\ \A n \in DOMAIN reports : reports[n].count <= Len(work)
    /\ \A m, n \in DOMAIN reports : m <= n => reports[m].count <= reports[n].count
    /\ made # Null => /\ made.count <= Len(work)
                      /\ \A n \in DOMAIN reports : reports[n].count <= made.count

LEMMA ReportsStep == TypeInv /\ ReportsInv /\ [Next]_vars => ReportsInv'
<1> SUFFICES ASSUME TypeInv, ReportsInv, [Next]_vars PROVE ReportsInv'
  OBVIOUS
<1> USE DEF ReportsInv
<1>1. CASE DoWork
  <2>1. Len(work) \in Nat /\ Len(work') = Len(work) + 1 /\ reports' = reports /\ made' = made
    BY <1>1 DEF DoWork, TypeInv
  <2>2. made # Null => made.count \in Nat
    BY DEF TypeInv, Made
  <2> QED BY <2>1, <2>2, ReportNumbers
<1>2. CASE MakeReport
  BY <1>2 DEF MakeReport, TypeInv, Made
<1>3. CASE AcceptReport
  <2>1. made \in Made /\ reports \in Seq(Made) /\ Len(work) \in Nat
    BY <1>3 DEF AcceptReport, TypeInv
  <2>2. /\ reports' = Append(reports, made) /\ made' = Null /\ work' = work
        /\ DOMAIN reports' = 1..Len(reports) + 1 /\ DOMAIN reports = 1..Len(reports)
        /\ Len(reports) \in Nat
    BY <1>3, <2>1 DEF AcceptReport
  <2>3. \A n \in DOMAIN reports : reports'[n] = reports[n] /\ reports[n].count \in Nat
    BY <2>1, <2>2, ReportNumbers
  <2>4. reports'[Len(reports) + 1] = made /\ made.count \in Nat
    BY <2>1, <2>2 DEF Made
  <2>5. \A n \in DOMAIN reports' : n \in DOMAIN reports \/ n = Len(reports) + 1
    BY <2>2
  <2>6. made.count <= Len(work) /\ \A n \in DOMAIN reports : reports[n].count <= made.count
    BY <1>3 DEF AcceptReport
  <2>7. \A n \in DOMAIN reports' : reports'[n].count <= Len(work)
    BY <2>3, <2>4, <2>5, <2>6
  <2>8. ASSUME NEW m \in DOMAIN reports', NEW n \in DOMAIN reports', m <= n
        PROVE  reports'[m].count <= reports'[n].count
    BY <2>2, <2>3, <2>4, <2>5, <2>6, <2>8
  <2> QED BY <2>2, <2>7, <2>8
<1>4. CASE UNCHANGED <<work, made, reports>>
  BY <1>4
<1> QED BY <1>1, <1>2, <1>3, <1>4
        DEF Next, Tick, EditPolicy, Ask, LoadPolicy, ReadLatest, ReadBaseline, ReadFails,
            vars, world, request

LEMMA ReportsInvariant == Spec => [](TypeInv /\ ReportsInv)
<1>1. Init => ReportsInv
  BY DEF Init, ReportsInv
<1> QED BY <1>1, ReportsStep, TypeInvariant, PTL DEF Spec

-----------------------------------------------------------------------------
(* Usage lapses.                                                            *)

\* What a request has read so far, and that it has not been answered yet.
LapseInv ==
    /\ phase \in {"asked", "loaded", "latest_read"} => answer = Null
    /\ phase = "latest_read" => \E n \in DOMAIN reports : reports[n].count = latest

\* No report from before the cutoff has a count above the baseline.
LEMMA BaselineIsHighest ==
    ASSUME TypeInv, ReportsInv, NEW n \in DOMAIN reports, Before(reports[n].end)
    PROVE  reports[n].count <= Baseline
<1>1. PICK m \in DOMAIN reports : Baseline = reports[m].count /\ n <= m
  BY BaselineIsNewest
<1> QED BY <1>1 DEF ReportsInv

LEMMA LapseStep == TypeInv /\ ReportsInv /\ LapseInv /\ [Next]_vars => LapseInv'
<1> SUFFICES ASSUME TypeInv, ReportsInv, LapseInv, [Next]_vars PROVE LapseInv'
  OBVIOUS
<1> USE DEF LapseInv
<1>1. CASE AcceptReport
  <2>1. made \in Made /\ reports \in Seq(Made) /\ reports' = Append(reports, made)
    BY <1>1 DEF AcceptReport, TypeInv
  <2>2. \A n \in DOMAIN reports : n \in DOMAIN reports' /\ reports'[n] = reports[n]
    BY <2>1
  <2> QED BY <1>1, <2>2 DEF AcceptReport, request
<1>2. CASE Ask
  BY <1>2 DEF Ask, Answer
<1>3. CASE LoadPolicy
  BY <1>3 DEF LoadPolicy, Answer, world
<1>4. CASE ReadLatest
  <2>1. CASE reports = <<>>
    BY <1>4, <2>1 DEF ReadLatest, Answer, world
  <2>2. CASE reports # <<>>
    <3>1. Len(reports) \in DOMAIN reports
      BY <2>2 DEF TypeInv
    <3> QED BY <1>4, <2>2, <3>1 DEF ReadLatest, world
  <2> QED BY <2>1, <2>2
<1>5. CASE ReadBaseline
  BY <1>5 DEF ReadBaseline, Answer
<1>6. CASE ReadFails
  BY <1>6 DEF ReadFails, Answer, world
<1>7. CASE UNCHANGED <<reports, request>>
  BY <1>7 DEF request
<1> QED BY <1>1, <1>2, <1>3, <1>4, <1>5, <1>6, <1>7
        DEF Next, Tick, DoWork, MakeReport, EditPolicy, vars, world

\* When a decision charges a device with usage, none of it was reported before
\* the period by any report stored then, whatever arrives between the reads
\* (usage_in_period).
THEOREM UsageLapses == Spec => OldUsageLapses
<1> DEFINE Lapses == answer' \notin {answer, Null} /\ answer'.used \notin {Null, 0} =>
                        \A n \in DOMAIN reports :
                            Before(reports[n].end) => answer'.used + reports[n].count <= latest
<1>1. TypeInv /\ ReportsInv /\ [Next]_vars => [Lapses]_vars
  <2> SUFFICES ASSUME TypeInv, ReportsInv, [Next]_vars PROVE Lapses
    OBVIOUS
  <2>1. CASE ReadBaseline
    <3>1. Baseline \in Nat /\ latest \in Nat
      BY BaselineIsNewest, ReportNumbers DEF TypeInv
    <3>2. answer'.used = IF latest < Baseline THEN 0 ELSE latest - Baseline
      BY <2>1 DEF ReadBaseline, Answer
    <3>3. \A n \in DOMAIN reports : Before(reports[n].end) =>
             reports[n].count \in Nat /\ reports[n].count <= Baseline
      BY BaselineIsHighest, ReportNumbers
    <3> QED BY <3>1, <3>2, <3>3
  <2>2. CASE LoadPolicy \/ ReadFails \/ Ask
    <3>1. answer' \in {answer, Null} \/ answer'.used = Null
      BY <2>2 DEF LoadPolicy, ReadFails, Ask, Answer
    <3> QED BY <3>1
  <2>3. CASE ReadLatest
    <3>1. answer' = answer \/ answer'.used = 0
      BY <2>3 DEF ReadLatest, Answer
    <3> QED BY <3>1
  <2>4. CASE answer' = answer
    BY <2>4
  <2> QED BY <2>1, <2>2, <2>3, <2>4
          DEF Next, Tick, DoWork, MakeReport, AcceptReport, EditPolicy, vars, request
<1>2. Spec => [][Lapses]_vars
  <2> HIDE DEF Lapses
  <2> QED BY <1>1, ReportsInvariant, PTL DEF Spec
<1> QED BY <1>2 DEF OldUsageLapses

-----------------------------------------------------------------------------
(* The quota.                                                               *)

\* Of a meter with a calendar clock, a report tells of work done by its end.
ClockInv ==
    /\ \A i \in 1..Len(work) : work[i] <= now
    /\ made # Null => \A i \in 1..made.count : work[i] <= made.end
    /\ \A n \in DOMAIN reports : \A i \in 1..reports[n].count : work[i] <= reports[n].end

LEMMA ClockStep ==
    WallClock = TRUE => (TypeInv /\ ReportsInv /\ ClockInv /\ [Next]_vars => ClockInv')
<1> SUFFICES ASSUME WallClock = TRUE, TypeInv, ReportsInv, ClockInv, [Next]_vars
             PROVE  ClockInv'
  OBVIOUS
<1> USE DEF ClockInv
<1>1. /\ now \in Nat /\ Len(work) \in Nat
      /\ \A i \in 1..Len(work) : work[i] \in Nat
      /\ made # Null => made.count \in Nat /\ made.end \in Int
      /\ \A n \in DOMAIN reports : reports[n].count \in Nat /\ reports[n].end \in Int
  BY ReportNumbers DEF TypeInv, Made
<1>2. CASE Tick
  BY <1>1, <1>2 DEF Tick, ReportsInv
<1>3. CASE DoWork
  <2>1. /\ Len(work') = Len(work) + 1 /\ work'[Len(work) + 1] = now
        /\ \A i \in 1..Len(work) : work'[i] = work[i]
        /\ UNCHANGED <<now, made, reports>>
    BY <1>3 DEF DoWork, TypeInv
  <2> QED BY <1>1, <2>1 DEF ReportsInv
<1>4. CASE MakeReport
  <2>1. made' = [count |-> Len(work), end |-> now] /\ UNCHANGED <<now, work, reports>>
    BY <1>4 DEF MakeReport
  <2> QED BY <1>1, <2>1
<1>5. CASE AcceptReport
  <2>1. /\ made \in Made /\ made # Null /\ reports' = Append(reports, made) /\ made' = Null
        /\ UNCHANGED <<now, work>>
    BY <1>5 DEF AcceptReport, TypeInv
  <2>2. \A n \in DOMAIN reports' : \/ n \in DOMAIN reports /\ reports'[n] = reports[n]
                                  \/ reports'[n] = made
    BY <2>1 DEF TypeInv
  <2> QED BY <2>1, <2>2
<1>6. CASE UNCHANGED <<now, work, made, reports>>
  BY <1>6
<1> QED BY <1>2, <1>3, <1>4, <1>5, <1>6
        DEF Next, EditPolicy, Ask, LoadPolicy, ReadLatest, ReadBaseline, ReadFails,
            vars, world, request

\* A decision speaks of work that was done, and the quota holds for it.
QuotaInv ==
    /\ latest <= Len(work)
    /\ QuotaHolds

\* What is done in the period is not more than what it is charged with.
LEMMA PeriodIsCharged ==
    ASSUME TypeInv, ReportsInv, ClockInv, latest <= Len(work)
    PROVE  /\ Cardinality(InPeriod) \in Nat
           /\ latest < Baseline => Cardinality(InPeriod) = 0
           /\ ~ latest < Baseline => Cardinality(InPeriod) <= latest - Baseline
<1>1. Baseline \in Nat /\ latest \in Nat /\ cutoff \in Int /\ Len(work) \in Nat
  BY BaselineIsNewest, ReportNumbers DEF TypeInv
<1>2. \A i \in 1..Baseline : i <= latest => work[i] <= cutoff
  <2>1. CASE Baseline = 0
    BY <2>1
  <2>2. CASE \E n \in DOMAIN reports : Before(reports[n].end) /\ Baseline = reports[n].count
    <3>1. PICK n \in DOMAIN reports : Before(reports[n].end) /\ Baseline = reports[n].count
      BY <2>2
    <3> SUFFICES ASSUME NEW i \in 1..Baseline, i <= latest PROVE work[i] <= cutoff
      OBVIOUS
    <3>2. work[i] <= reports[n].end /\ reports[n].end \in Int /\ reports[n].end <= cutoff
      BY <3>1, ReportNumbers DEF ClockInv, Before
    <3>3. i \in 1..Len(work)
      BY <1>1
    <3>4. work[i] \in Nat
      BY <3>3 DEF TypeInv
    <3> QED BY <1>1, <3>2, <3>4
  <2> QED BY <2>1, <2>2, BaselineIsNewest
<1>3. \A i \in 1..Len(work) : work[i] \in Nat
  BY DEF TypeInv
<1>4. InPeriod \subseteq Baseline + 1..latest
  BY <1>1, <1>2, <1>3 DEF InPeriod
<1>5. /\ IsFiniteSet(Baseline + 1..latest)
      /\ Cardinality(Baseline + 1..latest) =
            IF Baseline + 1 > latest THEN 0 ELSE latest - (Baseline + 1) + 1
  <2>1. Baseline + 1 \in Int /\ latest \in Int
    BY <1>1
  <2> QED BY <2>1, FS_Interval
<1>6. /\ IsFiniteSet(InPeriod)
      /\ Cardinality(InPeriod) <= Cardinality(Baseline + 1..latest)
  BY <1>4, <1>5, FS_Subset
<1>7. Cardinality(InPeriod) \in Nat
  BY <1>6, FS_CardinalityType
<1> QED BY <1>1, <1>5, <1>6, <1>7

LEMMA QuotaStep ==
    TypeInv /\ ReportsInv /\ ClockInv /\ LapseInv /\ QuotaInv /\ [Next]_vars => QuotaInv'
<1> SUFFICES ASSUME TypeInv, ReportsInv, ClockInv, LapseInv, QuotaInv, [Next]_vars
             PROVE  QuotaInv'
  OBVIOUS
<1>1. latest \in Nat /\ Len(work) \in Nat
  BY DEF TypeInv
<1>2. CASE DoWork
  <2>1. Len(work') = Len(work) + 1 /\ \A i \in 1..Len(work) : work'[i] = work[i]
    BY <1>2 DEF DoWork, TypeInv
  <2>2. InPeriod' = InPeriod
    BY <1>1, <1>2, <2>1 DEF DoWork, InPeriod, QuotaInv, request
  <2> QED BY <1>1, <1>2, <2>1, <2>2 DEF DoWork, QuotaInv, QuotaHolds, Allowed, request
<1>3. CASE Ask
  BY <1>1, <1>3 DEF Ask, Answer, QuotaInv, QuotaHolds, Allowed, world
<1>4. ASSUME NEW r, NEW used, Answer(Evaluate(r, used, now), r, used),
             r # Null /\ r.quota # Null /\ used # Null /\ ~ used >= r.quota
               => Cardinality(InPeriod') < r.quota
      PROVE  QuotaHolds'
  BY <1>4, Confident DEF Answer, QuotaHolds, Allowed
<1>5. ASSUME NEW r, NEW reason, Answer(reason, r, Null), reason # "within_policy"
      PROVE  QuotaHolds'
  BY <1>5 DEF Answer, QuotaHolds, Allowed
<1>6. CASE LoadPolicy
  <2>1. latest' <= Len(work')
    BY <1>6 DEF LoadPolicy, world, QuotaInv
  <2>2. ASSUME phase' = "loaded" PROVE QuotaHolds'
    <3>1. answer' = answer /\ answer = Null
      BY <1>6, <2>2 DEF LoadPolicy, Answer, LapseInv
    <3> QED BY <3>1 DEF QuotaHolds, Allowed
  <2>3. ASSUME phase' # "loaded" PROVE QuotaHolds'
    <3>1. CASE Answer("policy_unevaluable", row, Null)
      BY <1>5, <3>1
    <3>2. CASE Answer(Evaluate(row, Null, now), row, Null)
      BY <1>4, <3>2
    <3>3. CASE Answer("internal_error", row, Null)
      BY <1>5, <3>3
    <3> QED BY <1>6, <2>3, <3>1, <3>2, <3>3 DEF LoadPolicy
  <2> QED BY <2>1, <2>2, <2>3 DEF QuotaInv
<1>7. CASE ReadLatest
  <2>1. CASE reports = <<>>
    <3>1. latest' = 0 /\ work' = work /\ Answer(Evaluate(read, 0, now), read, 0)
      BY <1>7, <2>1 DEF ReadLatest, world
    <3>2. InPeriod' = {}
      BY <3>1 DEF InPeriod
    <3>3. Cardinality(InPeriod') = 0
      BY <3>2, FS_EmptySet
    <3>4. read.quota \in Int
      BY <1>7 DEF ReadLatest, TypeInv, Computable
    <3>5. ~ 0 >= read.quota => Cardinality(InPeriod') < read.quota
      BY <3>3, <3>4
    <3> QED BY <1>1, <1>4, <3>1, <3>5 DEF QuotaInv
  <2>2. CASE reports # <<>>
    <3>1. Len(reports) \in DOMAIN reports
      BY <2>2 DEF TypeInv
    <3>2. latest' <= Len(work')
      BY <1>7, <2>2, <3>1 DEF ReadLatest, world, ReportsInv
    <3>3. answer' = Null
      BY <1>7, <2>2 DEF ReadLatest, LapseInv
    <3> QED BY <3>2, <3>3 DEF QuotaInv, QuotaHolds, Allowed
  <2> QED BY <2>1, <2>2
<1>8. CASE ReadBaseline
  <2> DEFINE used == IF latest < Baseline THEN 0 ELSE latest - Baseline
  <2>1. Answer(Evaluate(read, used, now), read, used) /\ UNCHANGED <<work, cutoff, latest>>
    BY <1>8 DEF ReadBaseline, world
  <2>2. InPeriod' = InPeriod
    BY <2>1 DEF InPeriod
  <2>3. Baseline \in Nat
    BY BaselineIsNewest, ReportNumbers
  <2>4. Cardinality(InPeriod) \in Nat /\ used \in Nat /\ Cardinality(InPeriod) <= used
    BY <1>1, <2>3, PeriodIsCharged DEF QuotaInv
  <2>5. read.quota \in Int
    BY <1>8 DEF ReadBaseline, TypeInv, Computable
  <2> HIDE DEF used
  <2>6. ~ used >= read.quota => Cardinality(InPeriod') < read.quota
    BY <2>2, <2>4, <2>5
  <2> QED BY <1>4, <2>1, <2>6 DEF QuotaInv
<1>9. CASE ReadFails
  <2>1. latest' <= Len(work')
    BY <1>9 DEF ReadFails, world, QuotaInv
  <2> QED BY <1>4, <1>5, <1>9, <2>1 DEF ReadFails, QuotaInv
<1>10. CASE UNCHANGED <<work, request>>
  BY <1>10 DEF QuotaInv, QuotaHolds, Allowed, InPeriod, request
<1> QED BY <1>2, <1>3, <1>6, <1>7, <1>8, <1>9, <1>10
        DEF Next, Tick, MakeReport, AcceptReport, EditPolicy, vars, world

\* For a meter that stamps its reports with the date by the backend's clock (the
\* gateway's cmd_report, no firmware meter), an allow is never given when the newest
\* report that was read tells of as much work within the period as the quota,
\* although the three reads are not one (usage_in_period).
THEOREM QuotaKept == WallClock = TRUE => (Spec => []QuotaHolds)
<1> SUFFICES ASSUME WallClock = TRUE PROVE Spec => []QuotaHolds
  OBVIOUS
<1>1. Init => ClockInv /\ LapseInv /\ QuotaInv
  BY DEF Init, ClockInv, LapseInv, QuotaInv, QuotaHolds, Allowed
<1>2. TypeInv /\ ReportsInv /\ ClockInv /\ [Next]_vars => ClockInv'
  BY ClockStep
<1>3. QuotaInv => QuotaHolds
  BY DEF QuotaInv
<1> QED BY <1>1, <1>2, <1>3, LapseStep, QuotaStep, ReportsInvariant, PTL DEF Spec
====
