---- MODULE DeliveryProofs ----
(***************************************************************************)
(* Theorems about Delivery.tla for every number of processes, threads,     *)
(* devices, attempts and faults.                                           *)
(***************************************************************************)
EXTENDS Delivery, FiniteSetTheorems, TLAPS

-----------------------------------------------------------------------------
(* Types.                                                                   *)

\* TypeOK with the types of Backend's variables, and the key that nobody changes.
TypeInv ==
    /\ TypeOK
    /\ publicKey = [d \in Devices |-> MeterKey]
    /\ lastSequence \in [Devices -> Sequences \cup {-1}]
    /\ lastCount \in [Devices -> Counts \cup {0}]
    /\ rows \subseteq B!Reports
    /\ verified \in [Threads -> B!Reports \cup {None}]

LEMMA CopyTypes ==
    ASSUME NEW c \in Copies
    PROVE  /\ c.report \in Meter!Readings /\ c.attempt \in 1..MaxAttempts
           /\ Body(c) \in B!Reports /\ Body(c) # None /\ B!Reading(Body(c)) = c.report
<1>1. c.report \in Meter!Readings /\ c.attempt \in 1..MaxAttempts
  BY DEF Copies
<1>2. Body(c) \in B!Reports
  BY <1>1, DeliveryAssumption DEF Body, B!Reports, B!Signatures, Meter!Readings
<1>3. Body(c) # None
  BY <1>2, DeliveryAssumption DEF B!BackendAssumption
<1>4. B!Reading(Body(c)) = c.report
  BY <1>1 DEF Body, B!Reading, Meter!Readings
<1> QED BY <1>1, <1>2, <1>3, <1>4

LEMMA StatusTypes == \A code : StatusOf(code) \in Statuses
BY DEF StatusOf, Statuses

LEMMA RespondTypes ==
    ASSUME TypeInv, NEW c \in Copies, NEW status \in Statuses, Respond(c, status),
           UNCHANGED posting
    PROVE  /\ answer' \in [Posters -> Statuses \cup {None}]
           /\ \A p \in Posters : posting[p] = None => answer'[p] = None
BY DeliveryAssumption DEF Respond, TypeInv, TypeOK

LEMMA SendTypes ==
    ASSUME TypeInv, NEW p \in Posters, NEW x \in Meter!Readings, NEW n \in 1..MaxAttempts,
           Send(p, x, n)
    PROVE  /\ posting' \in [Posters -> Copies \cup {None}]
           /\ answer' \in [Posters -> Statuses \cup {None}]
           /\ \A q \in Posters : posting'[q] = None => answer'[q] = None
           /\ flying' \subseteq Copies
<1>1. [report |-> x, attempt |-> n] \in Copies
  BY DEF Copies
<1> QED BY <1>1 DEF Send, TypeInv, TypeOK

LEMMA FinishTypes ==
    ASSUME TypeInv, NEW p \in Posters, NEW outcome, Finish(p, outcome)
    PROVE  /\ posting' \in [Posters -> Copies \cup {None}]
           /\ answer' \in [Posters -> Statuses \cup {None}]
           /\ \A q \in Posters : posting'[q] = None => answer'[q] = None
           /\ flying' \subseteq Copies
BY DEF Finish, TypeInv, TypeOK

LEMMA NextAttemptTypes ==
    ASSUME TypeInv, NEW p \in Posters, posting[p] # None, NextAttempt(p)
    PROVE  /\ posting' \in [Posters -> Copies \cup {None}]
           /\ answer' \in [Posters -> Statuses \cup {None}]
           /\ \A q \in Posters : posting'[q] = None => answer'[q] = None
           /\ flying' \subseteq Copies
<1>1. posting[p] \in Copies
  BY DEF TypeInv, TypeOK
<1>2. CASE Finish(p, "undelivered")
  BY <1>2, FinishTypes
<1>3. CASE ~ Exhausted(posting[p].attempt)
           /\ Send(p, posting[p].report, posting[p].attempt + 1)
  <2>1. posting[p].attempt + 1 \in 1..MaxAttempts
    BY <1>1, <1>3, CopyTypes, DeliveryAssumption DEF Exhausted
  <2> QED BY <1>1, <1>3, <2>1, CopyTypes, SendTypes
<1> QED BY <1>2, <1>3 DEF NextAttempt

\* What a step does to the tables: a thread stores the report of its copy, or
\* nothing is stored.
CommitStep(t) ==
    /\ serving[t] # None
    /\ ~ B!SequenceStored(Body(serving[t]))
    /\ B!CommitReport(Body(serving[t]))

LEMMA StoreSteps ==
    ASSUME TypeInv, NEW t \in Threads, Store(t)
    PROVE  /\ serving[t] \in Copies /\ verified[t] = Body(serving[t])
           /\ serving' = [serving EXCEPT ![t] = None]
           /\ verified' = [verified EXCEPT ![t] = None]
           /\ UNCHANGED <<publicKey, made, unsent, posting, flying, results, calm, faults>>
           /\ \/ CommitStep(t) /\ Respond(serving[t], 200)
              \/ /\ B!SequenceStored(Body(serving[t])) /\ Respond(serving[t], 409)
                 /\ UNCHANGED <<lastSequence, lastCount, rows>>
<1>1. serving[t] \in Copies /\ serving[t] # None /\ verified[t] = Body(serving[t])
  BY DEF Store, TypeInv, TypeOK
<1>2. StatusOf("accepted") = 200 /\ StatusOf("replay_or_rollback_sequence") = 409
  BY DEF StatusOf
<1>3. /\ serving' = [serving EXCEPT ![t] = None]
      /\ verified' = [verified EXCEPT ![t] = None]
      /\ UNCHANGED <<publicKey, made, unsent, posting, flying, results, calm, faults>>
  BY DEF Store, B!StoreReport
<1>4. CASE B!SequenceStored(verified[t])
  BY <1>1, <1>2, <1>3, <1>4 DEF Store, B!StoreReport
<1>5. CASE ~ B!SequenceStored(verified[t])
  BY <1>1, <1>2, <1>3, <1>5 DEF Store, B!StoreReport, CommitStep
<1> QED BY <1>1, <1>3, <1>4, <1>5

LEMMA CommitTypes ==
    ASSUME TypeInv, NEW c \in Copies, B!CommitReport(Body(c))
    PROVE  /\ lastSequence' \in [Devices -> Sequences \cup {-1}]
           /\ lastCount' \in [Devices -> Counts \cup {0}]
           /\ rows' \subseteq B!Reports
<1>1. Body(c) \in B!Reports
  BY CopyTypes
<1>2. Body(c).sequence \in Sequences /\ Body(c).count \in Counts
  BY <1>1 DEF B!Reports
<1> QED BY <1>1, <1>2 DEF B!CommitReport, TypeInv

\* What a thread does with a copy it takes up.
LEMMA ReceiveSteps ==
    ASSUME TypeInv, NEW t \in Threads, NEW c \in flying, Receive(t, c)
    PROVE  /\ c \in Copies /\ flying' = flying \ {c}
           /\ UNCHANGED <<publicKey, lastSequence, lastCount, rows, made, unsent, posting,
                          results, calm, faults>>
           /\ \/ /\ ~ Parses /\ Respond(c, 422) /\ UNCHANGED <<verified, serving>>
              \/ /\ Parses /\ B!VerifyReport(Body(c)) = "ok"
                 /\ verified' = [verified EXCEPT ![t] = Body(c)]
                 /\ serving' = [serving EXCEPT ![t] = c]
                 /\ UNCHANGED answer
              \/ /\ Parses /\ B!VerifyReport(Body(c)) # "ok"
                 /\ Respond(c, StatusOf(B!VerifyReport(Body(c))))
                 /\ UNCHANGED <<verified, serving>>
BY DEF Receive, B!PostReport, B!tables, backend, TypeInv, TypeOK

LEMMA TypeStep == TypeInv /\ [Next]_vars => TypeInv'
<1> SUFFICES ASSUME TypeInv, [Next]_vars PROVE TypeInv'
  OBVIOUS
<1> DEFINE Postings == /\ posting \in [Posters -> Copies \cup {None}]
                       /\ answer \in [Posters -> Statuses \cup {None}]
                       /\ \A q \in Posters : posting[q] = None => answer[q] = None
                       /\ flying \subseteq Copies
<1>0. Postings /\ made \subseteq Meter!Readings /\ unsent \subseteq made
  BY DEF TypeInv, TypeOK
<1>1. ASSUME UNCHANGED <<backend, made, serving, calm>>, unsent' \subseteq unsent,
             Postings', faults' \in 0..MaxFaults
      PROVE  TypeInv'
  BY <1>1 DEF TypeInv, TypeOK, backend
<1>2. faults \in 0..MaxFaults /\ (Fault => faults' \in 0..MaxFaults)
  BY DeliveryAssumption DEF TypeInv, TypeOK, Fault
<1>3. ASSUME NEW x \in Meter!Readings, Claim(x) PROVE TypeInv'
  <2>1. made' = made \cup {x} /\ unsent' = unsent \cup {x} /\ calm' \subseteq calm \cup {x}
        /\ UNCHANGED <<backend, posting, answer, flying, serving, faults>>
    BY <1>3 DEF Claim, Meter!Accept
  <2> QED BY <2>1 DEF TypeInv, TypeOK, backend
<1>4. ASSUME NEW p \in Posters, NEW x \in unsent, StartPost(p, x) PROVE TypeInv'
  <2>1. x \in Meter!Readings /\ 1 \in 1..MaxAttempts
    BY <1>0, DeliveryAssumption
  <2>2. Postings'
    BY <1>4, <2>1, SendTypes DEF StartPost
  <2> QED BY <1>1, <1>2, <1>4, <2>2 DEF StartPost
<1>5. ASSUME NEW p \in Posters, TakeAnswer(p) PROVE TypeInv'
  <2>1. posting[p] # None
    BY <1>0, <1>5 DEF TakeAnswer
  <2>2. Postings'
    BY <1>5, <2>1, FinishTypes, NextAttemptTypes DEF TakeAnswer
  <2> QED BY <1>1, <1>2, <1>5, <2>2 DEF TakeAnswer
<1>6. ASSUME NEW p \in Posters, Timeout(p) PROVE TypeInv'
  <2>1. Postings'
    BY <1>6, NextAttemptTypes DEF Timeout
  <2> QED BY <1>1, <1>2, <1>6, <2>1 DEF Timeout
<1>7. ASSUME NEW p \in Posters, TimeoutEarly(p) PROVE TypeInv'
  <2>1. Postings'
    BY <1>7, NextAttemptTypes DEF TimeoutEarly
  <2> QED BY <1>1, <1>2, <1>7, <2>1 DEF TimeoutEarly
<1>8. ASSUME NEW p \in Posters, Kill(p) PROVE TypeInv'
  <2>1. Postings'
    BY <1>8, FinishTypes DEF Kill
  <2> QED BY <1>1, <1>2, <1>8, <2>1 DEF Kill
<1>9. ASSUME NEW c \in flying, LoseRequest(c) PROVE TypeInv'
  <2>1. Postings'
    BY <1>0, <1>9 DEF LoseRequest
  <2> QED BY <1>1, <1>2, <1>9, <2>1 DEF LoseRequest
<1>10. ASSUME NEW p \in Posters, LoseAnswer(p) PROVE TypeInv'
  <2>1. Postings'
    BY <1>0, <1>10 DEF LoseAnswer
  <2> QED BY <1>1, <1>2, <1>10, <2>1 DEF LoseAnswer
<1>11. ASSUME NEW t \in Threads, NEW c \in flying, Receive(t, c) PROVE TypeInv'
  <2>1. /\ c \in Copies /\ flying' = flying \ {c} /\ c # None
        /\ Body(c) \in B!Reports /\ Body(c) # None
        /\ UNCHANGED <<publicKey, lastSequence, lastCount, rows, made, unsent, posting,
                       calm, faults>>
    BY <1>11, ReceiveSteps, CopyTypes, DeliveryAssumption
  <2>2. Postings'
    <3>1. CASE \E status \in Statuses : Respond(c, status)
      BY <1>0, <2>1, <3>1, RespondTypes
    <3>2. CASE UNCHANGED answer
      BY <1>0, <2>1, <3>2
    <3>3. 422 \in Statuses
      BY DEF Statuses
    <3> QED BY <1>11, <3>1, <3>2, <3>3, ReceiveSteps, StatusTypes
  <2>3. /\ serving' \in [Threads -> Copies \cup {None}]
        /\ verified' \in [Threads -> B!Reports \cup {None}]
        /\ \A u \in Threads :
              verified'[u] = IF serving'[u] = None THEN None ELSE Body(serving'[u])
    <3>1. CASE UNCHANGED <<verified, serving>>
      BY <3>1 DEF TypeInv, TypeOK
    <3>2. CASE /\ verified' = [verified EXCEPT ![t] = Body(c)]
               /\ serving' = [serving EXCEPT ![t] = c]
      BY <2>1, <3>2 DEF TypeInv, TypeOK
    <3> QED BY <1>11, <3>1, <3>2, ReceiveSteps
  <2> QED BY <2>1, <2>2, <2>3 DEF TypeInv, TypeOK
<1>12. ASSUME NEW t \in Threads, Store(t) PROVE TypeInv'
  <2>1. /\ serving[t] \in Copies
        /\ UNCHANGED <<publicKey, made, unsent, posting, flying, calm, faults>>
    BY <1>12, StoreSteps
  <2>2. /\ serving' \in [Threads -> Copies \cup {None}]
        /\ verified' \in [Threads -> B!Reports \cup {None}]
        /\ \A u \in Threads :
              verified'[u] = IF serving'[u] = None THEN None ELSE Body(serving'[u])
    BY <1>12, StoreSteps DEF TypeInv, TypeOK
  <2>3. Postings'
    <3>1. 200 \in Statuses /\ 409 \in Statuses
      BY DEF Statuses
    <3> QED BY <1>0, <1>12, <2>1, <3>1, StoreSteps, RespondTypes
  <2>4. /\ lastSequence' \in [Devices -> Sequences \cup {-1}]
        /\ lastCount' \in [Devices -> Counts \cup {0}]
        /\ rows' \subseteq B!Reports
    BY <1>12, <2>1, StoreSteps, CommitTypes DEF CommitStep, TypeInv
  <2> QED BY <2>1, <2>2, <2>3, <2>4 DEF TypeInv, TypeOK
<1>13. ASSUME NEW t \in Threads, StoreFails(t) PROVE TypeInv'
  <2>1. serving[t] \in Copies
    BY <1>13 DEF StoreFails, TypeInv, TypeOK
  <2>2. /\ UNCHANGED <<publicKey, lastSequence, lastCount, rows, made, unsent, posting,
                       flying, calm>>
        /\ serving' = [serving EXCEPT ![t] = None]
        /\ verified' = [verified EXCEPT ![t] = None]
    BY <1>13 DEF StoreFails, B!StoreFails, B!tables
  <2>3. /\ serving' \in [Threads -> Copies \cup {None}]
        /\ verified' \in [Threads -> B!Reports \cup {None}]
        /\ \A u \in Threads :
              verified'[u] = IF serving'[u] = None THEN None ELSE Body(serving'[u])
    BY <2>2 DEF TypeInv, TypeOK
  <2>4. Postings'
    BY <1>0, <1>13, <2>1, <2>2, StatusTypes, RespondTypes DEF StoreFails
  <2>5. faults' \in 0..MaxFaults
    BY <1>2, <1>13 DEF StoreFails
  <2> QED BY <2>2, <2>3, <2>4, <2>5 DEF TypeInv, TypeOK
<1>14. CASE UNCHANGED vars
  BY <1>0, <1>1, <1>2, <1>14 DEF vars
<1> QED BY <1>3, <1>4, <1>5, <1>6, <1>7, <1>8, <1>9, <1>10, <1>11, <1>12, <1>13, <1>14
        DEF Next, Posted, Served

LEMMA TypeInvariant == Spec => []TypeInv
<1>1. Init => TypeInv
  <2> SUFFICES ASSUME Init PROVE TypeInv
    OBVIOUS
  <2>1. TypeOK
    BY DeliveryAssumption DEF Init, TypeOK
  <2> QED BY <2>1 DEF Init, TypeInv
<1> QED BY <1>1, TypeStep, PTL DEF Spec

\* A process waits for an answer only while it posts, and a thread serves the very
\* copy whose report it has verified, for any number of them (Reporter.post,
\* post_report).
THEOREM TypeCorrect == Spec => []TypeOK
<1>1. TypeInv => TypeOK
  BY DEF TypeInv
<1> QED BY <1>1, TypeInvariant, PTL

-----------------------------------------------------------------------------
(* Verdicts.                                                                *)

\* The reports under way, and those stored, are reports that a process made, and
\* what processes make is a ledger.
LedgerInv ==
    /\ \A x, y \in made : x.device = y.device =>
          /\ x.sequence < y.sequence => x.count <= y.count
          /\ x.sequence = y.sequence => x = y
    /\ \A c \in flying : c.report \in made
    /\ \A p \in Posters : posting[p] # None => posting[p].report \in made
    /\ \A t \in Threads : serving[t] # None => serving[t].report \in made
    /\ Stored \subseteq made

\* The marks are those of one stored report, or there is none.
MarksInv ==
    \A d \in Devices :
        \/ lastSequence[d] = -1 /\ lastCount[d] = 0
        \/ \E y \in Stored : /\ y.device = d /\ y.sequence = lastSequence[d]
                             /\ y.count = lastCount[d]

\* The answer that has come back for a copy, and what post() came to, are true.
VerdictInv ==
    /\ \A p \in Posters : posting[p] # None /\ answer[p] # None =>
          /\ answer[p] = 200 => posting[p].report \in Stored
          /\ Parses /\ answer[p] \in 400..499 => Covered(posting[p].report)
    /\ \A r \in results :
          /\ r.outcome = "delivered" => r.report \in Stored
          /\ Parses /\ r.outcome = "rejected" => Covered(r.report)

Inv == LedgerInv /\ MarksInv /\ VerdictInv

\* A stored report stays, so what is covered stays covered.
LEMMA StoredStays ==
    ASSUME rows \subseteq rows'
    PROVE  /\ Stored \subseteq Stored'
           /\ \A x : Covered(x) => Covered(x)'
<1>1. Stored \subseteq Stored'
  BY DEF Stored
<1> QED BY <1>1 DEF Covered

\* A stored report covers itself.
LEMMA StoredCovers ==
    ASSUME TypeInv, NEW x \in Stored
    PROVE  Covered(x)
<1>1. PICK r \in B!Reports : x = B!Reading(r)
  BY DEF Stored, TypeInv
<1>2. x.sequence \in Nat /\ x.count \in Nat
  BY <1>1, DeliveryAssumption DEF B!Reading, B!Reports, B!BackendAssumption
<1> QED BY <1>2 DEF Covered

\* Why the gate refuses an honest report: a stored one covers it.
LEMMA RefusedIsCovered ==
    ASSUME TypeInv, LedgerInv, MarksInv, NEW c \in Copies, c.report \in made
    PROVE  /\ B!VerifyReport(Body(c)) # "ok" =>
                /\ B!VerifyReport(Body(c)) \in {"replay_or_rollback_sequence", "count_rollback"}
                /\ Covered(c.report)
           /\ B!SequenceStored(Body(c)) => Covered(c.report)
<1> DEFINE x == c.report
           d == c.report.device
<1>1. /\ x \in Meter!Readings /\ d \in Devices /\ x.sequence \in Nat /\ x.count \in Nat
      /\ Body(c).device = d /\ Body(c).sequence = x.sequence /\ Body(c).count = x.count
      /\ Body(c).signature = MeterKey
  BY CopyTypes, DeliveryAssumption DEF Body, Meter!Readings, B!BackendAssumption
<1>2. publicKey[d] = MeterKey /\ MeterKey \notin {"absent", "unusable", "not_base64"}
  BY <1>1, DeliveryAssumption DEF TypeInv, B!BackendAssumption
<1>3. \A y \in Stored : y \in made /\ y.sequence \in Nat /\ y.count \in Nat
  <2>1. \A y \in Meter!Readings : y.sequence \in Nat /\ y.count \in Nat
    BY DeliveryAssumption DEF Meter!Readings, B!BackendAssumption
  <2> QED BY <2>1 DEF LedgerInv, TypeInv, TypeOK
<1>4. lastSequence[d] \in Int /\ lastCount[d] \in Nat
  <2>1. lastSequence[d] \in Sequences \cup {-1} /\ lastCount[d] \in Counts \cup {0}
    BY <1>1 DEF TypeInv
  <2>2. \A n \in Sequences \cup {-1} : n \in Int
    BY DeliveryAssumption DEF B!BackendAssumption
  <2>3. \A n \in Counts \cup {0} : n \in Nat
    BY DeliveryAssumption DEF B!BackendAssumption
  <2> QED BY <2>1, <2>2, <2>3
<1>5. ASSUME x.sequence <= lastSequence[d] PROVE Covered(x)
  <2>1. PICK y \in Stored : y.device = d /\ y.sequence = lastSequence[d]
    BY <1>1, <1>4, <1>5 DEF MarksInv
  <2>2. y.count >= x.count
    BY <1>1, <1>3, <1>5, <2>1 DEF LedgerInv
  <2> QED BY <1>5, <2>1, <2>2 DEF Covered
<1>6. ASSUME x.sequence > lastSequence[d] PROVE ~ (x.count < lastCount[d])
  <2>1. CASE lastCount[d] = 0
    BY <1>1, <2>1
  <2>2. CASE \E y \in Stored : y.device = d /\ y.sequence = lastSequence[d] /\ y.count = lastCount[d]
    BY <1>1, <1>3, <1>6, <2>2 DEF LedgerInv
  <2> QED BY <1>1, <2>1, <2>2 DEF MarksInv
<1>7. B!VerifyReport(Body(c)) =
        IF x.sequence <= lastSequence[d] THEN "replay_or_rollback_sequence"
        ELSE IF x.count < lastCount[d] THEN "count_rollback" ELSE "ok"
  BY <1>1, <1>2 DEF B!VerifyReport, B!CheckSignature, B!CheckSequence, B!CheckCountMonotonic
<1>8. ASSUME B!SequenceStored(Body(c)) PROVE Covered(x)
  <2>1. PICK r \in rows : r.device = d /\ r.sequence = x.sequence
    BY <1>1, <1>8 DEF B!SequenceStored, B!RowsOf
  <2>2. B!Reading(r) \in Stored
    BY DEF Stored
  <2>3. B!Reading(r) = x
    BY <1>1, <1>3, <2>1, <2>2 DEF LedgerInv, B!Reading
  <2> QED BY <2>2, <2>3, StoredCovers
<1> QED BY <1>1, <1>4, <1>5, <1>6, <1>7, <1>8

\* The end of post() records what the answer said.
LEMMA FinishVerdict ==
    ASSUME TypeInv, Inv, NEW p \in Posters, posting[p] # None, NEW outcome,
           Finish(p, outcome), UNCHANGED <<rows, made, serving>>,
           outcome = "delivered" => answer[p] # None /\ answer[p] = 200,
           outcome = "rejected" => answer[p] # None /\ answer[p] \in 400..499
    PROVE  LedgerInv' /\ VerdictInv'
<1>1. Stored' = Stored /\ \A x : Covered(x) => Covered(x)'
  BY StoredStays DEF Stored
<1>2. \A q \in Posters : posting'[q] # None =>
        posting'[q] = posting[q] /\ answer'[q] = answer[q] /\ posting[q] # None
  BY DEF Finish, TypeInv, TypeOK
<1>3. LedgerInv'
  BY <1>1, <1>2 DEF Inv, LedgerInv, Finish
<1>4. \A r \in results' :
        /\ r.outcome = "delivered" => r.report \in Stored
        /\ Parses /\ r.outcome = "rejected" => Covered(r.report)
  BY DEF Finish, Inv, VerdictInv
<1> QED BY <1>1, <1>2, <1>3, <1>4 DEF Inv, VerdictInv

\* A new copy has no answer yet.
LEMMA SendVerdict ==
    ASSUME TypeInv, Inv, NEW p \in Posters, NEW x \in made, NEW n,
           Send(p, x, n), UNCHANGED <<rows, made, serving, results>>
    PROVE  LedgerInv' /\ VerdictInv'
<1>1. Stored' = Stored /\ \A y : Covered(y) => Covered(y)'
  BY StoredStays DEF Stored
<1>2. /\ posting'[p] = [report |-> x, attempt |-> n] /\ answer'[p] = None
      /\ \A q \in Posters \ {p} : posting'[q] = posting[q] /\ answer'[q] = answer[q]
      /\ flying' = flying \cup {[report |-> x, attempt |-> n]}
  BY DEF Send, TypeInv, TypeOK
<1>3. LedgerInv'
  BY <1>1, <1>2 DEF Inv, LedgerInv
<1>4. VerdictInv'
  BY <1>1, <1>2 DEF Inv, VerdictInv
<1> QED BY <1>3, <1>4

LEMMA NextAttemptVerdict ==
    ASSUME TypeInv, Inv, NEW p \in Posters, posting[p] # None, NextAttempt(p),
           UNCHANGED <<rows, made, serving>>
    PROVE  LedgerInv' /\ VerdictInv'
<1>1. posting[p].report \in made
  BY DEF Inv, LedgerInv
<1>2. CASE Finish(p, "undelivered")
  BY <1>2, FinishVerdict
<1>3. CASE Send(p, posting[p].report, posting[p].attempt + 1) /\ UNCHANGED results
  BY <1>1, <1>3, SendVerdict
<1> QED BY <1>2, <1>3 DEF NextAttempt

\* An answer is put down for whoever still waits for the copy.
LEMMA RespondVerdict ==
    ASSUME TypeInv, Inv, NEW c, NEW status, Respond(c, status), UNCHANGED <<posting, results>>,
           rows \subseteq rows',
           status = 200 => c.report \in Stored',
           Parses /\ status \in 400..499 => Covered(c.report)'
    PROVE  VerdictInv'
<1>1. Stored \subseteq Stored' /\ \A x : Covered(x) => Covered(x)'
  BY StoredStays
<1>2. \A p \in Posters : answer'[p] = IF posting[p] = c THEN status ELSE answer[p]
  BY DEF Respond
<1>3. \A p \in Posters : posting'[p] = posting[p]
  OBVIOUS
<1>4. ASSUME NEW p \in Posters, posting'[p] # None, answer'[p] # None
      PROVE  /\ answer'[p] = 200 => posting'[p].report \in Stored'
             /\ Parses /\ answer'[p] \in 400..499 => Covered(posting[p].report)'
  <2>1. CASE posting[p] = c
    BY <1>2, <1>3, <2>1
  <2>2. CASE posting[p] # c
    BY <1>1, <1>2, <1>3, <1>4, <2>2 DEF Inv, VerdictInv
  <2> QED BY <2>1, <2>2
<1>5. \A r \in results' :
        /\ r.outcome = "delivered" => r.report \in Stored'
        /\ Parses /\ r.outcome = "rejected" => Covered(r.report)'
  BY <1>1 DEF Inv, VerdictInv
<1> QED BY <1>3, <1>4, <1>5 DEF VerdictInv

LEMMA InvStep == TypeInv /\ Inv /\ [Next]_vars => Inv'
<1> SUFFICES ASSUME TypeInv, Inv, [Next]_vars PROVE Inv'
  OBVIOUS
<1>1. ASSUME UNCHANGED <<rows, lastSequence, lastCount>> PROVE MarksInv'
  BY <1>1 DEF Inv, MarksInv, Stored
<1>2. ASSUME UNCHANGED <<rows, made, posting, results>>, flying' \subseteq flying,
             \A t \in Threads : serving'[t] # None => serving'[t] \in flying \cup {serving[t]}
      PROVE  LedgerInv'
  <2>1. Stored' = Stored
    BY <1>2 DEF Stored
  <2> QED BY <1>2, <2>1 DEF Inv, LedgerInv
<1>3. ASSUME NEW x \in Meter!Readings, Claim(x) PROVE Inv'
  <2>1. /\ made' = made \cup {x} /\ UNCHANGED <<backend, posting, answer, flying, serving, results>>
        /\ \A y \in made : y.device = x.device => y.sequence < x.sequence /\ y.count <= x.count
    BY <1>3 DEF Claim, Meter!Accept, Meter!Continues
  <2>2. \A y \in made \cup {x} : y.sequence \in Nat /\ y.count \in Nat
    BY DeliveryAssumption DEF Meter!Readings, B!BackendAssumption, TypeInv, TypeOK
  <2>3. Stored' = Stored /\ \A y : Covered(y)' = Covered(y)
    BY <2>1 DEF backend, Stored, Covered
  <2>4. \A y, z \in made' : y.device = z.device =>
          /\ y.sequence < z.sequence => y.count <= z.count
          /\ y.sequence = z.sequence => y = z
    BY <2>1, <2>2 DEF Inv, LedgerInv
  <2>5. LedgerInv'
    BY <2>1, <2>3, <2>4 DEF Inv, LedgerInv
  <2>6. VerdictInv'
    BY <2>1, <2>3 DEF Inv, VerdictInv
  <2> QED BY <1>1, <2>1, <2>5, <2>6 DEF Inv, backend
<1>4. ASSUME NEW p \in Posters, NEW x \in unsent, StartPost(p, x) PROVE Inv'
  <2>1. x \in made
    BY DEF TypeInv, TypeOK
  <2> QED BY <1>1, <1>4, <2>1, SendVerdict DEF StartPost, backend, Inv
<1>5. ASSUME NEW p \in Posters, TakeAnswer(p) PROVE Inv'
  <2>1. posting[p] # None /\ answer[p] \in Statuses /\ answer[p] # None
    BY <1>5 DEF TakeAnswer, TypeInv, TypeOK
  <2>2. answer[p] \in 200..299 => answer[p] = 200
    BY <2>1 DEF Statuses
  <2>3. UNCHANGED <<rows, made, serving, lastSequence, lastCount>>
    BY <1>5 DEF TakeAnswer, backend
  <2>4. CASE answer[p] \in 200..299 /\ Finish(p, "delivered")
    BY <1>1, <2>1, <2>2, <2>3, <2>4, FinishVerdict DEF Inv
  <2>5. CASE answer[p] \in 400..499 /\ Finish(p, "rejected")
    BY <1>1, <2>1, <2>3, <2>5, FinishVerdict DEF Inv
  <2>6. CASE NextAttempt(p)
    BY <1>1, <2>1, <2>3, <2>6, NextAttemptVerdict DEF Inv
  <2> QED BY <1>5, <2>4, <2>5, <2>6 DEF TakeAnswer
<1>6. ASSUME NEW p \in Posters, Timeout(p) \/ TimeoutEarly(p) PROVE Inv'
  BY <1>1, <1>6, NextAttemptVerdict DEF Timeout, TimeoutEarly, backend, Inv
<1>7. ASSUME NEW p \in Posters, Kill(p) PROVE Inv'
  BY <1>1, <1>7, FinishVerdict DEF Kill, backend, Inv
<1>8. ASSUME NEW c \in flying, LoseRequest(c) PROVE Inv'
  <2>1. flying' \subseteq flying
        /\ UNCHANGED <<rows, lastSequence, lastCount, made, posting, answer, serving, results>>
    BY <1>8 DEF LoseRequest, backend
  <2>2. VerdictInv'
    BY <2>1 DEF Inv, VerdictInv, Covered, Stored
  <2> QED BY <1>1, <1>2, <2>1, <2>2 DEF Inv
<1>9. ASSUME NEW p \in Posters, LoseAnswer(p) PROVE Inv'
  <2>1. /\ answer' = [answer EXCEPT ![p] = None]
        /\ UNCHANGED <<rows, lastSequence, lastCount, made, posting, flying, serving, results>>
    BY <1>9 DEF LoseAnswer, backend
  <2>2. \A q \in Posters : answer'[q] = answer[q] \/ answer'[q] = None
    BY <2>1 DEF TypeInv, TypeOK
  <2>3. VerdictInv'
    BY <2>1, <2>2 DEF Inv, VerdictInv, Covered, Stored
  <2> QED BY <1>1, <1>2, <2>1, <2>3 DEF Inv
<1>10. ASSUME NEW t \in Threads, NEW c \in flying, Receive(t, c) PROVE Inv'
  <2>1. /\ c \in Copies /\ flying' = flying \ {c} /\ c.report \in made
        /\ UNCHANGED <<lastSequence, lastCount, rows, made, posting, results>>
    BY <1>10, ReceiveSteps DEF Inv, LedgerInv
  <2>2. serving' = serving \/ serving' = [serving EXCEPT ![t] = c]
    BY <1>10, ReceiveSteps
  <2>3. \A u \in Threads : serving'[u] # None => serving'[u] \in flying \cup {serving[u]}
    BY <2>2 DEF TypeInv, TypeOK
  <2>4. LedgerInv'
    BY <1>2, <2>1, <2>3
  <2>5. VerdictInv'
    <3>1. CASE ~ Parses /\ Respond(c, 422)
      BY <2>1, <3>1, RespondVerdict
    <3>2. CASE UNCHANGED answer
      BY <2>1, <3>2 DEF Inv, VerdictInv, Covered, Stored
    <3>3. CASE B!VerifyReport(Body(c)) # "ok"
               /\ Respond(c, StatusOf(B!VerifyReport(Body(c))))
      <4>1. /\ B!VerifyReport(Body(c)) \in {"replay_or_rollback_sequence", "count_rollback"}
            /\ Covered(c.report)
        BY <2>1, <3>3, RefusedIsCovered DEF Inv
      <4>2. StatusOf(B!VerifyReport(Body(c))) = 409
        BY <4>1 DEF StatusOf
      <4>3. Covered(c.report)'
        BY <2>1, <4>1 DEF Covered, Stored
      <4> QED BY <2>1, <3>3, <4>2, <4>3, RespondVerdict
    <3> QED BY <1>10, <3>1, <3>2, <3>3, ReceiveSteps
  <2> QED BY <1>1, <2>1, <2>4, <2>5 DEF Inv
<1>11. ASSUME NEW t \in Threads, Store(t) PROVE Inv'
  <2>0. PICK c : c = serving[t]
    OBVIOUS
  <2>1. /\ c \in Copies /\ c # None /\ c.report \in made
        /\ B!Reading(Body(c)) = c.report
    BY <1>11, <2>0, StoreSteps, CopyTypes DEF Inv, LedgerInv, Store
  <2>2. /\ UNCHANGED <<made, posting, flying, results>>
        /\ serving' = [serving EXCEPT ![t] = None]
    BY <1>11, StoreSteps
  <2>3. \A u \in Threads : serving'[u] # None => serving'[u] = serving[u]
    BY <2>2 DEF TypeInv, TypeOK
  <2>4. CASE /\ B!SequenceStored(Body(c)) /\ Respond(c, 409)
             /\ UNCHANGED <<lastSequence, lastCount, rows>>
    <3>1. Covered(c.report)
      BY <2>1, <2>4, RefusedIsCovered DEF Inv
    <3>2. Covered(c.report)'
      BY <2>4, <3>1 DEF Covered, Stored
    <3>3. VerdictInv'
      BY <2>2, <2>4, <3>2, RespondVerdict
    <3> QED BY <1>1, <1>2, <2>2, <2>3, <2>4, <3>3 DEF Inv
  <2>5. CASE CommitStep(t) /\ Respond(c, 200)
    <3>1. /\ rows' = rows \cup {Body(c)}
          /\ lastSequence' = [lastSequence EXCEPT ![c.report.device] = c.report.sequence]
          /\ lastCount' = [lastCount EXCEPT ![c.report.device] = c.report.count]
      BY <2>0, <2>5 DEF CommitStep, B!CommitReport, Body
    <3>2. Stored' = Stored \cup {c.report}
      BY <2>1, <3>1 DEF Stored
    <3>3. LedgerInv'
      BY <2>1, <2>2, <2>3, <3>2 DEF Inv, LedgerInv
    <3>4. MarksInv'
      BY <2>1, <3>1, <3>2 DEF Inv, MarksInv, TypeInv
    <3>5. VerdictInv'
      <4>1. c.report \in Stored' /\ rows \subseteq rows' /\ 200 \notin 400..499
        BY <3>1, <3>2
      <4> QED BY <2>2, <2>5, <4>1, RespondVerdict
    <3> QED BY <3>3, <3>4, <3>5 DEF Inv
  <2> QED BY <1>11, <2>0, <2>4, <2>5, StoreSteps
<1>12. ASSUME NEW t \in Threads, StoreFails(t) PROVE Inv'
  <2>1. /\ UNCHANGED <<lastSequence, lastCount, rows, made, posting, flying, results>>
        /\ serving' = [serving EXCEPT ![t] = None]
        /\ Respond(serving[t], 500) \/ UNCHANGED answer
    BY <1>12 DEF StoreFails, B!StoreFails, B!tables, StatusOf
  <2>2. \A u \in Threads : serving'[u] # None => serving'[u] = serving[u]
    BY <2>1 DEF TypeInv, TypeOK
  <2>3. VerdictInv'
    <3>1. CASE Respond(serving[t], 500)
      BY <2>1, <3>1, RespondVerdict
    <3>2. CASE UNCHANGED answer
      BY <2>1, <3>2 DEF Inv, VerdictInv, Covered, Stored
    <3> QED BY <2>1, <3>1, <3>2
  <2> QED BY <1>1, <1>2, <2>1, <2>2, <2>3 DEF Inv
<1>13. CASE UNCHANGED vars
  <2>1. UNCHANGED <<lastSequence, lastCount, rows, made, posting, answer, flying, serving, results>>
    BY <1>13 DEF vars, backend
  <2>2. VerdictInv'
    BY <2>1 DEF Inv, VerdictInv, Covered, Stored
  <2> QED BY <1>1, <1>2, <2>1, <2>2 DEF Inv
<1> QED BY <1>3, <1>4, <1>5, <1>6, <1>7, <1>8, <1>9, <1>10, <1>11, <1>12, <1>13
        DEF Next, Posted, Served

LEMMA Invariant == Spec => [](TypeInv /\ Inv)
<1>1. Init => Inv
  BY DEF Init, Inv, LedgerInv, MarksInv, VerdictInv, Stored
<1> QED BY <1>1, InvStep, TypeInvariant, PTL DEF Spec

\* Whatever is lost, overtaken, sent again or killed, post() says "delivered" only
\* of a report that is in the table with its own count (PostResult, post_report).
THEOREM DeliveredStored == Spec => []DeliveredIsStored
<1>1. Inv => DeliveredIsStored
  BY DEF Inv, VerdictInv, DeliveredIsStored, Ended
<1> QED BY <1>1, Invariant, PTL

\* If the backend knows the signature's field, an honest report is refused only
\* when it, or a newer one that says no less, is stored (verify_report, UNIQUE).
THEOREM RejectionsCovered == Parses => (Spec => []RejectedOnlyIfCovered)
<1> SUFFICES ASSUME Parses PROVE Spec => []RejectedOnlyIfCovered
  OBVIOUS
<1>1. Inv => RejectedOnlyIfCovered
  BY DEF Inv, VerdictInv, RejectedOnlyIfCovered, Ended
<1> QED BY <1>1, Invariant, PTL

-----------------------------------------------------------------------------
(* The total.                                                               *)

\* The reports that may still reach the table, or be sent again.
UnderWay ==
    unsent \cup {c.report : c \in flying}
           \cup {posting[p].report : p \in {q \in Posters : posting[q] # None}}
           \cup {serving[t].report : t \in {u \in Threads : serving[u] # None}}

Newest(x) == \A y \in made : y.device = x.device => y.sequence <= x.sequence

\* What was made before a calm report is settled, so that nothing older can be
\* stored behind it; and once it is stored the marks are its own.
CalmInv ==
    \A x \in calm :
        /\ \A y \in UnderWay : y.device = x.device => y.sequence >= x.sequence
        /\ Newest(x) /\ x \in Stored =>
              lastSequence[x.device] = x.sequence /\ lastCount[x.device] = x.count

LEMMA MadeTypes ==
    ASSUME TypeInv
    PROVE  \A y \in made : /\ y \in Meter!Readings /\ y.device \in Devices
                           /\ y.sequence \in Nat /\ y.count \in Nat
<1>1. \A y \in Meter!Readings : y.device \in Devices /\ y.sequence \in Nat /\ y.count \in Nat
  BY DeliveryAssumption DEF Meter!Readings, B!BackendAssumption
<1> QED BY <1>1 DEF TypeInv, TypeOK

LEMMA UnderWayMade == TypeInv /\ Inv => UnderWay \subseteq made
BY DEF TypeInv, TypeOK, Inv, LedgerInv, UnderWay

\* Apart from Claim nothing gets under way, and no report gets calm.
LEMMA UnderWaySteps ==
    ASSUME TypeInv, Inv, [Next]_vars
    PROVE  \/ \E x \in Meter!Readings : Claim(x)
           \/ UnderWay' \subseteq UnderWay /\ UNCHANGED <<made, calm>>
<1>1. ASSUME NEW p \in Posters, NEW outcome, Finish(p, outcome), UNCHANGED <<unsent, serving>>
      PROVE  UnderWay' \subseteq UnderWay
  <2>1. \A q \in Posters : posting'[q] = None \/ posting'[q] = posting[q]
    BY <1>1 DEF Finish, TypeInv, TypeOK
  <2> QED BY <1>1, <2>1 DEF Finish, UnderWay
<1>2. ASSUME NEW p \in Posters, NEW x \in UnderWay, NEW n, Send(p, x, n),
             unsent' \subseteq unsent, UNCHANGED serving
      PROVE  UnderWay' \subseteq UnderWay
  <2>1. \A q \in Posters : posting'[q] = posting[q] \/ posting'[q].report = x
    BY <1>2 DEF Send, TypeInv, TypeOK
  <2>2. \A c \in flying' : c \in flying \/ c.report = x
    BY <1>2 DEF Send
  <2> QED BY <1>2, <2>1, <2>2 DEF UnderWay
<1>3. ASSUME NEW p \in Posters, posting[p] # None, NextAttempt(p), UNCHANGED <<unsent, serving>>
      PROVE  UnderWay' \subseteq UnderWay
  <2>1. posting[p].report \in UnderWay
    BY <1>3 DEF UnderWay
  <2> QED BY <1>1, <1>2, <1>3, <2>1 DEF NextAttempt
<1>4. ASSUME NEW p \in Posters, NEW x \in unsent, StartPost(p, x)
      PROVE  UnderWay' \subseteq UnderWay /\ UNCHANGED <<made, calm>>
  BY <1>2, <1>4 DEF StartPost, UnderWay
<1>5. ASSUME NEW p \in Posters, Posted(p) \/ TimeoutEarly(p) \/ Kill(p)
      PROVE  UnderWay' \subseteq UnderWay /\ UNCHANGED <<made, calm>>
  <2>1. posting[p] # None
    BY <1>5 DEF Posted, TakeAnswer, Timeout, TimeoutEarly, Kill, TypeInv, TypeOK
  <2> QED BY <1>1, <1>3, <1>5, <2>1 DEF Posted, TakeAnswer, Timeout, TimeoutEarly, Kill
<1>6. ASSUME NEW c \in flying, LoseRequest(c)
      PROVE  UnderWay' \subseteq UnderWay /\ UNCHANGED <<made, calm>>
  BY <1>6 DEF LoseRequest, UnderWay
<1>7. ASSUME NEW p \in Posters, LoseAnswer(p)
      PROVE  UnderWay' \subseteq UnderWay /\ UNCHANGED <<made, calm>>
  BY <1>7 DEF LoseAnswer, UnderWay
<1>8. ASSUME NEW t \in Threads, NEW c \in flying, Receive(t, c)
      PROVE  UnderWay' \subseteq UnderWay /\ UNCHANGED <<made, calm>>
  <2>1. /\ UNCHANGED <<made, calm, unsent, posting>> /\ flying' \subseteq flying
        /\ serving' = serving \/ serving' = [serving EXCEPT ![t] = c]
    BY <1>8, ReceiveSteps
  <2>2. \A u \in Threads : serving'[u] = serving[u] \/ serving'[u] = c
    BY <2>1 DEF TypeInv, TypeOK
  <2> QED BY <2>1, <2>2 DEF UnderWay
<1>9. ASSUME NEW t \in Threads, Served(t)
      PROVE  UnderWay' \subseteq UnderWay /\ UNCHANGED <<made, calm>>
  <2>1. /\ UNCHANGED <<made, calm, unsent, posting, flying>>
        /\ serving' = [serving EXCEPT ![t] = None]
    BY <1>9 DEF Served, Store, StoreFails
  <2>2. \A u \in Threads : serving'[u] = serving[u] \/ serving'[u] = None
    BY <2>1 DEF TypeInv, TypeOK
  <2> QED BY <2>1, <2>2 DEF UnderWay
<1>10. CASE UNCHANGED vars
  BY <1>10 DEF vars, UnderWay
<1> QED BY <1>4, <1>5, <1>6, <1>7, <1>8, <1>9, <1>10 DEF Next

\* The tables change only when a thread commits the report of its copy.
LEMMA TableSteps ==
    ASSUME TypeInv, Inv, [Next]_vars
    PROVE  \/ UNCHANGED <<rows, lastSequence, lastCount>>
           \/ \E z \in UnderWay :
                 /\ Stored' = Stored \cup {z}
                 /\ lastSequence' = [lastSequence EXCEPT ![z.device] = z.sequence]
                 /\ lastCount' = [lastCount EXCEPT ![z.device] = z.count]
<1>1. ASSUME NEW t \in Threads, Store(t), ~ UNCHANGED <<rows, lastSequence, lastCount>>
      PROVE  \E z \in UnderWay :
                 /\ Stored' = Stored \cup {z}
                 /\ lastSequence' = [lastSequence EXCEPT ![z.device] = z.sequence]
                 /\ lastCount' = [lastCount EXCEPT ![z.device] = z.count]
  <2>0. PICK c : c = serving[t]
    OBVIOUS
  <2>1. c \in Copies /\ c # None /\ CommitStep(t)
    BY <1>1, <2>0, StoreSteps, CopyTypes DEF Store
  <2>2. /\ rows' = rows \cup {Body(c)}
        /\ lastSequence' = [lastSequence EXCEPT ![c.report.device] = c.report.sequence]
        /\ lastCount' = [lastCount EXCEPT ![c.report.device] = c.report.count]
    BY <2>0, <2>1 DEF CommitStep, B!CommitReport, Body
  <2>3. Stored' = Stored \cup {c.report}
    BY <2>1, <2>2, CopyTypes DEF Stored
  <2>4. c.report \in UnderWay
    BY <2>0, <2>1 DEF UnderWay
  <2> QED BY <2>2, <2>3, <2>4
<1>2. CASE \E t \in Threads : Store(t)
  BY <1>1, <1>2
<1>3. CASE ~ \E t \in Threads : Store(t)
  BY <1>3 DEF Next, Claim, StartPost, Posted, TakeAnswer, Timeout, TimeoutEarly, Kill,
              LoseAnswer, LoseRequest, Receive, B!PostReport, B!tables, Served, StoreFails,
              B!StoreFails, backend, vars
<1> QED BY <1>2, <1>3

LEMMA CalmStep == TypeInv /\ Inv /\ CalmInv /\ [Next]_vars => CalmInv'
<1> SUFFICES ASSUME TypeInv, Inv, CalmInv, [Next]_vars PROVE CalmInv'
  OBVIOUS
<1>0. UnderWay \subseteq made /\ calm \subseteq made /\ Stored \subseteq made
  BY UnderWayMade DEF TypeInv, TypeOK, Inv, LedgerInv
<1>1. CASE \E z \in Meter!Readings : Claim(z)
  <2>1. PICK z \in Meter!Readings : Claim(z)
    BY <1>1
  <2>2. /\ made' = made \cup {z} /\ unsent' = unsent \cup {z}
        /\ calm' = IF Quiet THEN calm \cup {z} ELSE calm
        /\ UNCHANGED <<rows, lastSequence, lastCount, posting, flying, serving>>
        /\ \A y \in made : y.device = z.device => y.sequence < z.sequence /\ y.count <= z.count
    BY <2>1 DEF Claim, Meter!Accept, Meter!Continues, backend
  <2>3. UnderWay' = UnderWay \cup {z} /\ Stored' = Stored
    BY <2>2 DEF UnderWay, Stored
  <2>4. z.sequence \in Nat /\ z \notin made
    <3>1. z.sequence \in Nat
      BY DeliveryAssumption DEF Meter!Readings, B!BackendAssumption
    <3>2. ~ (z.sequence < z.sequence)
      BY <3>1
    <3> QED BY <2>2, <3>1, <3>2
  <2>5. ASSUME NEW x \in calm
        PROVE  /\ \A y \in UnderWay' : y.device = x.device => y.sequence >= x.sequence
               /\ Newest(x)' /\ x \in Stored' =>
                    lastSequence'[x.device] = x.sequence /\ lastCount'[x.device] = x.count
    <3>1. x.sequence \in Nat /\ (z.device = x.device => z.sequence > x.sequence)
      BY <1>0, <2>2, <2>4, MadeTypes
    <3>2. Newest(x)' => Newest(x)
      BY <2>2 DEF Newest
    <3> QED BY <2>2, <2>3, <2>4, <3>1, <3>2 DEF CalmInv
  <2>6. ASSUME Quiet
        PROVE  /\ \A y \in UnderWay' : y.device = z.device => y.sequence >= z.sequence
               /\ z \notin Stored'
    <3>1. UnderWay = {}
      BY <2>6 DEF Quiet, UnderWay
    <3> QED BY <1>0, <2>3, <2>4, <3>1
  <2> QED BY <2>2, <2>5, <2>6 DEF CalmInv
<1>2. CASE UnderWay' \subseteq UnderWay /\ UNCHANGED <<made, calm>>
  <2> SUFFICES ASSUME NEW x \in calm, Newest(x), x \in Stored'
               PROVE  lastSequence'[x.device] = x.sequence /\ lastCount'[x.device] = x.count
    BY <1>2 DEF CalmInv, Newest
  <2>1. CASE UNCHANGED <<rows, lastSequence, lastCount>>
    BY <2>1 DEF CalmInv, Stored
  <2>2. ASSUME NEW z \in UnderWay, Stored' = Stored \cup {z},
               lastSequence' = [lastSequence EXCEPT ![z.device] = z.sequence],
               lastCount' = [lastCount EXCEPT ![z.device] = z.count]
        PROVE  lastSequence'[x.device] = x.sequence /\ lastCount'[x.device] = x.count
    <3>1. CASE z.device = x.device
      <4>1. z \in made /\ x \in made /\ z.sequence \in Nat /\ x.sequence \in Nat
            /\ x.device \in Devices
        BY <1>0, MadeTypes
      <4>2. z.sequence = x.sequence
        BY <3>1, <4>1 DEF CalmInv, Newest
      <4>3. z = x
        BY <3>1, <4>1, <4>2 DEF Inv, LedgerInv
      <4> QED BY <2>2, <4>1, <4>3 DEF TypeInv
    <3>2. CASE z.device # x.device
      <4>1. x \in Stored /\ x.device \in Devices
        BY <1>0, <2>2, <3>2, MadeTypes
      <4> QED BY <2>2, <3>2, <4>1 DEF CalmInv, TypeInv
    <3> QED BY <3>1, <3>2
  <2> QED BY <2>1, <2>2, TableSteps
<1> QED BY <1>1, <1>2, UnderWaySteps

\* If the backend knows the signature's field, a report that was made with nothing
\* older under way has set the total once the gate has answered it, whatever its
\* copies do, for as long as it is the newest (reporter.py, post_report).
THEOREM QuietSetsTotal == Parses => (Spec => []QuietReportSetsTheTotal)
<1> SUFFICES ASSUME Parses PROVE Spec => []QuietReportSetsTheTotal
  OBVIOUS
<1>1. Init => CalmInv
  BY DEF Init, CalmInv
<1>2. TypeInv /\ Inv /\ CalmInv /\ [Next]_vars => CalmInv'
  BY CalmStep
<1>3. TypeInv /\ Inv /\ CalmInv => QuietReportSetsTheTotal
  <2> SUFFICES ASSUME TypeInv, Inv, CalmInv,
                      NEW x \in calm, x \in Ended("delivered") \cup Ended("rejected"), Newest(x)
               PROVE  lastSequence[x.device] = x.sequence /\ lastCount[x.device] = x.count
    BY DEF QuietReportSetsTheTotal, Newest
  <2>1. x \in Stored \/ Covered(x)
    BY DEF Ended, Inv, VerdictInv
  <2>2. x \in Stored
    <3>1. ASSUME NEW y \in Stored, y.device = x.device, y.sequence >= x.sequence PROVE y = x
      <4>1. x \in made /\ y \in made /\ x.sequence \in Nat /\ y.sequence \in Nat
        BY MadeTypes DEF TypeInv, TypeOK, Inv, LedgerInv
      <4>2. y.sequence = x.sequence
        BY <3>1, <4>1 DEF Newest
      <4> QED BY <3>1, <4>1, <4>2 DEF Inv, LedgerInv
    <3> QED BY <2>1, <3>1 DEF Covered
  <2> QED BY <2>2 DEF CalmInv
<1> QED BY <1>1, <1>2, <1>3, Invariant, PTL DEF Spec

-----------------------------------------------------------------------------
(* Giving up.                                                               *)

\* The copy a process waits for brings no verdict any more: the server failed, or
\* nothing is left that could answer.
CopySpent(p) ==
    \/ answer[p] = 500
    \/ answer[p] = None /\ Unanswerable(p)

\* What a process has spent on the report it posts: its earlier copies, and the
\* one it waits for when that can bring nothing.
SpentBy(p, x, n) ==
    /\ posting[p] # None /\ posting[p].report = x
    /\ n < posting[p].attempt \/ (n = posting[p].attempt /\ CopySpent(p))

\* The copies that came to nothing, those of reports given up and those of
\* reports being posted.
Spent == {z \in made \X (1..MaxAttempts) :
            \/ [report |-> z[1], outcome |-> "undelivered"] \in results
            \/ \E p \in Posters : SpentBy(p, z[1], z[2])}

\* Each of them is one thing that went wrong.
SpentInv ==
    /\ IsFiniteSet(Spent)
    /\ Cardinality(Spent) <= faults
    /\ \A r \in results : r.report \in made

\* A step that spends no copy, or no more than this one.
Spends(c) ==
    /\ \A z \in Spent' : z \in Spent \/ z = c
    /\ \A r \in results' : r.report \in made'

LEMMA FinishSpends ==
    ASSUME TypeInv, Inv, SpentInv, NEW p \in Posters, posting[p] # None, NEW outcome,
           Finish(p, outcome), UNCHANGED <<made, serving>>,
           NEW c, outcome = "undelivered" =>
              \A n \in 1..MaxAttempts : \/ <<posting[p].report, n>> = c
                                        \/ SpentBy(p, posting[p].report, n)
    PROVE  Spends(c)
<1>1. /\ results' = results \cup {[report |-> posting[p].report, outcome |-> outcome]}
      /\ posting'[p] = None /\ UNCHANGED flying
      /\ \A q \in Posters \ {p} : posting'[q] = posting[q] /\ answer'[q] = answer[q]
  BY DEF Finish, TypeInv, TypeOK
<1>2. ASSUME NEW q \in Posters, NEW x, NEW n, SpentBy(q, x, n)' PROVE SpentBy(q, x, n)
  BY <1>1, <1>2 DEF SpentBy, CopySpent, Unanswerable
<1>3. ASSUME NEW x \in made, NEW n \in 1..MaxAttempts,
             [report |-> x, outcome |-> "undelivered"] \in results'
      PROVE  [report |-> x, outcome |-> "undelivered"] \in results
             \/ SpentBy(p, x, n) \/ <<x, n>> = c
  BY <1>1, <1>3
<1>4. ASSUME NEW z \in Spent' PROVE z \in Spent \/ z = c
  <2>1. PICK x \in made, n \in 1..MaxAttempts : z = <<x, n>>
    BY <1>4 DEF Spent
  <2>2. [report |-> x, outcome |-> "undelivered"] \in results'
        \/ \E q \in Posters : SpentBy(q, x, n)'
    BY <1>4, <2>1 DEF Spent
  <2>3. \/ [report |-> x, outcome |-> "undelivered"] \in results
        \/ \E q \in Posters : SpentBy(q, x, n)
        \/ z = c
    BY <1>2, <1>3, <2>1, <2>2
  <2> QED BY <2>1, <2>3 DEF Spent
<1>5. \A r \in results' : r.report \in made'
  BY <1>1 DEF SpentInv, Inv, LedgerInv
<1> QED BY <1>4, <1>5 DEF Spends

LEMMA SendSpends ==
    ASSUME TypeInv, SpentInv, NEW p \in Posters, NEW x \in made, NEW n \in 1..MaxAttempts,
           Send(p, x, n), UNCHANGED <<made, serving, results>>,
           NEW c, \A k \in 1..n - 1 : <<x, k>> = c \/ SpentBy(p, x, k)
    PROVE  Spends(c)
<1>1. /\ posting'[p] = [report |-> x, attempt |-> n] /\ answer'[p] = None
      /\ posting'[p] \in flying' /\ flying \subseteq flying'
      /\ \A q \in Posters \ {p} : posting'[q] = posting[q] /\ answer'[q] = answer[q]
  BY DEF Send, TypeInv, TypeOK
<1>2. ASSUME NEW q \in Posters \ {p}, NEW y, NEW k, SpentBy(q, y, k)' PROVE SpentBy(q, y, k)
  BY <1>1, <1>2 DEF SpentBy, CopySpent, Unanswerable
<1>3. ASSUME NEW y, NEW k \in 1..MaxAttempts, SpentBy(p, y, k)' PROVE y = x /\ k \in 1..n - 1
  <2>1. None # 500
    BY DeliveryAssumption DEF Statuses
  <2>2. ~ CopySpent(p)'
    BY <1>1, <2>1 DEF CopySpent, Unanswerable
  <2> QED BY <1>1, <1>3, <2>2 DEF SpentBy
<1>4. ASSUME NEW z \in Spent' PROVE z \in Spent \/ z = c
  <2>1. PICK y \in made, k \in 1..MaxAttempts : z = <<y, k>>
    BY <1>4 DEF Spent
  <2>2. [report |-> y, outcome |-> "undelivered"] \in results
        \/ \E q \in Posters : SpentBy(q, y, k)'
    BY <1>4, <2>1 DEF Spent
  <2>3. \/ [report |-> y, outcome |-> "undelivered"] \in results
        \/ \E q \in Posters : SpentBy(q, y, k)
        \/ z = c
    BY <1>2, <1>3, <2>1, <2>2
  <2> QED BY <2>1, <2>3 DEF Spent
<1> QED BY <1>4 DEF Spends, SpentInv

\* Trying again, or giving up, spends the copy that is waited for and no other.
LEMMA NextAttemptSpends ==
    ASSUME TypeInv, Inv, SpentInv, NEW p \in Posters, posting[p] # None, NextAttempt(p),
           UNCHANGED <<made, serving>>
    PROVE  Spends(<<posting[p].report, posting[p].attempt>>)
<1> DEFINE x == posting[p].report
           n == posting[p].attempt
<1>1. x \in made /\ n \in 1..MaxAttempts
  BY DEF Inv, LedgerInv, TypeInv, TypeOK, Copies
<1>2. \A k \in Int : k < n => SpentBy(p, x, k)
  BY DEF SpentBy
<1>3. CASE n = MaxAttempts /\ Finish(p, "undelivered")
  <2>1. \A k \in 1..MaxAttempts : <<x, k>> = <<x, n>> \/ SpentBy(p, x, k)
    BY <1>1, <1>2, <1>3, DeliveryAssumption
  <2> QED BY <1>3, <2>1, FinishSpends
<1>4. CASE n # MaxAttempts /\ Send(p, x, n + 1) /\ UNCHANGED results
  <2>1. n + 1 \in 1..MaxAttempts /\ \A k \in 1..(n + 1) - 1 : k = n \/ k < n
    BY <1>1, <1>4, DeliveryAssumption
  <2>2. \A k \in 1..(n + 1) - 1 : <<x, k>> = <<x, n>> \/ SpentBy(p, x, k)
    BY <1>2, <2>1
  <2> QED BY <1>1, <1>4, <2>1, <2>2, SendSpends
<1> QED BY <1>3, <1>4 DEF NextAttempt, Exhausted

\* What happens to a copy on its way spends it at most for whoever waits for it.
LEMMA CopySpends ==
    ASSUME SpentInv, NEW c \in Copies, UNCHANGED <<made, posting, results>>,
           \A q \in Posters : posting[q] # None /\ posting[q] # c /\ CopySpent(q)'
                                 => CopySpent(q)
    PROVE  /\ Spends(<<c.report, c.attempt>>)
           /\ (\A q \in Posters : posting[q] = c /\ CopySpent(q)' => CopySpent(q))
                 => \A z \in Spent' : z \in Spent
<1>1. ASSUME NEW q \in Posters, NEW x, NEW n, SpentBy(q, x, n)'
      PROVE  \/ SpentBy(q, x, n)
             \/ <<x, n>> = <<c.report, c.attempt>> /\ posting[q] = c /\ CopySpent(q)'
  BY <1>1 DEF SpentBy
<1>2. ASSUME NEW z \in Spent' PROVE \/ z \in Spent
                                    \/ /\ z = <<c.report, c.attempt>>
                                       /\ \E q \in Posters : /\ posting[q] = c /\ CopySpent(q)'
                                                             /\ SpentBy(q, z[1], z[2])'
  <2>1. z \in made \X (1..MaxAttempts)
    BY <1>2 DEF Spent
  <2>2. PICK x \in made, n \in 1..MaxAttempts : z = <<x, n>>
    BY <2>1
  <2>3. [report |-> x, outcome |-> "undelivered"] \in results
        \/ \E q \in Posters : SpentBy(q, x, n)'
    BY <1>2, <2>2 DEF Spent
  <2>4. CASE [report |-> x, outcome |-> "undelivered"] \in results
    BY <2>2, <2>4 DEF Spent
  <2>5. ASSUME NEW q \in Posters, SpentBy(q, x, n)'
        PROVE  z \in Spent \/ (z = <<c.report, c.attempt>> /\ posting[q] = c /\ CopySpent(q)')
    BY <1>1, <2>2, <2>5 DEF Spent
  <2> QED BY <2>2, <2>3, <2>4, <2>5
<1>3. \A r \in results' : r.report \in made'
  BY DEF SpentInv
<1>4. ASSUME \A q \in Posters : posting[q] = c /\ CopySpent(q)' => CopySpent(q),
             NEW z \in Spent'
      PROVE  z \in Spent
  <2>1. \A q \in Posters : \A x, n : SpentBy(q, x, n)' => SpentBy(q, x, n)
    BY <1>4 DEF SpentBy
  <2>2. PICK x \in made, n \in 1..MaxAttempts : z = <<x, n>>
    BY <1>4 DEF Spent
  <2> QED BY <1>4, <2>1, <2>2 DEF Spent
<1> QED BY <1>2, <1>3, <1>4 DEF Spends

LEMMA SpentSteps ==
    ASSUME TypeInv, Inv, SpentInv, [Next]_vars
    PROVE  /\ \/ faults' = faults /\ \A z \in Spent' : z \in Spent
              \/ faults' = faults + 1 /\ \E c : \A z \in Spent' : z \in Spent \/ z = c
           /\ \A r \in results' : r.report \in made'
<1> DEFINE Kept == faults' = faults /\ (\A z \in Spent' : z \in Spent)
                   /\ \A r \in results' : r.report \in made'
           Paid == faults' = faults + 1 /\ \E c : Spends(c)
<1>0. 500 # None /\ \A x \in {200, 400, 401, 404, 409, 422} : x # None /\ x # 500
  BY DeliveryAssumption DEF Statuses
<1>1. Spends(0) /\ Spends(1) /\ faults' = faults => Kept
  BY DEF Spends
<1>2. ASSUME NEW p \in Posters, CopySpent(p), posting[p] # None, NextAttempt(p),
             UNCHANGED <<made, serving, faults>>
      PROVE  Kept
  <2>1. Spends(<<posting[p].report, posting[p].attempt>>)
    BY <1>2, NextAttemptSpends
  <2>2. posting[p].report \in made /\ posting[p].attempt \in 1..MaxAttempts
    BY <1>2 DEF Inv, LedgerInv, TypeInv, TypeOK, Copies
  <2>3. SpentBy(p, posting[p].report, posting[p].attempt)
    BY <1>2, <2>2 DEF SpentBy
  <2>4. <<posting[p].report, posting[p].attempt>> \in Spent
    BY <2>2, <2>3 DEF Spent
  <2> QED BY <1>2, <2>1, <2>4 DEF Spends
<1>3. ASSUME NEW p \in Posters, posting[p] # None, NEW outcome, outcome # "undelivered",
             Finish(p, outcome), UNCHANGED <<made, serving, faults>>
      PROVE  Kept
  BY <1>1, <1>3, FinishSpends
<1>4. ASSUME NEW x \in Meter!Readings, Claim(x) PROVE Kept
  <2>1. /\ made' = made \cup {x} /\ UNCHANGED <<posting, answer, flying, serving, results, faults>>
        /\ \A y \in made : y.device = x.device => y.sequence < x.sequence
    BY <1>4 DEF Claim, Meter!Accept, Meter!Continues
  <2>2. x \notin made
    BY <2>1, MadeTypes
  <2>3. [report |-> x, outcome |-> "undelivered"] \notin results
    BY <2>2 DEF SpentInv
  <2>4. \A q \in Posters : \A n : ~ SpentBy(q, x, n)
    BY <2>2 DEF SpentBy, Inv, LedgerInv
  <2>5. \A q \in Posters : \A y, n : SpentBy(q, y, n)' = SpentBy(q, y, n)
    BY <2>1 DEF SpentBy, CopySpent, Unanswerable
  <2>6. ASSUME NEW z \in Spent' PROVE z \in Spent
    <3>1. PICK y \in made \cup {x}, n \in 1..MaxAttempts : z = <<y, n>>
      BY <2>1, <2>6 DEF Spent
    <3>2. [report |-> y, outcome |-> "undelivered"] \in results
          \/ \E q \in Posters : SpentBy(q, y, n)
      BY <2>1, <2>5, <2>6, <3>1 DEF Spent
    <3> QED BY <2>3, <2>4, <3>1, <3>2 DEF Spent
  <2> QED BY <2>1, <2>6 DEF SpentInv
<1>5. ASSUME NEW p \in Posters, NEW x \in unsent, StartPost(p, x) PROVE Kept
  <2>1. x \in made /\ 1 \in 1..MaxAttempts /\ 1..1 - 1 = {}
    BY DeliveryAssumption DEF TypeInv, TypeOK
  <2>2. \A c : Spends(c)
    BY <1>5, <2>1, SendSpends DEF StartPost
  <2> QED BY <1>1, <1>5, <2>2 DEF StartPost
<1>6. ASSUME NEW p \in Posters, TakeAnswer(p) PROVE Kept
  <2>1. posting[p] # None /\ answer[p] \in Statuses /\ answer[p] # None
        /\ UNCHANGED <<made, serving, faults>>
    BY <1>6 DEF TakeAnswer, TypeInv, TypeOK
  <2>2. answer[p] \notin (200..299) \cup (400..499) => answer[p] = 500
    BY <2>1 DEF Statuses
  <2> QED BY <1>2, <1>3, <1>6, <2>1, <2>2 DEF TakeAnswer, CopySpent
<1>7. ASSUME NEW p \in Posters, Timeout(p) PROVE Kept
  BY <1>2, <1>7 DEF Timeout, CopySpent
<1>8. ASSUME NEW p \in Posters, TimeoutEarly(p) PROVE Paid
  BY <1>8, NextAttemptSpends DEF TimeoutEarly, Fault
<1>9. ASSUME NEW p \in Posters, Kill(p) PROVE Kept
  BY <1>3, <1>9 DEF Kill
<1>10. ASSUME NEW c \in flying, LoseRequest(c) PROVE Paid
  <2>1. c \in Copies /\ flying' = flying \ {c} /\ faults' = faults + 1
        /\ UNCHANGED <<made, posting, answer, serving, results>>
    BY <1>10 DEF LoseRequest, Fault, TypeInv, TypeOK
  <2>2. \A q \in Posters : posting[q] # c /\ CopySpent(q)' => CopySpent(q)
    BY <2>1 DEF CopySpent, Unanswerable
  <2> QED BY <2>1, <2>2, CopySpends
<1>11. ASSUME NEW p \in Posters, LoseAnswer(p) PROVE Paid
  <2>1. posting[p] \in Copies /\ faults' = faults + 1
        /\ UNCHANGED <<made, posting, flying, serving, results>>
        /\ \A q \in Posters \ {p} : answer'[q] = answer[q]
    BY <1>11 DEF LoseAnswer, Fault, TypeInv, TypeOK
  <2>2. \A q \in Posters : posting[q] # posting[p] /\ CopySpent(q)' => CopySpent(q)
    BY <2>1 DEF CopySpent, Unanswerable
  <2> QED BY <2>1, <2>2, CopySpends
<1>12. ASSUME NEW t \in Threads, NEW c \in flying, Receive(t, c) PROVE Kept
  <2>1. c \in Copies /\ flying' = flying \ {c} /\ UNCHANGED <<made, posting, results, faults>>
        /\ serving[t] = None
    BY <1>12, ReceiveSteps, CopyTypes, DeliveryAssumption DEF Receive, B!Idle, TypeInv, TypeOK
  <2>2. \A q \in Posters : /\ posting[q] # None /\ posting[q] # c /\ CopySpent(q)' => CopySpent(q)
                           /\ posting[q] = c /\ CopySpent(q)' => CopySpent(q)
    <3>1. CASE \E status \in {200, 400, 401, 404, 409, 422} : Respond(c, status) /\ UNCHANGED serving
      BY <1>0, <2>1, <3>1 DEF Respond, CopySpent, Unanswerable
    <3>2. CASE serving' = [serving EXCEPT ![t] = c] /\ UNCHANGED answer
      <4>1. serving'[t] = c /\ \A u \in Threads \ {t} : serving'[u] = serving[u]
        BY <3>2 DEF TypeInv, TypeOK
      <4> QED BY <2>1, <3>2, <4>1 DEF CopySpent, Unanswerable
    <3>3. B!VerifyReport(Body(c)) # "internal_error"
      BY DEF B!VerifyReport, B!CheckSignature, B!CheckSequence, B!CheckCountMonotonic
    <3>4. StatusOf(B!VerifyReport(Body(c))) \in {200, 400, 401, 404, 409, 422}
      BY <3>3 DEF StatusOf
    <3> QED BY <1>12, <3>1, <3>2, <3>4, ReceiveSteps
  <2> QED BY <2>1, <2>2, CopySpends DEF Spends
<1>13. ASSUME NEW t \in Threads, Store(t) PROVE Kept
  <2>0. PICK c : c = serving[t]
    OBVIOUS
  <2>1. /\ c \in Copies /\ UNCHANGED <<made, posting, flying, results, faults>>
        /\ serving' = [serving EXCEPT ![t] = None]
        /\ \E status \in {200, 409} : Respond(c, status)
    BY <1>13, <2>0, StoreSteps
  <2>2. \A u \in Threads \ {t} : serving'[u] = serving[u]
    BY <2>1 DEF TypeInv, TypeOK
  <2>3. \A q \in Posters : /\ posting[q] # None /\ posting[q] # c /\ CopySpent(q)' => CopySpent(q)
                           /\ posting[q] = c /\ CopySpent(q)' => CopySpent(q)
    BY <1>0, <2>0, <2>1, <2>2 DEF Respond, CopySpent, Unanswerable
  <2> QED BY <2>1, <2>3, CopySpends DEF Spends
<1>14. ASSUME NEW t \in Threads, StoreFails(t) PROVE Paid
  <2>0. PICK c : c = serving[t]
    OBVIOUS
  <2>1. /\ c \in Copies /\ UNCHANGED <<made, posting, flying, results>> /\ faults' = faults + 1
        /\ serving' = [serving EXCEPT ![t] = None]
        /\ Respond(c, 500) \/ UNCHANGED answer
    BY <1>14, <2>0 DEF StoreFails, StatusOf, Fault, TypeInv, TypeOK
  <2>2. \A u \in Threads \ {t} : serving'[u] = serving[u]
    BY <2>1 DEF TypeInv, TypeOK
  <2>3. \A q \in Posters : posting[q] # None /\ posting[q] # c /\ CopySpent(q)' => CopySpent(q)
    BY <2>0, <2>1, <2>2 DEF Respond, CopySpent, Unanswerable
  <2> QED BY <2>1, <2>3, CopySpends
<1>15. CASE UNCHANGED vars
  <2>1. UNCHANGED <<made, posting, answer, flying, serving, results, faults>>
    BY <1>15 DEF vars
  <2> QED BY <2>1 DEF SpentInv, Spent, SpentBy, CopySpent, Unanswerable
<1> HIDE DEF Kept, Paid
<1>16. ASSUME NEW p \in Posters,
              \/ \E x \in unsent : StartPost(p, x)
              \/ Posted(p) \/ TimeoutEarly(p) \/ Kill(p) \/ LoseAnswer(p)
       PROVE  Kept \/ Paid
  BY <1>5, <1>6, <1>7, <1>8, <1>9, <1>11, <1>16 DEF Posted
<1>17. ASSUME NEW c \in flying, LoseRequest(c) \/ \E t \in Threads : Receive(t, c)
       PROVE  Kept \/ Paid
  BY <1>10, <1>12, <1>17
<1>18. CASE Next
  <2>1. Kept \/ Paid
    BY <1>4, <1>13, <1>14, <1>16, <1>17, <1>18, Zenon DEF Next, Served
  <2> QED BY <2>1 DEF Kept, Paid, Spends
<1> QED BY <1>15, <1>18

LEMMA SpentStep == TypeInv /\ Inv /\ SpentInv /\ [Next]_vars => SpentInv'
<1> SUFFICES ASSUME TypeInv, Inv, SpentInv, [Next]_vars PROVE SpentInv'
  OBVIOUS
<1>1. IsFiniteSet(Spent) /\ Cardinality(Spent) \in Nat /\ Cardinality(Spent) <= faults
      /\ faults \in Nat
  BY FS_CardinalityType, DeliveryAssumption DEF SpentInv, TypeInv, TypeOK
<1>2. ASSUME faults' = faults, \A z \in Spent' : z \in Spent
      PROVE  IsFiniteSet(Spent') /\ Cardinality(Spent') <= faults'
  <2>1. Spent' \in SUBSET Spent
    BY <1>2
  <2>2. IsFiniteSet(Spent') /\ Cardinality(Spent') <= Cardinality(Spent)
    BY <1>1, <2>1, FS_Subset
  <2>3. Cardinality(Spent') \in Nat
    BY <2>2, FS_CardinalityType
  <2> QED BY <1>1, <1>2, <2>2, <2>3
<1>3. ASSUME faults' = faults + 1, NEW c, \A z \in Spent' : z \in Spent \/ z = c
      PROVE  IsFiniteSet(Spent') /\ Cardinality(Spent') <= faults'
  <2>1. Spent' \in SUBSET (Spent \cup {c})
    BY <1>3
  <2>2. IsFiniteSet(Spent \cup {c}) /\ Cardinality(Spent \cup {c}) <= Cardinality(Spent) + 1
    BY <1>1, FS_AddElement
  <2>3. IsFiniteSet(Spent') /\ Cardinality(Spent') <= Cardinality(Spent \cup {c})
    BY <2>1, <2>2, FS_Subset
  <2>4. Cardinality(Spent') \in Nat /\ Cardinality(Spent \cup {c}) \in Nat
    BY <2>2, <2>3, FS_CardinalityType
  <2> QED BY <1>1, <1>3, <2>2, <2>3, <2>4
<1> QED BY <1>2, <1>3, SpentSteps DEF SpentInv

\* A report is given up only after MaxAttempts different things went wrong with its
\* copies, however requests and answers overtake one another, and whichever of
\* them arrive after all (the loop of Reporter.post).
THEOREM GivenUpOnFaults == Spec => []GivesUpOnlyOnFaults
<1>1. Init => SpentInv
  <2> SUFFICES ASSUME Init PROVE SpentInv
    OBVIOUS
  <2>1. Spent = {}
    BY DEF Init, Spent
  <2> QED BY <2>1, FS_EmptySet DEF Init, SpentInv
<1>2. TypeInv /\ Inv /\ SpentInv /\ [Next]_vars => SpentInv'
  BY SpentStep
<1>3. TypeInv /\ SpentInv => GivesUpOnlyOnFaults
  <2> SUFFICES ASSUME TypeInv, SpentInv PROVE GivesUpOnlyOnFaults
    OBVIOUS
  <2> DEFINE E == Ended("undelivered")
             A == 1..MaxAttempts
  <2>1. IsFiniteSet(Spent) /\ Cardinality(Spent) <= faults /\ faults \in Nat
        /\ MaxAttempts \in Nat /\ 1 \in A
    BY DeliveryAssumption DEF SpentInv, TypeInv, TypeOK
  <2>2. E \X A \in SUBSET Spent
    BY DEF Ended, Spent
  <2>3. IsFiniteSet(E)
    <3> DEFINE f == [x \in E |-> <<x, 1>>]
    <3>1. f \in Injection(E, Spent)
      <4>1. \A x \in E : f[x] = <<x, 1>> /\ f[x] \in Spent
        BY <2>1, <2>2
      <4>2. f \in [E -> Spent]
        BY <4>1
      <4> QED BY <4>1, <4>2 DEF Injection, IsInjective
    <3> QED BY <2>1, <3>1, FS_Injection
  <2>4. IsFiniteSet(A) /\ Cardinality(A) = MaxAttempts
    BY <2>1, FS_Interval
  <2>5. Cardinality(E \X A) = Cardinality(E) * MaxAttempts
    BY <2>3, <2>4, FS_Product
  <2>6. Cardinality(E \X A) <= Cardinality(Spent)
    BY <2>1, <2>2, FS_Subset
  <2>7. Cardinality(E) \in Nat /\ Cardinality(Spent) \in Nat
    BY <2>1, <2>3, FS_CardinalityType
  <2>8. Cardinality(E) * MaxAttempts = MaxAttempts * Cardinality(E)
    BY <2>1, <2>7
  <2>9. Cardinality(E) * MaxAttempts \in Int
    BY <2>1, <2>7
  <2> HIDE DEF E, A
  <2>10. MaxAttempts * Cardinality(E) <= faults
    BY <2>1, <2>5, <2>6, <2>7, <2>8, <2>9
  <2> QED BY <2>10 DEF GivesUpOnlyOnFaults, E
<1> QED BY <1>1, <1>2, <1>3, Invariant, PTL DEF Spec

\* "Delivered", "rejected" and "undelivered" are true for any number of processes,
\* threads, attempts and faults, if the backend knows the signature's field
\* (PostResult, post_report).
THEOREM VerdictsTrue == Parses => (Spec => []VerdictsAreTrue)
<1> SUFFICES ASSUME Parses PROVE Spec => []VerdictsAreTrue
  OBVIOUS
<1>1. Spec => []RejectedOnlyIfCovered
  BY RejectionsCovered
<1>2. DeliveredIsStored /\ RejectedOnlyIfCovered /\ GivesUpOnlyOnFaults => VerdictsAreTrue
  BY DEF VerdictsAreTrue
<1> QED BY <1>1, <1>2, DeliveredStored, GivenUpOnFaults, PTL
====
