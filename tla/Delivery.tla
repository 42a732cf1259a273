---- MODULE Delivery ----
(***************************************************************************)
(* From the meter to the backend: Reporter.post of the gateway             *)
(* (src/gateway/reporter.py), the network in between, and all of           *)
(* Backend.tla at the other end.  The firmware's loop (reporter.cpp) is    *)
(* the same but for its return when esp_http_client_init gives nothing,    *)
(* with attempts left and no fault of the network: it is not modelled.     *)
(*                                                                         *)
(* A report process posts one report after the other, each in at most      *)
(* MaxAttempts copies.  It waits for the answer to the latest copy only: a *)
(* copy it has given up on may still be on its way, or be in the hands of  *)
(* a worker thread, when the next copy or a newer report overtakes it, and *)
(* a process deep in its backoff may overlap with the next one.  What the  *)
(* reports say is any UsageLedger; Gateway.tla shows that its processes    *)
(* make one.  The devices are registered, and no key is rotated here.      *)
(***************************************************************************)
EXTENDS Integers, FiniteSets

CONSTANTS Devices, Keys, Threads, Sequences, Counts, None,  \* as in Backend
          Posters,       \* processes of cmd_report
          MeterKey,      \* the key of the meter, registered for its devices
          PayloadField,  \* the name build_payload gives to the signature
          MaxAttempts,   \* the copies one report is given
          MaxFaults      \* bound: what goes wrong on the network or in the server

VARIABLES publicKey, lastSequence, lastCount, rows, verified, registering,
          reading, reply, authorised,  \* of Backend
          made,     \* the reports that processes have claimed a sequence for
          unsent,   \* those whose post() has not begun
          posting,  \* the copy each process waits for
          answer,   \* status of the answer that has come back for it
          flying,   \* copies on their way to the backend
          serving,  \* the copy behind the report each thread has verified
          results,  \* history: what each post() came to
          calm,     \* history: reports made when nothing older was under way
          faults    \* history: how much has gone wrong

backend == <<publicKey, lastSequence, lastCount, rows, verified, registering,
             reading, reply, authorised>>
vars == <<backend, made, unsent, posting, answer, flying, serving, results, calm, faults>>

B == INSTANCE Backend
Meter == INSTANCE UsageLedger WITH ledger <- made

Copies == [report: Meter!Readings, attempt: 1..MaxAttempts]

\* What the backend can answer to a report.
Statuses == {200, 400, 401, 404, 409, 422, 500}

ASSUME DeliveryAssumption ==
    /\ B!BackendAssumption
    /\ MeterKey \in Keys
    /\ PayloadField \in STRING
    /\ MaxAttempts \in Nat \ {0}
    /\ MaxFaults \in Nat
    /\ None \notin Copies
    /\ None \notin Statuses

\* One more thing goes wrong.
Fault == faults < MaxFaults /\ faults' = faults + 1

\* Nothing is under way between the processes and the tables.
Quiet ==
    /\ unsent = {} /\ flying = {}
    /\ \A p \in Posters : posting[p] = None
    /\ \A t \in Threads : serving[t] = None

-----------------------------------------------------------------------------
(* Reporter.post and the loop around it.                                    *)

\* A report process has its snapshot and its sequence.
Claim(x) ==
    /\ Meter!Accept(x)
    /\ unsent' = unsent \cup {x}
    /\ calm' = IF Quiet THEN calm \cup {x} ELSE calm
    /\ UNCHANGED <<backend, posting, answer, flying, serving, results, faults>>

Send(p, x, n) ==
    /\ posting' = [posting EXCEPT ![p] = [report |-> x, attempt |-> n]]
    /\ flying' = flying \cup {[report |-> x, attempt |-> n]}
    /\ answer' = [answer EXCEPT ![p] = None]

StartPost(p, x) ==
    /\ posting[p] = None
    /\ x \in unsent
    /\ unsent' = unsent \ {x}
    /\ Send(p, x, 1)
    /\ UNCHANGED <<backend, made, serving, results, calm, faults>>

\* post() returns, or its process dies.
Finish(p, outcome) ==
    /\ results' = results \cup {[report |-> posting[p].report, outcome |-> outcome]}
    /\ posting' = [posting EXCEPT ![p] = None]
    /\ answer' = [answer EXCEPT ![p] = None]
    /\ UNCHANGED flying

\* Mutant: nothing is sent twice.
ExhaustedAtOnce(n) == TRUE

\* Mutant: the attempts are counted from zero.
ExhaustedLater(n) == n > MaxAttempts

Exhausted(n) == n = MaxAttempts

\* After the backoff the identical payload is sent again, or post() gives up.
NextAttempt(p) ==
    LET n == posting[p].attempt IN
    \/ Exhausted(n) /\ Finish(p, "undelivered")
    \/ ~ Exhausted(n) /\ Send(p, posting[p].report, n + 1) /\ UNCHANGED results

\* Any 2xx is delivered, any 4xx is final, anything else is tried again.
TakeAnswer(p) ==
    /\ answer[p] # None
    /\ \/ answer[p] \in 200..299 /\ Finish(p, "delivered")
       \/ answer[p] \in 400..499 /\ Finish(p, "rejected")
       \/ answer[p] \notin (200..299) \cup (400..499) /\ NextAttempt(p)
    /\ UNCHANGED <<backend, made, unsent, serving, calm, faults>>

\* No answer can come any more: the copy or its answer was lost, or the worker died.
Unanswerable(p) ==
    posting[p] \notin flying /\ \A t \in Threads : serving[t] # posting[p]

\* httpx.HTTPError: the timeout passes after an answer has become impossible.
Timeout(p) ==
    /\ posting[p] # None /\ answer[p] = None
    /\ Unanswerable(p)
    /\ NextAttempt(p)
    /\ UNCHANGED <<backend, made, unsent, serving, calm, faults>>

\* The same too early: the copy will still be served, or is being served.
TimeoutEarly(p) ==
    /\ posting[p] # None /\ answer[p] = None
    /\ ~ Unanswerable(p)
    /\ Fault
    /\ NextAttempt(p)
    /\ UNCHANGED <<backend, made, unsent, serving, calm>>

\* A report process is killed in the middle of post().
Kill(p) ==
    /\ posting[p] # None
    /\ Finish(p, "killed")
    /\ UNCHANGED <<backend, made, unsent, serving, calm, faults>>

-----------------------------------------------------------------------------
(* The network and the endpoint of the backend.                             *)

LoseRequest(c) ==
    /\ c \in flying
    /\ flying' = flying \ {c}
    /\ Fault
    /\ UNCHANGED <<backend, made, unsent, posting, answer, serving, results, calm>>

LoseAnswer(p) ==
    /\ answer[p] # None
    /\ answer' = [answer EXCEPT ![p] = None]
    /\ Fault
    /\ UNCHANGED <<backend, made, unsent, posting, flying, serving, results, calm>>

\* Mutant: a failure of the server takes the default of _rejection.
StatusOfDefault(code) ==
    CASE code = "accepted" -> 200
      [] code = "replay_or_rollback_sequence" -> 409
      [] OTHER -> 400

\* STATUS_FOR_CODE with the default of _rejection, and an uncaught exception.
StatusOf(code) ==
    CASE code = "accepted" -> 200
      [] code = "unknown_device" -> 404
      [] code = "bad_signature" -> 401
      [] code \in {"replay_or_rollback_sequence", "count_rollback"} -> 409
      [] code = "internal_error" -> 500
      [] OTHER -> 400

\* An answer reaches post() if it still waits for this very copy.
Respond(c, status) ==
    answer' = [p \in Posters |-> IF posting[p] = c THEN status ELSE answer[p]]

\* UsageReport has a field "signature" and knows no other name for it.
Parses == PayloadField = "signature"

\* The request as the endpoint receives it.
Body(c) == [device |-> c.report.device, count |-> c.report.count,
            sequence |-> c.report.sequence, signature |-> MeterKey]

\* A thread takes a copy up: pydantic answers 422, or verify_report judges it.
Receive(t, c) ==
    /\ c \in flying
    /\ B!Idle(t)
    /\ flying' = flying \ {c}
    /\ \/ /\ ~ Parses
          /\ Respond(c, 422)
          /\ UNCHANGED <<backend, serving>>
       \/ /\ Parses
          /\ B!PostReport(t, Body(c))
          /\ IF B!VerifyReport(Body(c)) = "ok"
             THEN serving' = [serving EXCEPT ![t] = c] /\ UNCHANGED answer
             ELSE Respond(c, StatusOf(B!VerifyReport(Body(c)))) /\ UNCHANGED serving
    /\ UNCHANGED <<made, unsent, posting, results, calm, faults>>

\* The transaction commits, or UNIQUE objects.
Store(t) ==
    /\ serving[t] # None
    /\ Respond(serving[t], IF B!SequenceStored(verified[t])
                           THEN StatusOf("replay_or_rollback_sequence")
                           ELSE StatusOf("accepted"))
    /\ B!StoreReport(t)
    /\ serving' = [serving EXCEPT ![t] = None]
    /\ UNCHANGED <<made, unsent, posting, flying, results, calm, faults>>

\* The transaction fails, and the client is told so or not.
StoreFails(t) ==
    /\ serving[t] # None
    /\ Fault
    /\ Respond(serving[t], StatusOf("internal_error")) \/ UNCHANGED answer
    /\ B!StoreFails(t)
    /\ serving' = [serving EXCEPT ![t] = None]
    /\ UNCHANGED <<made, unsent, posting, flying, results, calm>>

-----------------------------------------------------------------------------
\* The operator has registered every device with the meter's key.
Init ==
    /\ publicKey = [d \in Devices |-> MeterKey]
    /\ authorised = [d \in Devices |-> {MeterKey}]
    /\ lastSequence = [d \in Devices |-> -1]
    /\ lastCount = [d \in Devices |-> 0]
    /\ rows = {}
    /\ verified = [t \in Threads |-> None]
    /\ registering = [t \in Threads |-> None]
    /\ reading = [t \in Threads |-> None]
    /\ reply = None
    /\ made = {} /\ unsent = {} /\ flying = {}
    /\ posting = [p \in Posters |-> None]
    /\ answer = [p \in Posters |-> None]
    /\ serving = [t \in Threads |-> None]
    /\ results = {} /\ calm = {}
    /\ faults = 0

Posted(p) == TakeAnswer(p) \/ Timeout(p)

Served(t) == Store(t) \/ StoreFails(t)

Next ==
    \/ \E x \in Meter!Readings : Claim(x)
    \/ \E p \in Posters :
        \/ \E x \in unsent : StartPost(p, x)
        \/ Posted(p)
        \/ TimeoutEarly(p)
        \/ Kill(p)
        \/ LoseAnswer(p)
    \/ \E c \in flying :
        \/ LoseRequest(c)
        \/ \E t \in Threads : Receive(t, c)
    \/ \E t \in Threads : Served(t)

\* The event loop comes back from an answer, a timeout or a sleep, a copy the
\* network has not lost is taken up, and a thread finishes what it serves.
\* Nothing makes an operator start a report, and nothing makes a fault happen.
Fairness ==
    /\ \A p \in Posters : WF_vars(Posted(p))
    /\ \A c \in Copies : WF_vars(\E t \in Threads : Receive(t, c))
    /\ \A t \in Threads : WF_vars(Served(t))

Spec == Init /\ [][Next]_vars

FairSpec == Spec /\ Fairness

-----------------------------------------------------------------------------
(* Properties.                                                              *)

Ended(outcome) == {x \in made : [report |-> x, outcome |-> outcome] \in results}

Stored == {B!Reading(r) : r \in rows}

\* x, or a newer report of its device that says no less, is in the table.
Covered(x) ==
    \E y \in Stored : y.device = x.device /\ y.sequence >= x.sequence /\ y.count >= x.count

\* Every variable has its type: a process waits for an answer only while it
\* posts, and a thread serves the very copy it has verified.
TypeOK ==
    /\ made \subseteq Meter!Readings
    /\ unsent \subseteq made
    /\ posting \in [Posters -> Copies \cup {None}]
    /\ answer \in [Posters -> Statuses \cup {None}]
    /\ \A p \in Posters : posting[p] = None => answer[p] = None
    /\ flying \subseteq Copies
    /\ serving \in [Threads -> Copies \cup {None}]
    /\ \A t \in Threads :
          verified[t] = IF serving[t] = None THEN None ELSE Body(serving[t])
    /\ calm \subseteq made
    /\ faults \in 0..MaxFaults

\* A delivered report is in the table with its own count, whatever became of
\* its other copies (PostResult.delivered, against post_report's transaction).
DeliveredIsStored == Ended("delivered") \subseteq Stored

\* "Rejected on content" (reporter.py) is never the fate of a report the backend
\* still needs: an honest report is refused only when it, or a newer report of
\* the device that says no less, is stored, most often by a copy of its own.
RejectedOnlyIfCovered == \A x \in Ended("rejected") : Covered(x)

\* A report is given up only after MaxAttempts things went wrong: no answer of a
\* working backend, and no copy that overtakes another, is ever taken for a
\* server error and tried until the attempts are used up.
GivesUpOnlyOnFaults == MaxAttempts * Cardinality(Ended("undelivered")) <= faults

\* All three verdicts of post() tell the operator the truth (PostResult).
VerdictsAreTrue == DeliveredIsStored /\ RejectedOnlyIfCovered /\ GivesUpOnlyOnFaults

\* The total heals: once a report that was made with nothing older under way has
\* an answer from the gate, and as long as it is the newest, the marks are its
\* own, whatever its copies do ("the next window carries the same or a higher
\* cumulative value", reporter.py).
QuietReportSetsTheTotal ==
    \A x \in calm \cap (Ended("delivered") \cup Ended("rejected")) :
        (\A y \in made : y.device = x.device => y.sequence <= x.sequence)
            => lastSequence[x.device] = x.sequence /\ lastCount[x.device] = x.count

\* "The backend takes the higher value" (reporter.py): the total of a device is
\* never below a count that is stored for it.
TotalIsHighest == \A x \in Stored : x.count <= lastCount[x.device]

\* A report whose post() has begun, and is not killed, is covered in the end
\* unless there have been faults enough for all of its copies: at least once.
ReportsArrive ==
    \A x \in Meter!Readings :
        x \in made \ unsent ~>
            Covered(x) \/ x \in Ended("killed") \/ faults >= MaxAttempts
====
