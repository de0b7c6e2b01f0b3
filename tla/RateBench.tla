----------------------------- MODULE RateBench -----------------------------
(***************************************************************************)
(* The open-loop benchmark of the client (client/bench_rate.go) against    *)
(* the PDP's buffer of metrics (pdp/metrics.go), as                        *)
(* experiments/04_pdp_internal_processing_rates.sh drives them: reset the  *)
(* metrics, run the benchmark, read the metrics if it succeeded.           *)
(*                                                                         *)
(* The pace of the launches is left out, and so is what the attempts       *)
(* measure.  Datagrams may be lost.                                        *)
(***************************************************************************)
EXTENDS Naturals, Sequences, FiniteSets, FiniteSetsExt

CONSTANTS
    N,              \* attempts
    MaxInflight,    \* capacity of the channel sem
    MetricsMax,     \* capacity of the metrics buffer
    Scenarios,      \* values of valid
    Earlier,        \* datagrams of before that the PDP still handles
    NoResult

ASSUME BenchAssumption ==
    N \in Nat /\ MaxInflight \in Nat \ {0} /\ MetricsMax \in Nat \ {0} /\ Earlier \in Nat
    /\ Scenarios \subseteq BOOLEAN /\ NoResult \notin {"ok", "error"}

VARIABLES
    valid,          \* scenario "valid"; otherwise one whose packets the PDP drops
    phase,          \* of the script: "start", "loop", "exited", "failed", "read"
    next,           \* next attempt to launch
    sem, wg,        \* slots taken; goroutines waited for
    g,              \* attempt -> "none", "started", "sent", "stored", "released", "ended"
    results,        \* attempt -> "ok", "error" or NoResult
    csv,            \* what the report says
    pdp,            \* attempt -> "none", "handling", "written", "recorded"
    answers,        \* attempts whose answer is on its way
    old,            \* datagrams of before, not yet recorded
    events, seq     \* globalSPAMetrics.events (sequence numbers) and next

benchVars   == <<valid, phase, next, sem, wg, g, results, csv>>
metricsVars == <<events, seq>>
vars == <<benchVars, metricsVars, pdp, answers, old>>

Attempts == 1..N

Init ==
    /\ valid \in Scenarios
    /\ phase = "start" /\ next = 1 /\ sem = 0 /\ wg = 0
    /\ g = [r \in Attempts |-> "none"]
    /\ results = [r \in Attempts |-> NoResult] /\ csv = <<>>
    /\ pdp = [r \in Attempts |-> "none"] /\ answers = {} /\ old = Earlier
    /\ events = <<>> /\ seq = 0

-----------------------------------------------------------------------------
(* pdp/metrics.go *)

(* Mutant: a full buffer keeps what it has. *)
BugKeepsOldest(n) == IF Len(events) >= MetricsMax THEN events ELSE Append(events, n)

Recorded(n) ==
    IF Len(events) >= MetricsMax THEN Append(Tail(events), n) ELSE Append(events, n)

recordSPAMetric == seq' = seq + 1 /\ events' = Recorded(seq + 1)

(* The handler of /metrics/spa/reset. *)
Reset ==
    /\ phase = "start" /\ phase' = "loop"
    /\ seq' = 0 /\ events' = <<>>
    /\ UNCHANGED <<valid, next, sem, wg, g, results, csv, pdp, answers, old>>

(* The handler of /metrics/spa/raw. *)
Raw ==
    /\ phase = "exited" /\ phase' = "read"
    /\ UNCHANGED <<valid, next, sem, wg, g, results, csv, metricsVars, pdp, answers, old>>

(* handleUDPPacket: an authorized packet is answered first and recorded    *)
(* then; every other end is only recorded.                                 *)
WriteAnswer(r) ==
    /\ valid /\ pdp[r] = "handling"
    /\ pdp' = [pdp EXCEPT ![r] = "written"]
    /\ answers' = answers \cup {r}
    /\ UNCHANGED <<benchVars, metricsVars, old>>

RecordEnd(r) ==
    /\ pdp[r] \in {"handling", "written"}
    /\ pdp' = [pdp EXCEPT ![r] = "recorded"]
    /\ recordSPAMetric
    /\ UNCHANGED <<benchVars, answers, old>>

RecordOld ==
    /\ old > 0 /\ old' = old - 1
    /\ recordSPAMetric
    /\ UNCHANGED <<benchVars, pdp, answers>>

-----------------------------------------------------------------------------
(* client/bench_rate.go *)

SlotFree == sem < MaxInflight

(* Mutant: wg.Add is left to the goroutine. *)
BugAddedLater == wg

Added == wg + 1

Launch ==
    /\ phase = "loop" /\ next <= N /\ SlotFree
    /\ next' = next + 1 /\ sem' = sem + 1 /\ wg' = Added
    /\ g' = [g EXCEPT ![next] = "started"]
    /\ UNCHANGED <<valid, phase, results, csv, metricsVars, pdp, answers, old>>

(* benchmarkHandshakeOnce, benchmarkWrongPSKDropOnce and                   *)
(* benchmarkRandomDropOnce send one datagram and read with a deadline.     *)
SendDatagram(r, lost) ==
    /\ g[r] = "started"
    /\ g' = [g EXCEPT ![r] = "sent"]
    /\ pdp' = IF lost THEN pdp ELSE [pdp EXCEPT ![r] = "handling"]
    /\ UNCHANGED <<valid, phase, next, sem, wg, results, csv, metricsVars, answers, old>>

Store(r, status) ==
    /\ g' = [g EXCEPT ![r] = "stored"]
    /\ results' = [results EXCEPT ![r] = status]
    /\ UNCHANGED <<valid, phase, next, sem, wg, csv, metricsVars, pdp, old>>

(* A step before the datagram fails. *)
NotSent(r) == g[r] = "started" /\ Store(r, "error") /\ UNCHANGED answers

(* An answer is an error where none is expected; one that is expected may  *)
(* still fail its verification.                                            *)
ReadAnswer(r) ==
    /\ g[r] = "sent" /\ r \in answers /\ answers' = answers \ {r}
    /\ \E status \in IF valid THEN {"ok", "error"} ELSE {"error"} : Store(r, status)

ReadTimesOut(r) ==
    g[r] = "sent" /\ Store(r, IF valid THEN "error" ELSE "ok") /\ UNCHANGED answers

(* Mutant: the deferred receive from sem is missing. *)
BugSlotKept == sem

SlotsAfter == sem - 1

(* The deferred calls, last one first. *)
Release(r) ==
    /\ g[r] = "stored"
    /\ g' = [g EXCEPT ![r] = "released"] /\ sem' = SlotsAfter
    /\ UNCHANGED <<valid, phase, next, wg, results, csv, metricsVars, pdp, answers, old>>

Done(r) ==
    /\ g[r] = "released"
    /\ g' = [g EXCEPT ![r] = "ended"] /\ wg' = wg - 1
    /\ UNCHANGED <<valid, phase, next, sem, results, csv, metricsVars, pdp, answers, old>>

(* wg.Wait, the report, and the exit status that stops the script. *)
Report ==
    /\ phase = "loop" /\ next > N /\ wg = 0
    /\ csv' = results
    /\ phase' = IF \A r \in Attempts : results[r] = "ok" THEN "exited" ELSE "failed"
    /\ UNCHANGED <<valid, next, sem, wg, g, results, metricsVars, pdp, answers, old>>

Attempt(r) ==
    \/ \E lost \in BOOLEAN : SendDatagram(r, lost)
    \/ NotSent(r) \/ ReadAnswer(r) \/ ReadTimesOut(r) \/ Release(r) \/ Done(r)

Next ==
    \/ Reset \/ Raw \/ Launch \/ Report \/ RecordOld
    \/ \E r \in Attempts : Attempt(r) \/ WriteAnswer(r) \/ RecordEnd(r)

Spec == Init /\ [][Next]_vars

(* The client's goroutines and the script run; nothing is asked of the PDP *)
(* or of the network.                                                      *)
FairSpec ==
    /\ Spec
    /\ WF_vars(Reset) /\ WF_vars(Launch) /\ WF_vars(Report)
    /\ \A r \in Attempts : WF_vars(Attempt(r))

-----------------------------------------------------------------------------
(* PROPERTY.  The report has one result for each attempt, none from a      *)
(* goroutine that had not finished, and in the scenario "valid" the PDP    *)
(* has come to an end with every packet that the report calls a success    *)
(* (benchHandshakeRate).                                                   *)
ReportIsWhole ==
    phase \in {"exited", "failed", "read"} =>
        \A r \in Attempts :
            /\ csv[r] # NoResult /\ csv[r] = results[r] /\ g[r] = "ended"
            /\ valid /\ csv[r] = "ok" => pdp[r] \in {"written", "recorded"}

(* PROPERTY.  The metrics are the newest ones since the last reset, in     *)
(* order and without a gap, as many as the buffer holds, whoever records   *)
(* around the reset; when the benchmark has succeeded, an event can only   *)
(* be missing for a packet that was answered and whose goroutine has yet   *)
(* to record it (recordSPAMetric, handleUDPPacket).                        *)
MetricsAreNewest ==
    /\ valid /\ phase = "exited" =>
         seq >= N - Cardinality({r \in Attempts : pdp[r] = "written"})
    /\ Len(events) = Min({seq, MetricsMax})
    /\ \A k \in DOMAIN events : events[k] = seq - Len(events) + k

(* PROPERTY.  The benchmark ends whatever the PDP and the network do: no   *)
(* slot and no wg count is lost on any path (benchHandshakeRate).          *)
BenchEnds == <>(phase \in {"exited", "failed", "read"})
=============================================================================
