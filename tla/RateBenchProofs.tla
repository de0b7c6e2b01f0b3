-------------------------- MODULE RateBenchProofs --------------------------
(***************************************************************************)
(* Proofs about the open-loop benchmark and the PDP's buffer of metrics:   *)
(* the report waits for every attempt, and the buffer holds the newest     *)
(* events without a gap, for any number of attempts and any capacity.      *)
(***************************************************************************)
EXTENDS RateBench, FiniteSetTheorems, SequenceTheorems, TLAPS

LEMMA BenchConstants ==
    /\ N \in Nat /\ MetricsMax \in Nat /\ MetricsMax > 0 /\ Earlier \in Nat
    /\ Scenarios \subseteq BOOLEAN /\ NoResult \notin {"ok", "error"}
BY BenchAssumption

-----------------------------------------------------------------------------
(* The buffer of metrics. *)

Bounded(n) == IF n <= MetricsMax THEN n ELSE MetricsMax

MetricsInv ==
    /\ events \in Seq(Nat) /\ seq \in Nat
    /\ Len(events) = Bounded(seq)
    /\ \A k \in 1..Len(events) : events[k] = seq - Len(events) + k

LEMMA BoundedIsMin == ASSUME NEW n \in Nat PROVE Min({n, MetricsMax}) = Bounded(n)
<1>1. MetricsMax \in Nat
  BY BenchConstants
<1>2. Bounded(n) \in {n, MetricsMax} /\ \A y \in {n, MetricsMax} : Bounded(n) <= y
  BY <1>1 DEF Bounded
<1>3. \A x \in {n, MetricsMax} : (\A y \in {n, MetricsMax} : x <= y) => x = Bounded(n)
  BY <1>1 DEF Bounded
<1>4. Min({n, MetricsMax}) = CHOOSE x \in {n, MetricsMax} : \A y \in {n, MetricsMax} : x <= y
  BY DEF Min
<1> QED
  BY <1>2, <1>3, <1>4

(* Recording an event, in a buffer with room or in a full one. *)
LEMMA RecordKeepsNewest ==
    ASSUME MetricsInv, recordSPAMetric
    PROVE  MetricsInv'
<1> DEFINE n == seq + 1
<1>1. events \in Seq(Nat) /\ seq \in Nat /\ n \in Nat /\ Len(events) \in Nat /\ MetricsMax \in Nat
      /\ MetricsMax > 0
  BY BenchConstants DEF MetricsInv
<1>2. seq' = n /\ events' = IF Len(events) >= MetricsMax THEN Append(Tail(events), n)
                                                         ELSE Append(events, n)
  BY DEF recordSPAMetric, Recorded
<1>3. CASE Len(events) >= MetricsMax
  <2>1. Len(events) = MetricsMax /\ seq >= MetricsMax /\ events # <<>>
    BY <1>1, <1>3 DEF MetricsInv, Bounded
  <2>2. /\ Tail(events) \in Seq(Nat) /\ Len(Tail(events)) = Len(events) - 1
        /\ \A k \in 1..(Len(events) - 1) : Tail(events)[k] = events[k + 1]
    BY <1>1, <2>1, HeadTailProperties
  <2> DEFINE t == Tail(events)
  <2> HIDE DEF t
  <2>3. t \in Seq(Nat) /\ Len(t) = MetricsMax - 1 /\ \A k \in 1..(MetricsMax - 1) : t[k] = events[k + 1]
    BY <2>1, <2>2 DEF t
  <2>4. events' = Append(t, n)
    BY <1>2, <1>3 DEF t
  <2>5. /\ events' \in Seq(Nat) /\ Len(events') = MetricsMax
        /\ events'[MetricsMax] = n /\ \A k \in 1..(MetricsMax - 1) : events'[k] = t[k]
    BY <1>1, <2>3, <2>4, AppendProperties
  <2>6. ASSUME NEW k \in 1..MetricsMax PROVE events'[k] = n - MetricsMax + k
    <3>1. CASE k = MetricsMax
      <4>1. n - MetricsMax + MetricsMax = n
        BY <1>1
      <4> QED
        BY <2>5, <3>1, <4>1
    <3>2. CASE k # MetricsMax
      <4>1. k \in 1..(MetricsMax - 1) /\ k + 1 \in 1..Len(events) /\ k \in Nat
        BY <1>1, <2>1, <3>2
      <4>2. events'[k] = events[k + 1]
        BY <2>3, <2>5, <4>1
      <4>3. events[k + 1] = seq - Len(events) + (k + 1)
        BY <4>1 DEF MetricsInv
      <4>4. seq - MetricsMax + (k + 1) = n - MetricsMax + k
        BY <1>1, <4>1
      <4> QED
        BY <2>1, <4>2, <4>3, <4>4
    <3> QED
      BY <3>1, <3>2
  <2>7. Bounded(seq') = MetricsMax
    BY <1>1, <1>2, <2>1 DEF Bounded
  <2> QED
    BY <1>1, <1>2, <2>5, <2>6, <2>7 DEF MetricsInv
<1>4. CASE Len(events) < MetricsMax
  <2>1. Len(events) = seq /\ seq < MetricsMax
    BY <1>1, <1>4 DEF MetricsInv, Bounded
  <2>2. events' = Append(events, n)
    BY <1>1, <1>2, <1>4
  <2>3. /\ events' \in Seq(Nat) /\ Len(events') = n
        /\ events'[n] = n /\ \A k \in 1..seq : events'[k] = events[k]
    BY <1>1, <2>1, <2>2, AppendProperties
  <2>4. ASSUME NEW k \in 1..n PROVE events'[k] = n - n + k
    <3>1. CASE k = n
      <4>1. n - n + n = n
        BY <1>1
      <4> QED
        BY <2>3, <3>1, <4>1
    <3>2. CASE k # n
      <4>1. k \in 1..seq /\ k \in Nat
        BY <1>1, <3>2
      <4>2. events'[k] = seq - Len(events) + k
        BY <2>1, <2>3, <4>1 DEF MetricsInv
      <4>3. seq - seq + k = n - n + k
        BY <1>1, <4>1
      <4> QED
        BY <2>1, <4>2, <4>3
    <3> QED
      BY <3>1, <3>2
  <2>5. Bounded(seq') = n
    BY <1>1, <1>2, <2>1 DEF Bounded
  <2> QED
    BY <1>1, <1>2, <2>3, <2>4, <2>5 DEF MetricsInv
<1> QED
  BY <1>1, <1>3, <1>4

-----------------------------------------------------------------------------
(* The attempts. *)

Finished == {"exited", "failed", "read"}

BenchTypes ==
    /\ valid \in BOOLEAN /\ phase \in {"start", "loop"} \cup Finished /\ next \in 1..(N + 1)
    /\ g \in [Attempts -> {"none", "started", "sent", "stored", "released", "ended"}]
    /\ results \in [Attempts -> {"ok", "error", NoResult}]
    /\ pdp \in [Attempts -> {"none", "handling", "written", "recorded"}]
    /\ answers \subseteq Attempts

(* An attempt has a result once it is stored, and one that went well was   *)
(* answered.                                                               *)
Consistent(r) ==
    /\ g[r] = "none" <=> r >= next
    /\ g[r] \in {"none", "started", "sent"} => results[r] = NoResult
    /\ g[r] \in {"stored", "released", "ended"} => results[r] # NoResult
    /\ g[r] \in {"none", "started"} => pdp[r] = "none"
    /\ r \in answers => pdp[r] \in {"written", "recorded"}
    /\ valid /\ results[r] = "ok" => pdp[r] \in {"written", "recorded"}

(* wg counts the goroutines that have not ended. *)
Running == {r \in Attempts : g[r] \notin {"none", "ended"}}

Reported ==
    /\ phase = "start" => next = 1
    /\ phase \in Finished => next = N + 1 /\ wg = 0 /\ csv = results
    /\ phase \in {"exited", "read"} => \A r \in Attempts : results[r] = "ok"

BenchInv ==
    /\ BenchTypes /\ \A r \in Attempts : Consistent(r)
    /\ wg = Cardinality(Running) /\ Reported

(* Every attempt recorded since the reset is counted. *)
RecordedAttempts == {r \in Attempts : pdp[r] = "recorded"}

Counted == seq >= Cardinality(RecordedAttempts)

LEMMA CountRunning ==
    /\ IsFiniteSet(Attempts) /\ Cardinality(Attempts) = N
    /\ \A S \in SUBSET Attempts : IsFiniteSet(S) /\ Cardinality(S) \in Nat
<1>1. IsFiniteSet(Attempts) /\ Cardinality(Attempts) = N
  <2>1. 1 \in Int /\ N \in Int /\ N \in Nat
    BY BenchConstants
  <2>2. IsFiniteSet(1..N) /\ Cardinality(1..N) = IF 1 > N THEN 0 ELSE N - 1 + 1
    BY <2>1, FS_Interval
  <2>3. (IF 1 > N THEN 0 ELSE N - 1 + 1) = N
    BY <2>1
  <2> QED
    BY <2>2, <2>3 DEF Attempts
<1>2. ASSUME NEW S \in SUBSET Attempts PROVE IsFiniteSet(S) /\ Cardinality(S) \in Nat
  BY <1>1, FS_Subset, FS_CardinalityType
<1> QED
  BY <1>1, <1>2

(* The benchmark that has reported has no goroutine left. *)
LEMMA AllEnded ==
    ASSUME BenchInv, wg = 0, next = N + 1, NEW r \in Attempts PROVE g[r] = "ended"
<1>1. Running \in SUBSET Attempts /\ Cardinality(Running) = 0
  BY DEF BenchInv, Running
<1>2. Running = {}
  BY <1>1, CountRunning, FS_EmptySet
<1>3. g[r] # "none"
  <2>1. Consistent(r)
    BY DEF BenchInv
  <2>2. ~(r >= next)
    BY BenchConstants DEF Attempts
  <2> QED
    BY <2>1, <2>2 DEF Consistent
<1> QED
  BY <1>2, <1>3 DEF Running

(* A step of one goroutine that neither starts nor ends it. *)
LEMMA OneAttempt ==
    ASSUME BenchInv, NEW r \in Attempts, g[r] \notin {"none", "ended"}, BenchTypes', Consistent(r)',
           g'[r] \notin {"none", "ended"}, UNCHANGED <<valid, phase, next, wg, csv>>, answers' \subseteq answers,
           \A q \in Attempts \ {r} : g'[q] = g[q] /\ results'[q] = results[q] /\ pdp'[q] = pdp[q]
    PROVE  BenchInv'
<1>1. ASSUME NEW q \in Attempts \ {r} PROVE Consistent(q)'
  <2>1. Consistent(q) /\ g'[q] = g[q] /\ results'[q] = results[q] /\ pdp'[q] = pdp[q]
    BY DEF BenchInv
  <2> QED
    BY <2>1 DEF Consistent
<1>2. Running' = Running
  BY DEF Running
<1>3. phase \notin Finished
  BY AllEnded DEF BenchInv, Reported
<1>4. Reported'
  <2>1. phase' \notin {"exited", "read"}
    BY <1>3 DEF Finished
  <2> QED
    BY <1>3, <2>1 DEF BenchInv, Reported
<1> QED
  BY <1>1, <1>2, <1>4 DEF BenchInv

LEMMA AttemptNext ==
    ASSUME BenchInv, NEW r \in Attempts, Attempt(r) PROVE BenchInv'
<1>0. Consistent(r) /\ BenchTypes
  BY DEF BenchInv
<1>1. ASSUME NEW lost \in BOOLEAN, SendDatagram(r, lost) PROVE BenchInv'
  <2>1. /\ g[r] = "started" /\ g' = [g EXCEPT ![r] = "sent"]
        /\ pdp' \in {pdp, [pdp EXCEPT ![r] = "handling"]}
        /\ UNCHANGED <<valid, phase, next, wg, results, csv, answers>>
    BY <1>1 DEF SendDatagram
  <2>2. BenchTypes'
    BY <1>0, <2>1 DEF BenchTypes
  <2>3. g'[r] = "sent" /\ \A q \in Attempts \ {r} : g'[q] = g[q] /\ pdp'[q] = pdp[q]
    BY <1>0, <2>1 DEF BenchTypes
  <2>4. Consistent(r)'
    <3>1. results[r] = NoResult /\ r \notin answers /\ ~(r >= next)
      BY <1>0, <2>1 DEF Consistent
    <3> QED
      BY <2>1, <2>3, <3>1, BenchConstants DEF Consistent
  <2> QED
    BY <2>1, <2>2, <2>3, <2>4, OneAttempt
<1>2. ASSUME NEW st \in {"ok", "error"}, Store(r, st), g[r] \in {"started", "sent"}, answers' \subseteq answers,
             valid /\ st = "ok" => pdp[r] \in {"written", "recorded"}
      PROVE  BenchInv'
  <2>1. /\ g' = [g EXCEPT ![r] = "stored"] /\ results' = [results EXCEPT ![r] = st]
        /\ UNCHANGED <<valid, phase, next, wg, csv, pdp>>
    BY <1>2 DEF Store
  <2>2. BenchTypes'
    BY <1>0, <1>2, <2>1 DEF BenchTypes
  <2>3. /\ g'[r] = "stored" /\ results'[r] = st
        /\ \A q \in Attempts \ {r} : g'[q] = g[q] /\ results'[q] = results[q]
    BY <1>0, <2>1 DEF BenchTypes
  <2>4. Consistent(r)'
    BY <1>0, <1>2, <2>1, <2>3, BenchConstants DEF Consistent
  <2> QED
    BY <1>2, <2>1, <2>2, <2>3, <2>4, OneAttempt
<1>3. CASE NotSent(r)
  BY <1>2, <1>3 DEF NotSent
<1>4. CASE ReadAnswer(r)
  <2>1. PICK st \in {"ok", "error"} : Store(r, st)
    BY <1>4 DEF ReadAnswer
  <2>2. g[r] = "sent" /\ r \in answers /\ answers' \subseteq answers
    BY <1>4 DEF ReadAnswer
  <2>3. pdp[r] \in {"written", "recorded"}
    BY <1>0, <2>2 DEF Consistent
  <2> QED
    BY <1>2, <2>1, <2>2, <2>3
<1>5. CASE ReadTimesOut(r)
  <2>1. g[r] = "sent" /\ answers' = answers
    BY <1>5 DEF ReadTimesOut
  <2>2. CASE valid
    <3>1. Store(r, "error")
      BY <1>5, <2>2 DEF ReadTimesOut
    <3> QED
      BY <1>2, <2>1, <3>1
  <2>3. CASE ~valid
    <3>1. Store(r, "ok")
      BY <1>5, <2>3 DEF ReadTimesOut
    <3> QED
      BY <1>2, <2>1, <2>3, <3>1
  <2> QED
    BY <2>2, <2>3
<1>6. CASE Release(r)
  <2>1. /\ g[r] = "stored" /\ g' = [g EXCEPT ![r] = "released"]
        /\ UNCHANGED <<valid, phase, next, wg, results, csv, pdp, answers>>
    BY <1>6 DEF Release
  <2>2. BenchTypes'
    BY <1>0, <2>1 DEF BenchTypes
  <2>3. g'[r] = "released" /\ \A q \in Attempts \ {r} : g'[q] = g[q]
    BY <1>0, <2>1 DEF BenchTypes
  <2>4. Consistent(r)'
    BY <1>0, <2>1, <2>3 DEF Consistent
  <2> QED
    BY <2>1, <2>2, <2>3, <2>4, OneAttempt
<1>7. CASE Done(r)
  <2>1. /\ g[r] = "released" /\ g' = [g EXCEPT ![r] = "ended"] /\ wg' = wg - 1
        /\ UNCHANGED <<valid, phase, next, results, csv, pdp, answers>>
    BY <1>7 DEF Done
  <2>2. BenchTypes'
    BY <1>0, <2>1 DEF BenchTypes
  <2>3. g'[r] = "ended" /\ \A q \in Attempts \ {r} : g'[q] = g[q]
    BY <1>0, <2>1 DEF BenchTypes
  <2>4. ASSUME NEW q \in Attempts PROVE Consistent(q)'
    <3>1. Consistent(q)
      BY DEF BenchInv
    <3>2. CASE q = r
      BY <2>1, <2>3, <3>1, <3>2 DEF Consistent
    <3>3. CASE q # r
      BY <2>1, <2>3, <3>1, <3>3 DEF Consistent
    <3> QED
      BY <3>2, <3>3
  <2>5. Running' = Running \ {r} /\ r \in Running /\ Running \in SUBSET Attempts
    BY <2>1, <2>3 DEF Running
  <2>6. wg' = Cardinality(Running')
    BY <2>1, <2>5, CountRunning, FS_RemoveElement DEF BenchInv
  <2>7. phase \notin Finished /\ phase' \notin Finished
    BY <2>1, AllEnded DEF BenchInv, Reported
  <2>8. Reported'
    BY <2>1, <2>7 DEF BenchInv, Reported, Finished
  <2> QED
    BY <2>2, <2>4, <2>6, <2>8 DEF BenchInv
<1> QED
  BY <1>1, <1>3, <1>4, <1>5, <1>6, <1>7 DEF Attempt

(* The PDP's side of an attempt. *)
LEMMA HandlerNext ==
    ASSUME BenchInv, NEW r \in Attempts, WriteAnswer(r) \/ RecordEnd(r) PROVE BenchInv'
<1>0. BenchTypes /\ pdp[r] \in {"handling", "written"} /\ UNCHANGED benchVars
  BY DEF BenchInv, WriteAnswer, RecordEnd
<1>1. /\ pdp' \in {[pdp EXCEPT ![r] = "written"], [pdp EXCEPT ![r] = "recorded"]}
      /\ answers' \in {answers, answers \cup {r}}
      /\ UNCHANGED <<valid, phase, next, wg, g, results, csv>>
  BY DEF WriteAnswer, RecordEnd, benchVars
<1>2. pdp'[r] \in {"written", "recorded"} /\ \A q \in Attempts \ {r} : pdp'[q] = pdp[q]
  BY <1>0, <1>1 DEF BenchTypes
<1>3. BenchTypes'
  BY <1>0, <1>1 DEF BenchTypes
<1>4. ASSUME NEW q \in Attempts PROVE Consistent(q)'
  <2>1. Consistent(q)
    BY DEF BenchInv
  <2>2. CASE q = r
    BY <1>0, <1>1, <1>2, <2>1, <2>2 DEF Consistent
  <2>3. CASE q # r
    BY <1>1, <1>2, <2>1, <2>3 DEF Consistent
  <2> QED
    BY <2>2, <2>3
<1>5. Running' = Running
  BY <1>1 DEF Running
<1>6. Reported'
  BY <1>1 DEF BenchInv, Reported
<1> QED
  BY <1>1, <1>3, <1>4, <1>5, <1>6 DEF BenchInv

LEMMA BenchNext == BenchInv /\ [Next]_vars => BenchInv'
<1> SUFFICES ASSUME BenchInv, [Next]_vars PROVE BenchInv'
  OBVIOUS
<1>0. BenchTypes /\ Reported /\ N \in Nat
  BY BenchConstants DEF BenchInv
<1>1. ASSUME UNCHANGED <<valid, next, wg, g, results, pdp, answers>>,
             phase' \in {"loop"} \cup Finished, Reported'
      PROVE  BenchInv'
  <2>1. BenchTypes'
    BY <1>0, <1>1 DEF BenchTypes
  <2>2. ASSUME NEW r \in Attempts PROVE Consistent(r)'
    <3>1. Consistent(r)
      BY DEF BenchInv
    <3> QED
      BY <1>1, <3>1 DEF Consistent
  <2>3. Running' = Running
    BY <1>1 DEF Running
  <2> QED
    BY <1>1, <2>1, <2>2, <2>3 DEF BenchInv
<1>2. CASE Reset
  <2>1. phase' = "loop" /\ UNCHANGED <<valid, next, wg, g, results, pdp, answers>>
    BY <1>2 DEF Reset
  <2>2. Reported'
    BY <2>1 DEF Reported, Finished
  <2> QED
    BY <1>1, <2>1, <2>2
<1>3. CASE Raw
  <2>1. phase = "exited" /\ phase' = "read" /\ UNCHANGED <<valid, next, wg, g, results, csv, pdp, answers>>
    BY <1>3 DEF Raw
  <2>2. Reported'
    BY <1>0, <2>1 DEF Reported, Finished
  <2>3. phase' \in {"loop"} \cup Finished
    BY <2>1 DEF Finished
  <2> QED
    BY <1>1, <2>1, <2>2, <2>3
<1>4. CASE Report
  <2>1. /\ phase = "loop" /\ next > N /\ wg = 0 /\ csv' = results
        /\ phase' = IF \A r \in Attempts : results[r] = "ok" THEN "exited" ELSE "failed"
        /\ UNCHANGED <<valid, next, wg, g, results, pdp, answers>>
    BY <1>4 DEF Report
  <2>2. next = N + 1
    BY <1>0, <2>1 DEF BenchTypes
  <2>3. phase' \in {"exited", "failed"} /\ (phase' = "exited" => \A r \in Attempts : results[r] = "ok")
    BY <2>1
  <2>4. Reported'
    BY <2>1, <2>2, <2>3 DEF Reported
  <2>5. phase' \in {"loop"} \cup Finished
    BY <2>3 DEF Finished
  <2> QED
    BY <1>1, <2>1, <2>4, <2>5
<1>5. CASE Launch
  <2>1. /\ phase = "loop" /\ next <= N /\ next' = next + 1 /\ wg' = wg + 1
        /\ g' = [g EXCEPT ![next] = "started"]
        /\ UNCHANGED <<valid, phase, results, csv, pdp, answers>>
    BY <1>5 DEF Launch, Added
  <2>2. next \in Attempts /\ next \in Nat /\ next' \in 1..(N + 1)
    BY <1>0, <2>1 DEF BenchTypes, Attempts
  <2>3. g'[next] = "started" /\ \A r \in Attempts \ {next} : g'[r] = g[r]
    BY <1>0, <2>1, <2>2 DEF BenchTypes
  <2>4. BenchTypes'
    BY <1>0, <2>1, <2>2 DEF BenchTypes
  <2>5. g[next] = "none"
    BY <2>2 DEF BenchInv, Consistent
  <2>6. ASSUME NEW r \in Attempts PROVE Consistent(r)'
    <3>1. Consistent(r) /\ r \in Nat
      BY DEF BenchInv, Attempts
    <3>2. CASE r = next
      <4>1. results[r] = NoResult /\ pdp[r] = "none" /\ r \notin answers
        BY <2>5, <3>1, <3>2 DEF Consistent
      <4>2. ~(r >= next')
        BY <2>1, <2>2, <3>2
      <4> QED
        BY <2>1, <2>3, <3>2, <4>1, <4>2, BenchConstants DEF Consistent
    <3>3. CASE r # next
      <4>1. r >= next' <=> r >= next
        BY <2>1, <2>2, <3>1, <3>3
      <4>2. g'[r] = g[r]
        BY <2>3, <3>3
      <4> QED
        BY <2>1, <3>1, <4>1, <4>2 DEF Consistent
    <3> QED
      BY <3>2, <3>3
  <2>7. Running' = Running \cup {next} /\ next \notin Running /\ Running \in SUBSET Attempts
    BY <2>2, <2>3, <2>5 DEF Running
  <2>8. wg' = Cardinality(Running')
    BY <2>1, <2>7, CountRunning, FS_AddElement DEF BenchInv
  <2>9. Reported'
    BY <2>1 DEF Reported, Finished
  <2> QED
    BY <2>4, <2>6, <2>8, <2>9 DEF BenchInv
<1>6. CASE RecordOld \/ UNCHANGED vars
  <2>1. UNCHANGED <<valid, phase, next, wg, g, results, csv, pdp, answers>>
    BY <1>6 DEF RecordOld, vars, benchVars
  <2>2. \A r \in Attempts : Consistent(r)'
    BY <2>1 DEF BenchInv, Consistent
  <2>3. Running' = Running
    BY <2>1 DEF Running
  <2> QED
    BY <1>0, <2>1, <2>2, <2>3 DEF BenchInv, BenchTypes, Reported
<1> QED
  BY <1>2, <1>3, <1>4, <1>5, <1>6, AttemptNext, HandlerNext DEF Next

LEMMA BenchInit == Init => BenchInv /\ MetricsInv /\ Counted
<1> SUFFICES ASSUME Init PROVE BenchInv /\ MetricsInv /\ Counted
  OBVIOUS
<1>0. N \in Nat
  BY BenchConstants
<1>1. BenchTypes /\ Reported
  BY <1>0, BenchConstants DEF Init, BenchTypes, Reported, Finished
<1>2. ASSUME NEW r \in Attempts PROVE Consistent(r)
  <2>1. g[r] = "none" /\ results[r] = NoResult /\ pdp[r] = "none" /\ answers = {} /\ r >= next
    BY <1>0 DEF Init, Attempts
  <2> QED
    BY <2>1, BenchConstants DEF Consistent
<1>3. Running = {} /\ RecordedAttempts = {} /\ wg = 0 /\ seq = 0 /\ events = <<>>
  BY DEF Init, Running, RecordedAttempts
<1>4. BenchInv
  BY <1>1, <1>2, <1>3, FS_EmptySet DEF BenchInv
<1>5. Counted
  BY <1>3, FS_EmptySet DEF Counted
<1>6. MetricsInv
  BY <1>3, BenchConstants DEF MetricsInv, Bounded
<1> QED
  BY <1>4, <1>5, <1>6

LEMMA MetricsNext == MetricsInv /\ [Next]_vars => MetricsInv'
<1> SUFFICES ASSUME MetricsInv, [Next]_vars PROVE MetricsInv'
  OBVIOUS
<1>1. CASE UNCHANGED metricsVars
  BY <1>1 DEF metricsVars, MetricsInv
<1>2. CASE Reset
  BY <1>2, BenchConstants DEF Reset, MetricsInv, Bounded
<1>3. CASE recordSPAMetric
  BY <1>3, RecordKeepsNewest
<1> QED
  BY <1>1, <1>2, <1>3 DEF Next, Raw, Launch, Report, RecordOld, Attempt, SendDatagram, NotSent,
     ReadAnswer, ReadTimesOut, Store, Release, Done, WriteAnswer, RecordEnd, vars

LEMMA CountedNext == BenchInv /\ MetricsInv /\ Counted /\ [Next]_vars => Counted'
<1> SUFFICES ASSUME BenchInv, MetricsInv, Counted, [Next]_vars PROVE Counted'
  OBVIOUS
<1>0. /\ RecordedAttempts \in SUBSET Attempts /\ IsFiniteSet(RecordedAttempts)
      /\ Cardinality(RecordedAttempts) \in Nat /\ seq \in Nat /\ BenchTypes
  BY CountRunning DEF RecordedAttempts, MetricsInv, BenchInv
<1>1. ASSUME RecordedAttempts' = RecordedAttempts, seq' = seq \/ seq' = seq + 1 PROVE Counted'
  BY <1>0, <1>1 DEF Counted
<1>2. CASE Reset
  <2>1. phase = "start" /\ seq' = 0 /\ pdp' = pdp
    BY <1>2 DEF Reset
  <2>2. next = 1
    BY <2>1 DEF BenchInv, Reported
  <2>3. \A r \in Attempts : pdp[r] = "none"
    BY <2>2, BenchConstants DEF BenchInv, Consistent, Attempts
  <2>4. RecordedAttempts' = {}
    BY <2>1, <2>3 DEF RecordedAttempts
  <2> QED
    BY <2>1, <2>4, FS_EmptySet DEF Counted
<1>3. ASSUME NEW r \in Attempts, RecordEnd(r) PROVE Counted'
  <2>1. pdp' = [pdp EXCEPT ![r] = "recorded"] /\ seq' = seq + 1
    BY <1>3 DEF RecordEnd, recordSPAMetric
  <2>2. RecordedAttempts' = RecordedAttempts \cup {r}
    BY <1>0, <2>1 DEF RecordedAttempts, BenchTypes
  <2>3. Cardinality(RecordedAttempts') <= Cardinality(RecordedAttempts) + 1
        /\ Cardinality(RecordedAttempts') \in Nat
    <3>1. Cardinality(RecordedAttempts \cup {r}) \in
              {Cardinality(RecordedAttempts), Cardinality(RecordedAttempts) + 1}
      BY <1>0, FS_AddElement
    <3> QED
      BY <1>0, <2>2, <3>1
  <2> QED
    BY <1>0, <2>1, <2>3 DEF Counted
<1>4. ASSUME NEW r \in Attempts, WriteAnswer(r) PROVE Counted'
  <2>1. pdp[r] = "handling" /\ pdp' = [pdp EXCEPT ![r] = "written"] /\ seq' = seq
    BY <1>4 DEF WriteAnswer, metricsVars
  <2>2. RecordedAttempts' = RecordedAttempts
    BY <1>0, <2>1 DEF RecordedAttempts, BenchTypes
  <2> QED
    BY <1>1, <2>1, <2>2
<1>5. ASSUME NEW r \in Attempts, Attempt(r) PROVE Counted'
  <2>1. seq' = seq /\ (pdp' = pdp \/ (g[r] = "started" /\ pdp' = [pdp EXCEPT ![r] = "handling"]))
    BY <1>5 DEF Attempt, SendDatagram, NotSent, ReadAnswer, ReadTimesOut, Store, Release, Done, metricsVars
  <2>2. g[r] = "started" => pdp[r] = "none"
    BY DEF BenchInv, Consistent
  <2>3. RecordedAttempts' = RecordedAttempts
    BY <1>0, <2>1, <2>2 DEF RecordedAttempts, BenchTypes
  <2> QED
    BY <1>1, <2>1, <2>3
<1>6. CASE Raw \/ Launch \/ Report \/ RecordOld \/ UNCHANGED vars
  <2>1. pdp' = pdp /\ (seq' = seq \/ seq' = seq + 1)
    BY <1>6 DEF Raw, Launch, Report, RecordOld, recordSPAMetric, metricsVars, vars
  <2>2. RecordedAttempts' = RecordedAttempts
    BY <2>1 DEF RecordedAttempts
  <2> QED
    BY <1>1, <2>1, <2>2
<1> QED
  BY <1>2, <1>3, <1>4, <1>5, <1>6 DEF Next

LEMMA BenchInvariance == Spec => [](BenchInv /\ MetricsInv /\ Counted)
<1>1. BenchInv /\ MetricsInv /\ Counted /\ [Next]_vars => (BenchInv /\ MetricsInv /\ Counted)'
  BY BenchNext, MetricsNext, CountedNext
<1> QED
  BY <1>1, BenchInit, PTL DEF Spec

(* The report waits for every attempt and says of none that it went well   *)
(* unless the PDP answered it (benchHandshakeRate).                        *)
THEOREM WholeReports == Spec => []ReportIsWhole
<1>1. BenchInv => ReportIsWhole
  <2> SUFFICES ASSUME BenchInv, phase \in Finished, NEW r \in Attempts
               PROVE  /\ csv[r] # NoResult /\ csv[r] = results[r] /\ g[r] = "ended"
                      /\ valid /\ csv[r] = "ok" => pdp[r] \in {"written", "recorded"}
    BY DEF ReportIsWhole, Finished
  <2>1. csv = results /\ wg = 0 /\ next = N + 1
    BY DEF BenchInv, Reported
  <2>2. g[r] = "ended"
    BY <2>1, AllEnded
  <2> QED
    BY <2>1, <2>2 DEF BenchInv, Consistent
<1> QED
  BY <1>1, BenchInvariance, PTL

(* The buffer holds the newest events since the reset without a gap, and   *)
(* misses only the answered attempts whose goroutine has yet to record     *)
(* (recordSPAMetric, handleUDPPacket).                                     *)
THEOREM NewestMetrics == Spec => []MetricsAreNewest
<1>1. BenchInv /\ MetricsInv /\ Counted => MetricsAreNewest
  <2> SUFFICES ASSUME BenchInv, MetricsInv, Counted PROVE MetricsAreNewest
    OBVIOUS
  <2>1. Len(events) = Min({seq, MetricsMax})
    BY BoundedIsMin DEF MetricsInv
  <2>2. \A k \in DOMAIN events : events[k] = seq - Len(events) + k
    BY DEF MetricsInv
  <2>3. ASSUME valid, phase = "exited"
        PROVE  seq >= N - Cardinality({r \in Attempts : pdp[r] = "written"})
    <3> DEFINE W == {r \in Attempts : pdp[r] = "written"}
    <3>1. \A r \in Attempts : pdp[r] \in {"written", "recorded"}
      BY <2>3 DEF BenchInv, Reported, Consistent
    <3>2. Attempts \ W = RecordedAttempts /\ Attempts \cap W = W
      BY <3>1 DEF RecordedAttempts
    <3> HIDE DEF W
    <3>3. Cardinality(RecordedAttempts) = N - Cardinality(W)
      BY <3>2, CountRunning, FS_Difference
    <3> QED
      BY <3>3 DEF Counted, W
  <2> QED
    BY <2>1, <2>2, <2>3 DEF MetricsAreNewest
<1> QED
  BY <1>1, BenchInvariance, PTL
=============================================================================
