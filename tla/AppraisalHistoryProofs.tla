----------------------- MODULE AppraisalHistoryProofs -----------------------
(***************************************************************************)
(* Theorems about AppraisalHistory: the loop of verifyEnforcementPolicy    *)
(* accepts exactly the acceptable logs, for any events, session keys,      *)
(* profile, scope and lifetime, and what it carries from submission to     *)
(* submission is what the whole history says.                              *)
(***************************************************************************)
EXTENDS AppraisalHistory, WellFoundedInduction, TLAPS

-----------------------------------------------------------------------------
(* Numbers. *)

(* Induction, stated for a set of numbers. *)
LEMMA Induction ==
    ASSUME NEW S, 0 \in S, \A n \in Nat : n \in S => n + 1 \in S
    PROVE  Nat \subseteq S
<1> DEFINE T == {n \in Nat : n \notin S}
           R == OpToRel(<, Nat)
<1> SUFFICES ASSUME T # {} PROVE FALSE
  OBVIOUS
<1>1. PICK m \in T : \A y \in T : ~(<<y, m>> \in R)
  BY NatLessThanWellFounded, WFMin
<1>2. m \in Nat /\ m # 0
  OBVIOUS
<1>3. m - 1 \in Nat /\ (m - 1) + 1 = m /\ m - 1 < m
  BY <1>2
<1>4. m - 1 \in T
  BY <1>2, <1>3
<1> QED
  BY <1>1, <1>2, <1>3, <1>4 DEF OpToRel

(* The greatest element of a bounded set of numbers. *)
LEMMA MaxIs ==
    ASSUME NEW S \in SUBSET Int, NEW x \in S, \A y \in S : y <= x
    PROVE  Max(S) = x
<1>1. Max(S) \in S /\ \A y \in S : Max(S) >= y
  BY DEF Max
<1>2. Max(S) \in Int /\ x \in Int /\ Max(S) <= x /\ x <= Max(S)
  BY <1>1
<1> QED
  BY <1>2

LEMMA MaxExists ==
    ASSUME NEW n \in Nat, NEW S \in SUBSET (0..n), S # {}
    PROVE  Max(S) \in S /\ \A y \in S : y <= Max(S)
<1> DEFINE P == {m \in Nat : \A U \in SUBSET (0..m) : U # {} => \E x \in U : \A y \in U : y <= x}
<1>1. 0 \in P
  <2> SUFFICES ASSUME NEW U \in SUBSET (0..0), U # {} PROVE \E x \in U : \A y \in U : y <= x
    OBVIOUS
  <2>1. PICK x \in U : TRUE
    OBVIOUS
  <2>2. \A y \in U : y <= x
    OBVIOUS
  <2> QED
    BY <2>2
<1>2. ASSUME NEW m \in Nat, m \in P PROVE m + 1 \in P
  <2> SUFFICES ASSUME NEW U \in SUBSET (0..(m + 1)), U # {} PROVE \E x \in U : \A y \in U : y <= x
    OBVIOUS
  <2>1. CASE m + 1 \in U
    BY <2>1
  <2>2. CASE m + 1 \notin U
    <3>1. U \in SUBSET (0..m)
      BY <2>2
    <3> QED
      BY <1>2, <3>1
  <2> QED
    BY <2>1, <2>2
<1>3. n \in P
  <2> HIDE DEF P
  <2> QED
    BY <1>1, <1>2, Induction
<1>4. PICK x \in S : \A y \in S : y <= x
  BY <1>3
<1> QED
  BY <1>4, MaxIs

-----------------------------------------------------------------------------
(* The fold of PolicyLoop, one event at a time. *)

Start(sessions) == [ok |-> TRUE, active |-> sessions, stage |-> [k \in Keys |-> Stage("none", NoPlan)]]

(* The recursive function under the fold, on the positions up to n. *)
IsLoop(f, n, events, sessions, maxLife, scope) ==
    f = [s \in SUBSET (1..n) |->
           IF s = {} THEN Start(sessions)
           ELSE PolicyStep(f[s \ {Max(s)}], events[Max(s)], maxLife, scope)]

LEMMA LoopExists ==
    ASSUME NEW events \in Seq(Candidates), NEW sessions, NEW maxLife, NEW scope, NEW n \in Nat
    PROVE  \E f : IsLoop(f, n, events, sessions, maxLife, scope)
<1> DEFINE Q(m) == \E f : IsLoop(f, m, events, sessions, maxLife, scope)
           P == {m \in Nat : Q(m)}
<1>1. Q(0)
  <2> DEFINE f == [s \in SUBSET (1..0) |-> Start(sessions)]
  <2>1. SUBSET (1..0) = {{}}
    OBVIOUS
  <2>2. IsLoop(f, 0, events, sessions, maxLife, scope)
    BY <2>1 DEF IsLoop
  <2> QED
    BY <2>2
<1>2. ASSUME NEW m \in Nat, Q(m) PROVE Q(m + 1)
  <2>1. PICK f : IsLoop(f, m, events, sessions, maxLife, scope)
    BY <1>2
  <2> DEFINE g == [s \in SUBSET (1..(m + 1)) |->
                     IF m + 1 \in s THEN PolicyStep(f[s \ {m + 1}], events[m + 1], maxLife, scope) ELSE f[s]]
  <2>2. ASSUME NEW s \in SUBSET (1..(m + 1)), s # {}
        PROVE  /\ Max(s) \in s /\ s \ {Max(s)} \in SUBSET (1..m)
               /\ m + 1 \in s => Max(s) = m + 1
               /\ m + 1 \notin s => s \in SUBSET (1..m)
    <3>1. s \in SUBSET (0..(m + 1))
      OBVIOUS
    <3>2. Max(s) \in s /\ \A y \in s : y <= Max(s)
      <4>1. m + 1 \in Nat
        OBVIOUS
      <4> QED
        BY <2>2, <3>1, <4>1, MaxExists
    <3>3. \A y \in s : y \in 1..(m + 1)
      OBVIOUS
    <3>4. m + 1 \in s => Max(s) = m + 1
      <4> SUFFICES ASSUME m + 1 \in s PROVE Max(s) = m + 1
        OBVIOUS
      <4>1. Max(s) \in 1..(m + 1) /\ m + 1 <= Max(s)
        BY <3>2, <3>3
      <4> QED
        BY <4>1
    <3>5. m + 1 \notin s \ {Max(s)}
      BY <3>4
    <3>6. \A y \in 1..(m + 1) : y # m + 1 => y \in 1..m
      OBVIOUS
    <3> QED
      BY <3>2, <3>3, <3>4, <3>5, <3>6
  <2>3. ASSUME NEW s \in SUBSET (1..(m + 1)), s # {}
        PROVE  g[s] = PolicyStep(g[s \ {Max(s)}], events[Max(s)], maxLife, scope)
    <3>1. m + 1 \notin s \ {Max(s)} /\ s \ {Max(s)} \in SUBSET (1..(m + 1))
      BY <2>2, <2>3
    <3>2. g[s \ {Max(s)}] = f[s \ {Max(s)}]
      BY <3>1
    <3>3. CASE m + 1 \in s
      BY <2>2, <2>3, <3>2, <3>3
    <3>4. CASE m + 1 \notin s
      <4>1. f[s] = PolicyStep(f[s \ {Max(s)}], events[Max(s)], maxLife, scope)
        BY <2>1, <2>2, <2>3, <3>4 DEF IsLoop
      <4> QED
        BY <3>2, <3>4, <4>1
    <3> QED
      BY <3>3, <3>4
  <2>4. g[{}] = Start(sessions)
    BY <2>1 DEF IsLoop
  <2>5. IsLoop(g, m + 1, events, sessions, maxLife, scope)
    <3>1. g = [s \in SUBSET (1..(m + 1)) |-> g[s]]
      OBVIOUS
    <3> HIDE DEF g
    <3> QED
      BY <2>3, <2>4, <3>1 DEF IsLoop
  <2> QED
    BY <2>5
<1>3. n \in P
  <2>1. 0 \in P /\ \A m \in Nat : m \in P => m + 1 \in P
    BY <1>1, <1>2
  <2> HIDE DEF P
  <2> QED
    BY <2>1, Induction
<1> QED
  BY <1>3

LEMMA LoopIsFold ==
    ASSUME NEW events \in Seq(Candidates), NEW sessions, NEW maxLife, NEW scope
    PROVE  \E f : /\ IsLoop(f, Len(events), events, sessions, maxLife, scope)
                  /\ PolicyLoop(events, sessions, maxLife, scope) = f[1..Len(events)]
<1> DEFINE f == CHOOSE h : IsLoop(h, Len(events), events, sessions, maxLife, scope)
<1>1. PolicyLoop(events, sessions, maxLife, scope)
        = (CHOOSE h : h = [s \in SUBSET DOMAIN events |->
                            IF s = {} THEN Start(sessions)
                            ELSE PolicyStep(h[s \ {Max(s)}], events[Max(s)], maxLife, scope)])[DOMAIN events]
  BY Zenon DEF PolicyLoop, FoldLeft, MapThenFoldSet, Start
<1>2. DOMAIN events = 1..Len(events) /\ Len(events) \in Nat
  OBVIOUS
<1>3. PolicyLoop(events, sessions, maxLife, scope) = f[1..Len(events)]
  BY <1>1, <1>2, Zenon DEF IsLoop
<1>4. \E h : IsLoop(h, Len(events), events, sessions, maxLife, scope)
  BY <1>2, LoopExists
<1>5. IsLoop(f, Len(events), events, sessions, maxLife, scope)
  BY <1>4, Zenon
<1> QED
  BY <1>3, <1>5, Zenon

LEMMA LoopUnfolds ==
    ASSUME NEW events, NEW sessions, NEW maxLife, NEW scope, NEW n \in Nat,
           NEW f, IsLoop(f, n, events, sessions, maxLife, scope)
    PROVE  /\ f[{}] = Start(sessions)
           /\ \A m \in 1..n : f[1..m] = PolicyStep(f[1..(m - 1)], events[m], maxLife, scope)
<1>1. {} \in SUBSET (1..n)
  OBVIOUS
<1>2. f[{}] = Start(sessions)
  BY <1>1 DEF IsLoop
<1>3. ASSUME NEW m \in 1..n PROVE f[1..m] = PolicyStep(f[1..(m - 1)], events[m], maxLife, scope)
  <2>1. 1..m \in SUBSET (1..n) /\ 1..m # {} /\ (1..m) \ {m} = 1..(m - 1)
    OBVIOUS
  <2>2. Max(1..m) = m
    <3>1. m \in 1..m /\ 1..m \in SUBSET Int /\ \A y \in 1..m : y <= m
      OBVIOUS
    <3> QED
      BY <3>1, MaxIs
  <2> QED
    BY <2>1, <2>2 DEF IsLoop
<1> QED
  BY <1>2, <1>3

(* No event: the loop returns where it started. *)
LEMMA LoopEmpty ==
    ASSUME NEW sessions, NEW maxLife, NEW scope
    PROVE  PolicyLoop(<<>>, sessions, maxLife, scope) = Start(sessions)
<1>1. <<>> \in Seq(Candidates) /\ Len(<<>>) = 0 /\ 1..0 = {}
  OBVIOUS
<1>2. PICK f : /\ IsLoop(f, Len(<<>>), <<>>, sessions, maxLife, scope)
               /\ PolicyLoop(<<>>, sessions, maxLife, scope) = f[1..Len(<<>>)]
  BY <1>1, LoopIsFold
<1>3. PolicyLoop(<<>>, sessions, maxLife, scope) = f[{}]
  BY <1>1, <1>2
<1>4. f[{}] = Start(sessions)
  BY <1>2 DEF IsLoop
<1> QED
  BY <1>3, <1>4

(* One more event: one more step. *)
LEMMA LoopAppend ==
    ASSUME NEW events \in Seq(Candidates), NEW e \in Candidates, NEW sessions, NEW maxLife, NEW scope
    PROVE  PolicyLoop(Append(events, e), sessions, maxLife, scope)
             = PolicyStep(PolicyLoop(events, sessions, maxLife, scope), e, maxLife, scope)
<1> DEFINE longer == Append(events, e)
           n == Len(events)
<1>1. /\ longer \in Seq(Candidates) /\ Len(longer) = n + 1 /\ n \in Nat /\ n + 1 \in Nat
      /\ longer[n + 1] = e /\ \A m \in 1..n : longer[m] = events[m]
  OBVIOUS
<1> HIDE DEF longer
<1>2. PICK f : /\ IsLoop(f, n, events, sessions, maxLife, scope)
               /\ PolicyLoop(events, sessions, maxLife, scope) = f[1..n]
  BY LoopIsFold
<1>3. PICK g : /\ IsLoop(g, n + 1, longer, sessions, maxLife, scope)
               /\ PolicyLoop(longer, sessions, maxLife, scope) = g[1..(n + 1)]
  <2>1. \E g : /\ IsLoop(g, Len(longer), longer, sessions, maxLife, scope)
               /\ PolicyLoop(longer, sessions, maxLife, scope) = g[1..Len(longer)]
    BY <1>1, LoopIsFold
  <2> QED
    BY <1>1, <2>1
<1> DEFINE P == {m \in Nat : m <= n => g[1..m] = f[1..m]}
<1>6. n \in P
  <2>1. 0 \in P
    <3>1. g[{}] = f[{}]
      BY <1>1, <1>2, <1>3, LoopUnfolds
    <3>2. 1..0 = {}
      OBVIOUS
    <3> QED
      BY <3>1, <3>2
  <2>2. ASSUME NEW m \in Nat, m \in P PROVE m + 1 \in P
    <3> SUFFICES ASSUME m + 1 <= n PROVE g[1..(m + 1)] = f[1..(m + 1)]
      OBVIOUS
    <3>1. m + 1 \in 1..n /\ m + 1 \in 1..(n + 1) /\ (m + 1) - 1 = m /\ m <= n
      BY <1>1
    <3>2. f[1..(m + 1)] = PolicyStep(f[1..m], events[m + 1], maxLife, scope)
      BY <1>1, <1>2, <3>1, LoopUnfolds
    <3>3. g[1..(m + 1)] = PolicyStep(g[1..m], longer[m + 1], maxLife, scope)
      BY <1>1, <1>3, <3>1, LoopUnfolds
    <3> QED
      BY <1>1, <2>2, <3>1, <3>2, <3>3
  <2> HIDE DEF P
  <2> QED
    BY <1>1, <2>1, <2>2, Induction
<1>7. g[1..(n + 1)] = PolicyStep(g[1..n], longer[n + 1], maxLife, scope)
  <2>1. n + 1 \in 1..(n + 1) /\ (n + 1) - 1 = n
    BY <1>1
  <2> QED
    BY <1>1, <1>3, <2>1, LoopUnfolds
<1>8. g[1..n] = f[1..n]
  BY <1>1, <1>6
<1> QED
  BY <1>1, <1>2, <1>3, <1>7, <1>8 DEF longer

(* What an iteration does; the CHOOSE of PolicyStep has one candidate. *)
LEMMA StepIs ==
    ASSUME NEW s, NEW e, NEW maxLife, NEW scope
    PROVE  PolicyStep(s, e, maxLife, scope)
             = IF s.ok /\ Admits(s, e, maxLife, scope) THEN AfterEvent(s, e) ELSE [s EXCEPT !.ok = FALSE]
<1> DEFINE after(t) == IF t.ok /\ Admits(t, e, maxLife, scope) THEN AfterEvent(t, e) ELSE [t EXCEPT !.ok = FALSE]
<1>1. PolicyStep(s, e, maxLife, scope) = CHOOSE r \in {after(t) : t \in {s}} : TRUE
  BY DEF PolicyStep
<1> HIDE DEF after
<1>2. {after(t) : t \in {s}} = {after(s)}
  OBVIOUS
<1>3. PolicyStep(s, e, maxLife, scope) \in {after(s)}
  BY <1>1, <1>2, Zenon
<1>4. PolicyStep(s, e, maxLife, scope) = after(s)
  BY <1>3
<1> QED
  BY <1>4 DEF after

-----------------------------------------------------------------------------
(* Positions in a log and in the log with one more event. *)

LEMMA TopIs ==
    ASSUME NEW n \in Nat, NEW T \in SUBSET (1..n)
    PROVE  /\ Max({0} \cup T) \in {0} \cup T /\ Max({0} \cup T) \in 0..n
           /\ \A y \in T : y <= Max({0} \cup T)
           /\ Max({0} \cup T) = 0 <=> T = {}
<1> DEFINE top == Max({0} \cup T)
<1>1. {0} \cup T \in SUBSET (0..n) /\ {0} \cup T # {}
  OBVIOUS
<1>2. top \in {0} \cup T /\ \A y \in {0} \cup T : y <= top
  BY <1>1, MaxExists
<1> HIDE DEF top
<1>3. top \in 0..n /\ \A y \in T : y \in 1..n /\ y <= top
  BY <1>1, <1>2
<1>4. top = 0 <=> T = {}
  BY <1>2, <1>3
<1> QED
  BY <1>2, <1>3, <1>4 DEF top

LEMMA TopNew ==
    ASSUME NEW n \in Nat, NEW T \in SUBSET (1..n)
    PROVE  Max({0} \cup (T \cup {n + 1})) = n + 1
<1>1. /\ {0} \cup (T \cup {n + 1}) \in SUBSET Int /\ n + 1 \in {0} \cup (T \cup {n + 1})
      /\ \A y \in {0} \cup (T \cup {n + 1}) : y <= n + 1
  OBVIOUS
<1> QED
  BY <1>1, MaxIs

LEMMA Appended ==
    ASSUME NEW log \in Seq(Candidates), NEW e \in Candidates
    PROVE  /\ Append(log, e) \in Seq(Candidates) /\ Len(Append(log, e)) = Len(log) + 1
           /\ Append(log, e)[Len(log) + 1] = e
           /\ \A j \in 1..Len(log) : Append(log, e)[j] = log[j] /\ log[j] \in Candidates
           /\ DOMAIN log = 1..Len(log) /\ DOMAIN Append(log, e) = 1..(Len(log) + 1) /\ Len(log) \in Nat
OBVIOUS

(* The session events of a key, and its apply intents. *)
Lifecycle(log, k) == {j \in 1..Len(log) : log[j].type \in SessionTypes /\ log[j].key = k}
Intents(log, k)   == {j \in 1..Len(log) : log[j].key = k /\ log[j].type = "xfrm_apply_intent"}

LastEvent(log, k)  == Max({0} \cup Lifecycle(log, k))
LastIntent(log, k) == Max({0} \cup Intents(log, k))

(* Activations follow an intent: without it TrackedBefore names no plan. *)
Grounded(log) ==
    \A j \in 1..Len(log) : log[j].type = "session_activated" =>
        \E n \in 1..j : log[n].key = log[j].key /\ log[n].type = "xfrm_apply_intent"

(* What was said of the events up to a position stays said. *)
LEMMA PrefixKept ==
    ASSUME NEW log \in Seq(Candidates), Grounded(log),
           NEW e \in Candidates, NEW i \in 1..(Len(log) + 1), NEW k, NEW carried
    PROVE  /\ i \in 1..Len(log) => Earlier(Append(log, e), i) = Earlier(log, i)
           /\ Turns(Append(log, e), i, k) = Turns(log, i, k)
           /\ TrackedBefore(Append(log, e), i, k, carried) = TrackedBefore(log, i, k, carried)
<1> DEFINE longer == Append(log, e)
<1>1. /\ Len(longer) = Len(log) + 1 /\ Len(log) \in Nat /\ DOMAIN log = 1..Len(log)
      /\ \A j \in 1..Len(log) : longer[j] = log[j]
      /\ DOMAIN longer = 1..(Len(log) + 1)
  BY Appended
<1> HIDE DEF longer
<1>2. i \in 1..Len(log) => Earlier(longer, i) = Earlier(log, i)
  <2> SUFFICES ASSUME i \in 1..Len(log) PROVE Earlier(longer, i) = Earlier(log, i)
    OBVIOUS
  <2>1. longer[i] = log[i] /\ \A j \in 1..(i - 1) : longer[j] = log[j]
    BY <1>1
  <2> QED
    BY <2>1 DEF Earlier
<1>3. \A j \in 1..(i - 1) : j \in 1..Len(log) /\ j \in DOMAIN log /\ j \in DOMAIN longer /\ longer[j] = log[j]
  BY <1>1
<1>4. Turns(longer, i, k) = Turns(log, i, k)
  BY <1>3 DEF Turns, IsType
<1>5. TrackedBefore(longer, i, k, carried) = TrackedBefore(log, i, k, carried)
  <2> DEFINE j == Max({0} \cup Turns(log, i, k))
             N(l) == {n \in 1..j : l[n].key = k /\ l[n].type = "xfrm_apply_intent"}
             intent == Max({0} \cup N(log))
  <2>1. j \in 0..(i - 1) /\ i - 1 \in Nat
    <3>1. i - 1 \in Nat /\ Turns(log, i, k) \in SUBSET (1..(i - 1))
      BY <1>1 DEF Turns
    <3> QED
      BY <3>1, TopIs
  <2> HIDE DEF j
  <2>2. N(longer) = N(log)
    BY <1>3, <2>1
  <2>3. j # 0 => IsType(longer, j, {"session_activated"}) <=> IsType(log, j, {"session_activated"})
    BY <1>3, <2>1 DEF IsType
  <2>4. j # 0 => longer[j] = log[j]
    BY <1>3, <2>1
  <2>5. IsType(log, j, {"session_activated"}) /\ j # 0 => longer[intent] = log[intent]
    <3> SUFFICES ASSUME IsType(log, j, {"session_activated"}), j # 0 PROVE longer[intent] = log[intent]
      OBVIOUS
    <3>1. N(log) # {}
      <4>1. j \in 1..Len(log) /\ log[j].key = k /\ log[j].type = "session_activated"
        <5>1. j \in {0} \cup Turns(log, i, k)
          <6>1. i - 1 \in Nat /\ Turns(log, i, k) \in SUBSET (1..(i - 1))
            BY <1>1 DEF Turns
          <6> QED
            BY <6>1, TopIs DEF j
        <5> QED
          BY <1>3, <2>1, <5>1 DEF IsType, Turns
      <4> QED
        BY <4>1 DEF Grounded
    <3>2. intent \in 1..j
      <4>1. j \in Nat /\ N(log) \in SUBSET (1..j)
        BY <2>1
      <4>2. intent \in 0..j /\ intent # 0
        BY <3>1, <4>1, TopIs
      <4> QED
        BY <4>1, <4>2
    <3> QED
      BY <1>3, <2>1, <3>2
  <2> QED
    BY <1>4, <2>2, <2>3, <2>4, <2>5 DEF TrackedBefore, j
<1> QED
  BY <1>2, <1>4, <1>5 DEF longer

LEMMA EventsGrow ==
    ASSUME NEW log \in Seq(Candidates), NEW e \in Candidates, NEW k
    PROVE  /\ LastEvent(log, k) \in 0..Len(log) /\ LastIntent(log, k) \in 0..Len(log)
           /\ LastEvent(log, k) = 0 <=> Lifecycle(log, k) = {}
           /\ LastEvent(log, k) # 0 => /\ LastEvent(log, k) \in Lifecycle(log, k)
                                       /\ Append(log, e)[LastEvent(log, k)] = log[LastEvent(log, k)]
           /\ LastIntent(log, k) # 0 => /\ LastIntent(log, k) \in Intents(log, k)
                                        /\ Append(log, e)[LastIntent(log, k)] = log[LastIntent(log, k)]
           /\ LastEvent(Append(log, e), k)
                = IF e.key = k /\ e.type \in SessionTypes THEN Len(log) + 1 ELSE LastEvent(log, k)
           /\ LastIntent(Append(log, e), k)
                = IF e.key = k /\ e.type = "xfrm_apply_intent" THEN Len(log) + 1 ELSE LastIntent(log, k)
<1> DEFINE longer == Append(log, e)
           n == Len(log)
<1>1. /\ Len(longer) = n + 1 /\ n \in Nat /\ longer[n + 1] = e
      /\ \A j \in 1..n : longer[j] = log[j]
      /\ \A j \in 1..(n + 1) : j \in 1..n \/ j = n + 1
      /\ n + 1 \notin 1..n
  BY Appended
<1> HIDE DEF longer
<1>2. Lifecycle(log, k) \in SUBSET (1..n) /\ Intents(log, k) \in SUBSET (1..n)
  BY DEF Lifecycle, Intents
<1>3. Lifecycle(longer, k) = Lifecycle(log, k) \cup (IF e.key = k /\ e.type \in SessionTypes THEN {n + 1} ELSE {})
  <2>1. ASSUME NEW j PROVE j \in Lifecycle(longer, k)
                             <=> j \in Lifecycle(log, k) \/ (j = n + 1 /\ e.key = k /\ e.type \in SessionTypes)
    BY <1>1 DEF Lifecycle
  <2> QED
    BY <2>1
<1>4. Intents(longer, k) = Intents(log, k) \cup (IF e.key = k /\ e.type = "xfrm_apply_intent" THEN {n + 1} ELSE {})
  <2>1. ASSUME NEW j PROVE j \in Intents(longer, k)
                             <=> j \in Intents(log, k) \/ (j = n + 1 /\ e.key = k /\ e.type = "xfrm_apply_intent")
    BY <1>1 DEF Intents
  <2> QED
    BY <2>1
<1>5. LastEvent(longer, k) = IF e.key = k /\ e.type \in SessionTypes THEN n + 1 ELSE LastEvent(log, k)
  <2>1. CASE e.key = k /\ e.type \in SessionTypes
    <3>1. Lifecycle(longer, k) = Lifecycle(log, k) \cup {n + 1}
      BY <1>3, <2>1
    <3> QED
      BY <1>1, <1>2, <2>1, <3>1, TopNew DEF LastEvent
  <2>2. CASE ~(e.key = k /\ e.type \in SessionTypes)
    <3>1. Lifecycle(longer, k) = Lifecycle(log, k)
      BY <1>3, <2>2
    <3> QED
      BY <2>2, <3>1 DEF LastEvent
  <2> QED
    BY <2>1, <2>2
<1>6. LastIntent(longer, k) = IF e.key = k /\ e.type = "xfrm_apply_intent" THEN n + 1 ELSE LastIntent(log, k)
  <2>1. CASE e.key = k /\ e.type = "xfrm_apply_intent"
    <3>1. Intents(longer, k) = Intents(log, k) \cup {n + 1}
      BY <1>4, <2>1
    <3> QED
      BY <1>1, <1>2, <2>1, <3>1, TopNew DEF LastIntent
  <2>2. CASE ~(e.key = k /\ e.type = "xfrm_apply_intent")
    <3>1. Intents(longer, k) = Intents(log, k)
      BY <1>4, <2>2
    <3> QED
      BY <2>2, <3>1 DEF LastIntent
  <2> QED
    BY <2>1, <2>2
<1>7. /\ LastEvent(log, k) \in {0} \cup Lifecycle(log, k) /\ LastEvent(log, k) \in 0..n
      /\ LastEvent(log, k) = 0 <=> Lifecycle(log, k) = {}
  BY <1>1, <1>2, TopIs DEF LastEvent
<1>8. LastIntent(log, k) \in {0} \cup Intents(log, k) /\ LastIntent(log, k) \in 0..n
  BY <1>1, <1>2, TopIs DEF LastIntent
<1>9. \A j \in 0..n : j # 0 => longer[j] = log[j]
  BY <1>1
<1> QED
  BY <1>5, <1>6, <1>7, <1>8, <1>9 DEF longer

(* How an event changes what a key's session is. *)
LEMMA TrackedGrows ==
    ASSUME NEW log \in Seq(Candidates), Grounded(log), NEW e \in Candidates, NEW k, NEW carried,
           e.key = k /\ e.type = "session_activated" => LastIntent(log, k) # 0
    PROVE  TrackedBefore(Append(log, e), Len(log) + 2, k, carried)
             = IF e.key = k /\ e.type = "session_activated"
               THEN [exp |-> e.exp, plan |-> log[LastIntent(log, k)].plan]
               ELSE IF e.key = k /\ e.type = "xfrm_delete_observed" THEN NoSession
               ELSE TrackedBefore(log, Len(log) + 1, k, carried)
<1> DEFINE longer == Append(log, e)
           n == Len(log)
           turning == e.key = k /\ e.type \in {"session_activated", "xfrm_delete_observed"}
<1>1. /\ Len(longer) = n + 1 /\ n \in Nat /\ n + 1 \in Nat /\ longer[n + 1] = e
      /\ \A j \in 1..n : longer[j] = log[j]
      /\ DOMAIN longer = 1..(n + 1) /\ (n + 2) - 1 = n + 1 /\ (n + 1) - 1 = n
      /\ \A j \in 1..(n + 1) : j \in 1..n \/ j = n + 1
      /\ n + 1 \notin 1..n /\ n + 1 \in 1..(n + 1)
  BY Appended
<1>2. TrackedBefore(longer, n + 1, k, carried) = TrackedBefore(log, n + 1, k, carried)
  BY <1>1, PrefixKept
<1>3. LastIntent(longer, k) = (IF e.key = k /\ e.type = "xfrm_apply_intent" THEN n + 1 ELSE LastIntent(log, k))
      /\ (LastIntent(log, k) # 0 => longer[LastIntent(log, k)] = log[LastIntent(log, k)])
  BY EventsGrow
<1> HIDE DEF longer
<1>4. Turns(longer, n + 1, k) \in SUBSET (1..n)
  BY <1>1 DEF Turns
<1>5. Turns(longer, n + 2, k) = Turns(longer, n + 1, k) \cup (IF turning THEN {n + 1} ELSE {})
  <2>1. ASSUME NEW j PROVE j \in Turns(longer, n + 2, k) <=> j \in Turns(longer, n + 1, k) \/ (j = n + 1 /\ turning)
    BY <1>1 DEF Turns, IsType
  <2> QED
    BY <2>1
<1>6. CASE ~turning
  <2>1. Turns(longer, n + 2, k) = Turns(longer, n + 1, k)
    BY <1>5, <1>6
  <2> QED
    BY <1>2, <1>6, <2>1 DEF TrackedBefore, longer
<1>7. CASE turning
  <2>1. Turns(longer, n + 2, k) = Turns(longer, n + 1, k) \cup {n + 1}
    BY <1>5, <1>7
  <2>2. Max({0} \cup Turns(longer, n + 2, k)) = n + 1
    BY <1>1, <1>4, <2>1, TopNew
  <2>3. CASE e.type = "session_activated"
    <3>1. IsType(longer, n + 1, {"session_activated"}) /\ n + 1 # 0
      BY <1>1, <2>3 DEF IsType
    <3>2. {m \in 1..(n + 1) : longer[m].key = k /\ longer[m].type = "xfrm_apply_intent"} = Intents(longer, k)
      BY <1>1 DEF Intents
    <3>3. LastIntent(longer, k) = LastIntent(log, k)
      BY <1>3, <2>3
    <3>4. TrackedBefore(longer, n + 2, k, carried)
            = [exp |-> longer[n + 1].exp, plan |-> longer[LastIntent(longer, k)].plan]
      BY <2>2, <3>1, <3>2 DEF TrackedBefore, LastIntent
    <3> QED
      BY <1>1, <1>3, <1>7, <2>3, <3>3, <3>4 DEF longer
  <2>4. CASE e.type = "xfrm_delete_observed"
    <3>1. ~IsType(longer, n + 1, {"session_activated"}) /\ n + 1 # 0
      BY <1>1, <2>4 DEF IsType
    <3>2. TrackedBefore(longer, n + 2, k, carried) = NoSession
      BY <2>2, <3>1 DEF TrackedBefore
    <3> QED
      BY <1>7, <2>4, <3>2 DEF longer
  <2> QED
    BY <1>7, <2>3, <2>4
<1> QED
  BY <1>6, <1>7

LEMMA GroundedGrows ==
    ASSUME NEW log \in Seq(Candidates), Grounded(log), NEW e \in Candidates,
           e.type = "session_activated" => LastIntent(log, e.key) # 0
    PROVE  Grounded(Append(log, e))
<1> DEFINE longer == Append(log, e)
           n == Len(log)
<1>1. /\ Len(longer) = n + 1 /\ n \in Nat /\ longer[n + 1] = e
      /\ \A j \in 1..n : longer[j] = log[j]
  BY Appended
<1>2. LastIntent(log, e.key) # 0 => LastIntent(log, e.key) \in Intents(log, e.key)
  BY EventsGrow
<1> HIDE DEF longer
<1> SUFFICES ASSUME NEW j \in 1..(n + 1), longer[j].type = "session_activated"
             PROVE  \E m \in 1..j : longer[m].key = longer[j].key /\ longer[m].type = "xfrm_apply_intent"
  BY <1>1 DEF Grounded, longer
<1>3. CASE j \in 1..n
  <2>1. PICK m \in 1..j : log[m].key = log[j].key /\ log[m].type = "xfrm_apply_intent"
    BY <1>1, <1>3 DEF Grounded
  <2> QED
    BY <1>1, <1>3, <2>1
<1>4. CASE j = n + 1
  <2>1. LastIntent(log, e.key) \in Intents(log, e.key)
    BY <1>1, <1>2, <1>4
  <2>2. LastIntent(log, e.key) \in 1..n /\ log[LastIntent(log, e.key)].key = e.key
        /\ log[LastIntent(log, e.key)].type = "xfrm_apply_intent"
    BY <2>1 DEF Intents
  <2> QED
    BY <1>1, <1>4, <2>2
<1> QED
  BY <1>1, <1>3, <1>4

-----------------------------------------------------------------------------
(* The state of the loop. *)

PhaseAfter(type) ==
    CASE type = "xfrm_apply_intent"    -> "apply_intent"
      [] type = "xfrm_apply_observed"  -> "apply_observed"
      [] type = "session_activated"    -> "active"
      [] type = "session_expired"      -> "expired"
      [] type = "xfrm_delete_intent"   -> "delete_intent"
      [] type = "xfrm_delete_observed" -> "deleted"

Shaped(s) ==
    /\ DOMAIN s = {"ok", "active", "stage"} /\ s.ok \in BOOLEAN
    /\ DOMAIN s.active = Keys /\ DOMAIN s.stage = Keys

(* What an admitted session event does to its key, and to no other. *)
LEMMA AfterSession ==
    ASSUME NEW s, Shaped(s), NEW e, e.key \in Keys, e.type \in SessionTypes
    PROVE  /\ Shaped(AfterEvent(s, e)) /\ AfterEvent(s, e).ok = s.ok
           /\ \A x \in Keys : x # e.key => /\ AfterEvent(s, e).active[x] = s.active[x]
                                           /\ AfterEvent(s, e).stage[x] = s.stage[x]
           /\ AfterEvent(s, e).stage[e.key].phase = PhaseAfter(e.type)
           /\ AfterEvent(s, e).stage[e.key].plan
                = IF e.type \in {"xfrm_apply_intent", "xfrm_delete_intent"} THEN e.plan
                  ELSE IF e.type = "session_expired" THEN s.active[e.key].plan
                  ELSE s.stage[e.key].plan
           /\ AfterEvent(s, e).active[e.key]
                = IF e.type = "session_activated" THEN [exp |-> e.exp, plan |-> s.stage[e.key].plan]
                  ELSE IF e.type = "xfrm_delete_observed" THEN NoSession
                  ELSE s.active[e.key]
<1> DEFINE at(p) == [s EXCEPT !.stage[e.key] = p]
           on(p, a) == [at(p) EXCEPT !.active[e.key] = a]
<1>1. ASSUME NEW p
      PROVE  /\ Shaped(at(p)) /\ at(p).ok = s.ok /\ at(p).active = s.active
             /\ at(p).stage[e.key] = p /\ \A x \in Keys : x # e.key => at(p).stage[x] = s.stage[x]
  BY DEF Shaped
<1>2. ASSUME NEW p, NEW a
      PROVE  /\ Shaped(on(p, a)) /\ on(p, a).ok = s.ok
             /\ on(p, a).stage[e.key] = p /\ \A x \in Keys : x # e.key => on(p, a).stage[x] = s.stage[x]
             /\ on(p, a).active[e.key] = a /\ \A x \in Keys : x # e.key => on(p, a).active[x] = s.active[x]
  <2> HIDE DEF at
  <2> QED
    BY <1>1 DEF Shaped
<1> HIDE DEF at, on
<1>3. CASE e.type = "xfrm_apply_intent"
  <2>1. AfterEvent(s, e) = at(Stage("apply_intent", e.plan))
    BY <1>3 DEF AfterEvent, at
  <2> QED
    BY <1>1, <1>3, <2>1 DEF Stage, PhaseAfter
<1>4. CASE e.type = "xfrm_apply_observed"
  <2>1. AfterEvent(s, e) = at(Stage("apply_observed", s.stage[e.key].plan))
    BY <1>4 DEF AfterEvent, at
  <2> QED
    BY <1>1, <1>4, <2>1 DEF Stage, PhaseAfter
<1>5. CASE e.type = "session_activated"
  <2>1. AfterEvent(s, e) = on(Stage("active", s.stage[e.key].plan), [exp |-> e.exp, plan |-> s.stage[e.key].plan])
    BY <1>5 DEF AfterEvent, at, on
  <2> QED
    BY <1>2, <1>5, <2>1 DEF Stage, PhaseAfter
<1>6. CASE e.type = "session_expired"
  <2>1. AfterEvent(s, e) = at(Stage("expired", s.active[e.key].plan))
    BY <1>6 DEF AfterEvent, at
  <2> QED
    BY <1>1, <1>6, <2>1 DEF Stage, PhaseAfter
<1>7. CASE e.type = "xfrm_delete_intent"
  <2>1. AfterEvent(s, e) = at(Stage("delete_intent", e.plan))
    BY <1>7 DEF AfterEvent, at
  <2> QED
    BY <1>1, <1>7, <2>1 DEF Stage, PhaseAfter
<1>8. CASE e.type = "xfrm_delete_observed"
  <2>1. AfterEvent(s, e) = on(Stage("deleted", s.stage[e.key].plan), NoSession)
    BY <1>8 DEF AfterEvent, at, on
  <2> QED
    BY <1>2, <1>8, <2>1 DEF Stage, PhaseAfter
<1> QED
  BY <1>3, <1>4, <1>5, <1>6, <1>7, <1>8 DEF SessionTypes

LEMMA AfterOther ==
    ASSUME NEW s, NEW e, e.type \notin SessionTypes
    PROVE  AfterEvent(s, e) = s
BY DEF AfterEvent, SessionTypes

Applying == {"apply_intent", "apply_observed"}
Deleting == {"expired", "delete_intent"}

(* The loop's session and plan of a key are those of the log. *)
Agrees(log, carried, s, k) ==
    /\ s.active[k] = TrackedBefore(log, Len(log) + 1, k, carried)
    /\ s.stage[k].phase \in Applying =>
         LastIntent(log, k) # 0 /\ s.stage[k].plan = log[LastIntent(log, k)].plan

(* The loop's stage of a key is the last session event of the submission. *)
Staged(log, carried, s, k) ==
    /\ s.stage[k].phase = IF LastEvent(log, k) = 0 THEN "none" ELSE PhaseAfter(log[LastEvent(log, k)].type)
    /\ LastEvent(log, k) = 0 => s.active[k] = carried[k]
    /\ s.stage[k].phase \in Applying => s.active[k] = NoSession
    /\ s.stage[k].phase \in Applying \cup {"delete_intent"} => s.stage[k].plan # NoPlan
    /\ s.stage[k].phase \in {"apply_intent", "delete_intent"} => s.stage[k].plan = log[LastEvent(log, k)].plan
    /\ s.stage[k].phase \in Deleting => s.active[k] # NoSession
    /\ s.active[k] # NoSession => s.active[k].plan # NoPlan

(* A session being deleted has expired. *)
Overdue(log, s, k) ==
    s.stage[k].phase \in Deleting =>
        \E j \in Lifecycle(log, k) : log[j].type = "session_expired" /\ log[j].ts >= s.active[k].exp

LEMMA AgreesStep ==
    ASSUME NEW log \in Seq(Candidates), Grounded(log), NEW carried, NEW s, Shaped(s),
           NEW e \in Candidates, Admits(s, e, MaxSALifetime, Scope),
           \A k \in Keys : Agrees(log, carried, s, k)
    PROVE  /\ Grounded(Append(log, e))
           /\ \A k \in Keys : Agrees(Append(log, e), carried, AfterEvent(s, e), k)
<1> DEFINE longer == Append(log, e)
           a == AfterEvent(s, e)
<1>1. e.type \in SessionTypes => e.key \in Keys /\ AdmitsSessionEvent(s, e, MaxSALifetime)
  BY CandidateAssumption DEF Admits
<1>2. e.type = "session_activated" => LastIntent(log, e.key) # 0 /\ s.stage[e.key].plan = log[LastIntent(log, e.key)].plan
  <2> SUFFICES ASSUME e.type = "session_activated"
               PROVE  LastIntent(log, e.key) # 0 /\ s.stage[e.key].plan = log[LastIntent(log, e.key)].plan
    OBVIOUS
  <2>1. e.key \in Keys /\ s.stage[e.key].phase = "apply_observed"
    BY <1>1 DEF AdmitsSessionEvent, SessionTypes
  <2> QED
    BY <2>1 DEF Agrees, Applying
<1>3. Grounded(longer)
  BY <1>2, GroundedGrows
<1>4. ASSUME NEW k \in Keys PROVE Agrees(longer, carried, a, k)
  <2>1. Len(longer) + 1 = Len(log) + 2
    <3>1. Len(longer) = Len(log) + 1 /\ Len(log) \in Nat
      BY Appended
    <3> QED
      BY <3>1
  <2>2. TrackedBefore(longer, Len(log) + 2, k, carried)
          = IF e.key = k /\ e.type = "session_activated"
            THEN [exp |-> e.exp, plan |-> log[LastIntent(log, k)].plan]
            ELSE IF e.key = k /\ e.type = "xfrm_delete_observed" THEN NoSession
            ELSE TrackedBefore(log, Len(log) + 1, k, carried)
    BY <1>2, TrackedGrows
  <2>3. /\ LastIntent(longer, k)
             = IF e.key = k /\ e.type = "xfrm_apply_intent" THEN Len(log) + 1 ELSE LastIntent(log, k)
        /\ LastIntent(log, k) # 0 => longer[LastIntent(log, k)] = log[LastIntent(log, k)]
    BY EventsGrow
  <2>4. longer[Len(log) + 1] = e /\ Len(log) + 1 # 0
    BY Appended
  <2> HIDE DEF longer, a
  <2>5. CASE e.type \notin SessionTypes
    <3>1. a = s
      BY <2>5, AfterOther DEF a
    <3> QED
      BY <2>1, <2>2, <2>3, <2>5, <3>1 DEF Agrees, SessionTypes
  <2>6. CASE e.type \in SessionTypes /\ e.key # k
    <3>1. a.active[k] = s.active[k] /\ a.stage[k] = s.stage[k]
      BY <1>1, <2>6, AfterSession DEF a
    <3> QED
      BY <2>1, <2>2, <2>3, <2>6, <3>1 DEF Agrees
  <2>7. CASE e.type \in SessionTypes /\ e.key = k
    <3>1. /\ a.stage[k].phase = PhaseAfter(e.type)
          /\ a.stage[k].plan = IF e.type \in {"xfrm_apply_intent", "xfrm_delete_intent"} THEN e.plan
                               ELSE IF e.type = "session_expired" THEN s.active[k].plan
                               ELSE s.stage[k].plan
          /\ a.active[k] = IF e.type = "session_activated" THEN [exp |-> e.exp, plan |-> s.stage[k].plan]
                           ELSE IF e.type = "xfrm_delete_observed" THEN NoSession
                           ELSE s.active[k]
      BY <2>7, AfterSession DEF a
    <3>2. a.active[k] = TrackedBefore(longer, Len(longer) + 1, k, carried)
      BY <1>2, <2>1, <2>2, <2>7, <3>1 DEF Agrees
    <3>3. a.stage[k].phase \in Applying => e.type \in {"xfrm_apply_intent", "xfrm_apply_observed"}
      BY <2>7, <3>1 DEF PhaseAfter, Applying, SessionTypes
    <3>4. e.type = "xfrm_apply_observed" => s.stage[k].phase = "apply_intent"
      BY <1>1, <2>7 DEF AdmitsSessionEvent
    <3>5. a.stage[k].phase \in Applying =>
             LastIntent(longer, k) # 0 /\ a.stage[k].plan = longer[LastIntent(longer, k)].plan
      <4>1. CASE e.type = "xfrm_apply_intent"
        BY <2>3, <2>4, <2>7, <3>1, <4>1
      <4>2. CASE e.type = "xfrm_apply_observed"
        BY <2>3, <2>7, <3>1, <3>4, <4>2 DEF Agrees, Applying
      <4> QED
        BY <3>3, <4>1, <4>2
    <3> QED
      BY <3>2, <3>5 DEF Agrees
  <2> QED
    BY <2>5, <2>6, <2>7
<1> QED
  BY <1>3, <1>4

LEMMA StagedStep ==
    ASSUME NEW log \in Seq(Candidates), NEW carried, NEW s, Shaped(s),
           NEW e \in Candidates, Admits(s, e, MaxSALifetime, Scope),
           \A k \in Keys : Staged(log, carried, s, k)
    PROVE  \A k \in Keys : Staged(Append(log, e), carried, AfterEvent(s, e), k)
<1> DEFINE longer == Append(log, e)
           a == AfterEvent(s, e)
<1>1. e.type \in SessionTypes => e.key \in Keys /\ AdmitsSessionEvent(s, e, MaxSALifetime)
  BY CandidateAssumption DEF Admits
<1> SUFFICES ASSUME NEW k \in Keys PROVE Staged(longer, carried, a, k)
  OBVIOUS
<1>2. /\ LastEvent(longer, k)
           = IF e.key = k /\ e.type \in SessionTypes THEN Len(log) + 1 ELSE LastEvent(log, k)
      /\ LastEvent(log, k) # 0 => longer[LastEvent(log, k)] = log[LastEvent(log, k)]
  BY EventsGrow
<1>3. longer[Len(log) + 1] = e /\ Len(log) + 1 # 0
  BY Appended
<1> HIDE DEF longer, a
<1>4. CASE ~(e.type \in SessionTypes /\ e.key = k)
  <2>1. a.active[k] = s.active[k] /\ a.stage[k] = s.stage[k]
    BY <1>1, <1>4, AfterSession, AfterOther DEF a
  <2>2. LastEvent(longer, k) = LastEvent(log, k)
    BY <1>2, <1>4
  <2>3. s.stage[k].phase \in {"apply_intent", "delete_intent"} => LastEvent(log, k) # 0
    BY DEF Staged
  <2> QED
    BY <1>2, <2>1, <2>2, <2>3 DEF Staged
<1>5. CASE e.type \in SessionTypes /\ e.key = k
  <2>1. /\ a.stage[k].phase = PhaseAfter(e.type)
        /\ a.stage[k].plan = IF e.type \in {"xfrm_apply_intent", "xfrm_delete_intent"} THEN e.plan
                             ELSE IF e.type = "session_expired" THEN s.active[k].plan
                             ELSE s.stage[k].plan
        /\ a.active[k] = IF e.type = "session_activated" THEN [exp |-> e.exp, plan |-> s.stage[k].plan]
                         ELSE IF e.type = "xfrm_delete_observed" THEN NoSession
                         ELSE s.active[k]
    BY <1>5, AfterSession DEF a
  <2>2. LastEvent(longer, k) # 0 /\ longer[LastEvent(longer, k)] = e
    BY <1>2, <1>3, <1>5
  <2>3. AdmitsSessionEvent(s, e, MaxSALifetime)
    BY <1>1, <1>5
  <2>4. CASE e.type = "xfrm_apply_intent"
    <3>1. s.active[k] = NoSession /\ e.plan # NoPlan
      BY <1>5, <2>3, <2>4 DEF AdmitsSessionEvent
    <3> QED
      BY <2>1, <2>2, <2>4, <3>1 DEF Staged, PhaseAfter, Applying, Deleting
  <2>5. CASE e.type = "xfrm_apply_observed"
    <3>1. s.stage[k].phase = "apply_intent"
      BY <1>5, <2>3, <2>5 DEF AdmitsSessionEvent
    <3> QED
      BY <2>1, <2>2, <2>5, <3>1 DEF Staged, PhaseAfter, Applying, Deleting
  <2>6. CASE e.type = "session_activated"
    <3>1. s.stage[k].phase = "apply_observed"
      BY <1>5, <2>3, <2>6 DEF AdmitsSessionEvent
    <3>2. s.stage[k].plan # NoPlan
      BY <3>1 DEF Staged, Applying
    <3> QED
      BY <2>1, <2>2, <2>6, <3>2 DEF Staged, PhaseAfter, Applying, Deleting
  <2>7. CASE e.type = "session_expired"
    <3>1. s.active[k] # NoSession
      BY <1>5, <2>3, <2>7 DEF AdmitsSessionEvent
    <3> QED
      BY <2>1, <2>2, <2>7, <3>1 DEF Staged, PhaseAfter, Applying, Deleting
  <2>8. CASE e.type = "xfrm_delete_intent"
    <3>1. s.active[k] # NoSession /\ e.plan # NoPlan
      BY <1>5, <2>3, <2>8 DEF AdmitsSessionEvent
    <3> QED
      BY <2>1, <2>2, <2>8, <3>1 DEF Staged, PhaseAfter, Applying, Deleting
  <2>9. CASE e.type = "xfrm_delete_observed"
    BY <2>1, <2>2, <2>9 DEF Staged, PhaseAfter, Applying, Deleting
  <2> QED
    BY <1>5, <2>4, <2>5, <2>6, <2>7, <2>8, <2>9 DEF SessionTypes
<1> QED
  BY <1>4, <1>5

LEMMA OverdueStep ==
    ASSUME NEW log \in Seq(Candidates), NEW s, Shaped(s),
           NEW e \in Candidates, Admits(s, e, MaxSALifetime, Scope),
           \A k \in Keys : Overdue(log, s, k)
    PROVE  \A k \in Keys : Overdue(Append(log, e), AfterEvent(s, e), k)
<1> DEFINE longer == Append(log, e)
           a == AfterEvent(s, e)
<1>1. e.type \in SessionTypes => e.key \in Keys /\ AdmitsSessionEvent(s, e, MaxSALifetime)
  BY CandidateAssumption DEF Admits
<1> SUFFICES ASSUME NEW k \in Keys, a.stage[k].phase \in Deleting
             PROVE  \E j \in Lifecycle(longer, k) :
                       longer[j].type = "session_expired" /\ longer[j].ts >= a.active[k].exp
  BY DEF Overdue
<1>2. /\ Len(longer) = Len(log) + 1 /\ Len(log) \in Nat /\ longer[Len(log) + 1] = e
      /\ \A j \in 1..Len(log) : longer[j] = log[j]
  BY Appended
<1> HIDE DEF longer, a
<1>3. \A j \in Lifecycle(log, k) : j \in Lifecycle(longer, k) /\ longer[j] = log[j]
  BY <1>2 DEF Lifecycle
<1>4. ASSUME s.stage[k].phase \in Deleting, a.active[k] = s.active[k]
      PROVE  \E j \in Lifecycle(longer, k) :
                longer[j].type = "session_expired" /\ longer[j].ts >= a.active[k].exp
  BY <1>3, <1>4 DEF Overdue
<1>5. CASE ~(e.type \in SessionTypes /\ e.key = k)
  <2>1. a.active[k] = s.active[k] /\ a.stage[k] = s.stage[k]
    BY <1>1, <1>5, AfterSession, AfterOther DEF a
  <2> QED
    BY <1>4, <2>1
<1>6. CASE e.type \in SessionTypes /\ e.key = k
  <2>1. /\ a.stage[k].phase = PhaseAfter(e.type)
        /\ a.active[k] = IF e.type = "session_activated" THEN [exp |-> e.exp, plan |-> s.stage[k].plan]
                         ELSE IF e.type = "xfrm_delete_observed" THEN NoSession
                         ELSE s.active[k]
    BY <1>6, AfterSession DEF a
  <2>2. e.type \in {"session_expired", "xfrm_delete_intent"}
    BY <1>6, <2>1 DEF PhaseAfter, Deleting, SessionTypes
  <2>3. AdmitsSessionEvent(s, e, MaxSALifetime)
    BY <1>1, <1>6
  <2>4. CASE e.type = "session_expired"
    <3>1. e.ts >= s.active[k].exp
      BY <1>6, <2>3, <2>4 DEF AdmitsSessionEvent, validateExpirationEvent
    <3>2. Len(log) + 1 \in Lifecycle(longer, k)
      BY <1>2, <1>6 DEF Lifecycle
    <3> QED
      BY <1>2, <2>1, <2>4, <3>1, <3>2
  <2>5. CASE e.type = "xfrm_delete_intent"
    <3>1. s.stage[k].phase = "expired"
      BY <1>6, <2>3, <2>5 DEF AdmitsSessionEvent
    <3> QED
      BY <1>4, <2>1, <2>5, <3>1 DEF Deleting
  <2> QED
    BY <2>2, <2>4, <2>5
<1> QED
  BY <1>5, <1>6

-----------------------------------------------------------------------------
(* What a whole submission does to the tracked sessions, for any lifetime  *)
(* and scope: the last activation or observed deletion of a key decides.   *)

TurnsIn(events, k) == {i \in DOMAIN events : /\ events[i].key = k
                                             /\ events[i].type \in {"session_activated", "xfrm_delete_observed"}}

LastTurnDecides(events, sessions, s) ==
    \A k \in Keys : s.active[k] # NoSession <=>
        IF TurnsIn(events, k) = {} THEN sessions[k] # NoSession
        ELSE events[Max(TurnsIn(events, k))].type = "session_activated"

LEMMA LastTurnExists ==
    ASSUME NEW events \in Seq(Candidates), NEW k, TurnsIn(events, k) # {}
    PROVE  /\ Max(TurnsIn(events, k)) \in TurnsIn(events, k)
           /\ \A j \in TurnsIn(events, k) : j <= Max(TurnsIn(events, k))
<1>1. Len(events) \in Nat /\ TurnsIn(events, k) \in SUBSET (0..Len(events))
  BY DEF TurnsIn
<1> QED
  BY <1>1, MaxExists

LEMMA TurnDecides ==
    ASSUME NEW log \in Seq(Candidates), NEW e \in Candidates, NEW sessions, NEW s, Shaped(s),
           NEW maxLife, NEW scope, Admits(s, e, maxLife, scope), LastTurnDecides(log, sessions, s)
    PROVE  LastTurnDecides(Append(log, e), sessions, AfterEvent(s, e))
<1> DEFINE longer == Append(log, e)
           n == Len(log)
           a == AfterEvent(s, e)
<1> SUFFICES ASSUME NEW k \in Keys
             PROVE  a.active[k] # NoSession <=> IF TurnsIn(longer, k) = {} THEN sessions[k] # NoSession
                                                ELSE longer[Max(TurnsIn(longer, k))].type = "session_activated"
  BY DEF LastTurnDecides
<1>1. /\ Len(longer) = n + 1 /\ n \in Nat /\ longer[n + 1] = e /\ DOMAIN log = 1..n /\ DOMAIN longer = 1..(n + 1)
      /\ \A j \in 1..n : longer[j] = log[j]
      /\ \A j \in 1..(n + 1) : j \in 1..n \/ j = n + 1
      /\ n + 1 \in 1..(n + 1) /\ 1..n \subseteq 1..(n + 1)
  BY Appended
<1>2. e.type \in SessionTypes => e.key \in Keys /\ AdmitsSessionEvent(s, e, maxLife)
  BY CandidateAssumption DEF Admits
<1> HIDE DEF longer, a
<1>3. CASE e.key = k /\ e.type \in {"session_activated", "xfrm_delete_observed"}
  <2>1. TurnsIn(longer, k) \in SUBSET Int /\ n + 1 \in TurnsIn(longer, k) /\ \A j \in TurnsIn(longer, k) : j <= n + 1
    BY <1>1, <1>3 DEF TurnsIn
  <2>2. Max(TurnsIn(longer, k)) = n + 1
    BY <2>1, MaxIs
  <2>3. a.active[k] = IF e.type = "session_activated" THEN [exp |-> e.exp, plan |-> s.stage[k].plan] ELSE NoSession
    BY <1>3, AfterSession DEF a, SessionTypes
  <2>4. e.type = "session_activated" => e.exp # NoTime
    BY <1>2, <1>3 DEF AdmitsSessionEvent, SessionTypes
  <2>5. a.active[k] # NoSession <=> e.type = "session_activated"
    BY <1>3, <2>3, <2>4 DEF NoSession
  <2> QED
    BY <1>1, <2>1, <2>2, <2>5
<1>4. CASE ~(e.key = k /\ e.type \in {"session_activated", "xfrm_delete_observed"})
  <2>1. TurnsIn(longer, k) = TurnsIn(log, k)
    BY <1>1, <1>4 DEF TurnsIn
  <2>2. a.active[k] = s.active[k]
    <3>1. CASE e.type \notin SessionTypes
      BY <3>1, AfterOther DEF a
    <3>2. CASE e.type \in SessionTypes /\ e.key # k
      BY <1>2, <3>2, AfterSession DEF a
    <3>3. CASE e.type \in SessionTypes /\ e.key = k
      <4>1. e.key \in Keys /\ e.type # "session_activated" /\ e.type # "xfrm_delete_observed"
        BY <1>2, <1>4, <3>3
      <4> QED
        BY <3>3, <4>1, AfterSession DEF a
    <3> QED
      BY <3>1, <3>2, <3>3
  <2>3. TurnsIn(log, k) # {} => longer[Max(TurnsIn(log, k))] = log[Max(TurnsIn(log, k))]
    <3>1. TurnsIn(log, k) # {} => Max(TurnsIn(log, k)) \in TurnsIn(log, k)
      BY LastTurnExists
    <3> QED
      BY <1>1, <3>1 DEF TurnsIn
  <2> QED
    BY <2>1, <2>2, <2>3 DEF LastTurnDecides
<1> QED
  BY <1>3, <1>4

LEMMA LoopTurns ==
    ASSUME NEW events \in Seq(Candidates), NEW sessions, DOMAIN sessions = Keys, NEW maxLife, NEW scope
    PROVE  /\ Shaped(PolicyLoop(events, sessions, maxLife, scope))
           /\ PolicyLoop(events, sessions, maxLife, scope).ok
                => LastTurnDecides(events, sessions, PolicyLoop(events, sessions, maxLife, scope))
<1> DEFINE L(log) == PolicyLoop(log, sessions, maxLife, scope)
           Holds(log) == Shaped(L(log)) /\ (L(log).ok => LastTurnDecides(log, sessions, L(log)))
           P == {n \in Nat : \A log \in Seq(Candidates) : Len(log) = n => Holds(log)}
<1>1. 0 \in P
  <2>1. Holds(<<>>)
    <3>1. L(<<>>) = Start(sessions)
      BY LoopEmpty
    <3>2. Shaped(Start(sessions)) /\ Start(sessions).active = sessions
      BY DEF Start, Shaped
    <3>3. \A k \in Keys : TurnsIn(<<>>, k) = {}
      BY DEF TurnsIn
    <3> HIDE DEF L
    <3> QED
      BY <3>1, <3>2, <3>3 DEF LastTurnDecides
  <2>2. \A log \in Seq(Candidates) : Len(log) = 0 => log = <<>>
    OBVIOUS
  <2> HIDE DEF Holds
  <2> QED
    BY <2>1, <2>2
<1>2. ASSUME NEW n \in Nat, n \in P PROVE n + 1 \in P
  <2> SUFFICES ASSUME NEW log \in Seq(Candidates), Len(log) = n + 1 PROVE Holds(log)
    OBVIOUS
  <2> DEFINE front == SubSeq(log, 1, n)
             e == log[n + 1]
  <2>1. front \in Seq(Candidates) /\ Len(front) = n /\ e \in Candidates /\ log = Append(front, e)
    OBVIOUS
  <2> HIDE DEF front, e
  <2>2. Holds(front)
    BY <1>2, <2>1
  <2>3. L(log) = PolicyStep(L(front), e, maxLife, scope)
    BY <2>1, LoopAppend
  <2> HIDE DEF L
  <2>4. CASE L(front).ok /\ Admits(L(front), e, maxLife, scope)
    <3>1. L(log) = AfterEvent(L(front), e)
      BY <2>3, <2>4, StepIs
    <3>2. Shaped(AfterEvent(L(front), e))
      <4>1. CASE e.type \in SessionTypes
        BY <2>1, <2>2, <4>1, AfterSession, CandidateAssumption
      <4>2. CASE e.type \notin SessionTypes
        BY <2>2, <4>2, AfterOther
      <4> QED
        BY <4>1, <4>2
    <3>3. LastTurnDecides(log, sessions, AfterEvent(L(front), e))
      BY <2>1, <2>2, <2>4, TurnDecides
    <3> QED
      BY <3>1, <3>2, <3>3
  <2>5. CASE ~(L(front).ok /\ Admits(L(front), e, maxLife, scope))
    <3>1. L(log) = [L(front) EXCEPT !.ok = FALSE]
      BY <2>3, <2>5, StepIs
    <3> QED
      BY <2>2, <3>1 DEF Shaped
  <2> QED
    BY <2>4, <2>5
<1>3. Len(events) \in P
  <2> HIDE DEF P
  <2>1. Len(events) \in Nat
    OBVIOUS
  <2> QED
    BY <1>1, <1>2, <2>1, Induction
<1> QED
  BY <1>3

-----------------------------------------------------------------------------
(* More about a whole submission, by induction over its events. *)

LEMMA LogInduction ==
    ASSUME NEW S, <<>> \in S,
           \A log \in Seq(Candidates), e \in Candidates : log \in S => Append(log, e) \in S
    PROVE  Seq(Candidates) \subseteq S
<1> DEFINE P == {n \in Nat : \A log \in Seq(Candidates) : Len(log) = n => log \in S}
<1>1. 0 \in P
  <2>1. \A log \in Seq(Candidates) : Len(log) = 0 => log = <<>>
    OBVIOUS
  <2> QED
    BY <2>1
<1>2. ASSUME NEW n \in Nat, n \in P PROVE n + 1 \in P
  <2> SUFFICES ASSUME NEW log \in Seq(Candidates), Len(log) = n + 1 PROVE log \in S
    OBVIOUS
  <2> DEFINE front == SubSeq(log, 1, n)
             e == log[n + 1]
  <2>1. front \in Seq(Candidates) /\ Len(front) = n /\ e \in Candidates /\ log = Append(front, e)
    OBVIOUS
  <2> HIDE DEF front, e
  <2> QED
    BY <1>2, <2>1
<1>3. Nat \subseteq P
  <2> HIDE DEF P
  <2> QED
    BY <1>1, <1>2, Induction
<1> QED
  BY <1>3

(* What an event leaves alone. *)
LEMMA AfterElsewhere ==
    ASSUME NEW s, Shaped(s), NEW e, e.type \in SessionTypes => e.key \in Keys,
           NEW k \in Keys, ~(e.type \in SessionTypes /\ e.key = k)
    PROVE  AfterEvent(s, e).active[k] = s.active[k] /\ AfterEvent(s, e).stage[k] = s.stage[k]
<1>1. CASE e.type \in SessionTypes
  BY <1>1, AfterSession
<1>2. CASE e.type \notin SessionTypes
  BY <1>2, AfterOther
<1> QED
  BY <1>1, <1>2

(* The loop goes on from its state as long as it admits the events. *)
LEMMA LoopGoesOn ==
    ASSUME NEW log \in Seq(Candidates), NEW e \in Candidates,
           NEW sessions, DOMAIN sessions = Keys, NEW maxLife, NEW scope
    PROVE  LET s == PolicyLoop(log, sessions, maxLife, scope)
               r == PolicyLoop(Append(log, e), sessions, maxLife, scope)
           IN  /\ Shaped(s) /\ Shaped(r) /\ (e.type \in SessionTypes => e.key \in Keys)
               /\ r.ok <=> s.ok /\ Admits(s, e, maxLife, scope)
               /\ r.ok => r = AfterEvent(s, e)
<1> DEFINE s == PolicyLoop(log, sessions, maxLife, scope)
           r == PolicyLoop(Append(log, e), sessions, maxLife, scope)
<1>1. Append(log, e) \in Seq(Candidates)
  OBVIOUS
<1>2. Shaped(s) /\ Shaped(r)
  BY <1>1, LoopTurns
<1>3. r = IF s.ok /\ Admits(s, e, maxLife, scope) THEN AfterEvent(s, e) ELSE [s EXCEPT !.ok = FALSE]
  BY LoopAppend, StepIs
<1>4. e.type \in SessionTypes => e.key \in Keys
  BY CandidateAssumption
<1> HIDE DEF s, r
<1>5. s.ok => AfterEvent(s, e).ok
  <2>1. CASE e.type \in SessionTypes
    BY <1>2, <1>4, <2>1, AfterSession
  <2>2. CASE e.type \notin SessionTypes
    BY <2>2, AfterOther
  <2> QED
    BY <2>1, <2>2
<1>6. [s EXCEPT !.ok = FALSE].ok = FALSE
  BY <1>2 DEF Shaped
<1>7. r.ok <=> s.ok /\ Admits(s, e, maxLife, scope)
  BY <1>3, <1>5, <1>6
<1>8. r.ok => r = AfterEvent(s, e)
  BY <1>3, <1>7
<1> QED
  BY <1>2, <1>4, <1>7, <1>8 DEF s, r

(* A session that is tracked or intended is tracked at the end, open, or   *)
(* observed to be gone.                                                    *)
IntendedIn(log, k) == \E i \in DOMAIN log : log[i].type = "xfrm_apply_intent" /\ log[i].key = k
ClosedIn(log, k)   == \E i \in DOMAIN log : /\ log[i].type = "xfrm_delete_observed" /\ log[i].key = k
                                            /\ ProfileSatisfied(log[i].obs)

LEMMA LoopAccounts ==
    ASSUME NEW events \in Seq(Candidates), NEW sessions, DOMAIN sessions = Keys, NEW maxLife, NEW scope,
           PolicyLoop(events, sessions, maxLife, scope).ok,
           NEW k \in Keys, sessions[k] # NoSession \/ IntendedIn(events, k)
    PROVE  \/ PolicyLoop(events, sessions, maxLife, scope).active[k] # NoSession
           \/ PolicyLoop(events, sessions, maxLife, scope).stage[k].phase \in Incomplete
           \/ ClosedIn(events, k)
<1> DEFINE L(log) == PolicyLoop(log, sessions, maxLife, scope)
           Holds(log) == L(log).ok /\ (sessions[k] # NoSession \/ IntendedIn(log, k)) =>
                            L(log).active[k] # NoSession \/ L(log).stage[k].phase \in Applying \/ ClosedIn(log, k)
           S == {log \in Seq(Candidates) : Holds(log)}
<1>1. <<>> \in S
  <2>1. L(<<>>).active = sessions
    BY LoopEmpty DEF Start
  <2> QED
    BY <2>1 DEF IntendedIn
<1>2. ASSUME NEW log \in Seq(Candidates), NEW e \in Candidates, log \in S PROVE Append(log, e) \in S
  <2> DEFINE longer == Append(log, e)
  <2>1. /\ longer \in Seq(Candidates) /\ longer[Len(log) + 1] = e /\ \A j \in DOMAIN log : longer[j] = log[j]
        /\ DOMAIN longer = DOMAIN log \cup {Len(log) + 1}
    BY Appended
  <2>2. /\ Shaped(L(log)) /\ (e.type \in SessionTypes => e.key \in Keys)
        /\ L(longer).ok => L(log).ok /\ Admits(L(log), e, maxLife, scope) /\ L(longer) = AfterEvent(L(log), e)
    BY LoopGoesOn
  <2> SUFFICES ASSUME L(longer).ok, sessions[k] # NoSession \/ IntendedIn(longer, k)
               PROVE  L(longer).active[k] # NoSession \/ L(longer).stage[k].phase \in Applying \/ ClosedIn(longer, k)
    BY <2>1
  <2> HIDE DEF longer, L
  <2>3. ClosedIn(log, k) => ClosedIn(longer, k)
    BY <2>1 DEF ClosedIn
  <2>4. IntendedIn(longer, k) => IntendedIn(log, k) \/ (e.type = "xfrm_apply_intent" /\ e.key = k)
    BY <2>1 DEF IntendedIn
  <2>5. CASE e.type \in SessionTypes /\ e.key = k
    <3>1. AdmitsSessionEvent(L(log), e, maxLife)
      BY <2>2, <2>5 DEF Admits
    <3>2. /\ L(longer).stage[k].phase = PhaseAfter(e.type)
          /\ L(longer).active[k] = IF e.type = "session_activated" THEN [exp |-> e.exp, plan |-> L(log).stage[k].plan]
                                   ELSE IF e.type = "xfrm_delete_observed" THEN NoSession
                                   ELSE L(log).active[k]
      BY <2>2, <2>5, AfterSession
    <3>3. CASE e.type \in {"xfrm_apply_intent", "xfrm_apply_observed"}
      BY <3>2, <3>3 DEF PhaseAfter, Applying
    <3>4. CASE e.type = "session_activated"
      <4>1. e.exp # NoTime
        BY <3>1, <3>4 DEF AdmitsSessionEvent
      <4> QED
        BY <3>2, <3>4, <4>1 DEF NoSession
    <3>5. CASE e.type \in {"session_expired", "xfrm_delete_intent"}
      <4>1. L(log).active[k] # NoSession
        BY <2>5, <3>1, <3>5 DEF AdmitsSessionEvent
      <4> QED
        BY <3>2, <3>5, <4>1
    <3>6. CASE e.type = "xfrm_delete_observed"
      <4>1. ProfileSatisfied(e.obs)
        BY <3>1, <3>6 DEF AdmitsSessionEvent, verifyObservedEvent
      <4>2. ClosedIn(longer, k)
        BY <2>1, <2>5, <3>6, <4>1 DEF ClosedIn
      <4> QED
        BY <4>2
    <3> QED
      BY <2>5, <3>3, <3>4, <3>5, <3>6 DEF SessionTypes
  <2>6. CASE ~(e.type \in SessionTypes /\ e.key = k)
    <3>1. L(longer).active[k] = L(log).active[k] /\ L(longer).stage[k] = L(log).stage[k]
      BY <2>2, <2>6, AfterElsewhere
    <3>2. L(log).active[k] # NoSession \/ L(log).stage[k].phase \in Applying \/ ClosedIn(log, k)
      BY <1>2, <2>2, <2>4, <2>6 DEF SessionTypes
    <3> QED
      BY <2>3, <3>1, <3>2
  <2> QED
    BY <2>5, <2>6
<1>3. events \in S
  <2> HIDE DEF S
  <2> QED
    BY <1>1, <1>2, LogInduction
<1> QED
  BY <1>3 DEF Applying, Incomplete

(* A key no event mentions stays as it was. *)
LEMMA LoopIgnores ==
    ASSUME NEW events \in Seq(Candidates), NEW sessions, DOMAIN sessions = Keys, NEW maxLife, NEW scope,
           NEW k \in Keys, \A i \in DOMAIN events : events[i].key # k
    PROVE  /\ PolicyLoop(events, sessions, maxLife, scope).active[k] = sessions[k]
           /\ PolicyLoop(events, sessions, maxLife, scope).stage[k].phase = "none"
<1> DEFINE L(log) == PolicyLoop(log, sessions, maxLife, scope)
           Holds(log) == (\A i \in DOMAIN log : log[i].key # k) =>
                            L(log).active[k] = sessions[k] /\ L(log).stage[k].phase = "none"
           S == {log \in Seq(Candidates) : Holds(log)}
<1>1. <<>> \in S
  <2>1. L(<<>>).active = sessions /\ L(<<>>).stage[k].phase = "none"
    BY LoopEmpty DEF Start, Stage
  <2> QED
    BY <2>1
<1>2. ASSUME NEW log \in Seq(Candidates), NEW e \in Candidates, log \in S PROVE Append(log, e) \in S
  <2> DEFINE longer == Append(log, e)
  <2>1. /\ longer \in Seq(Candidates) /\ longer[Len(log) + 1] = e /\ \A j \in DOMAIN log : longer[j] = log[j]
        /\ DOMAIN longer = DOMAIN log \cup {Len(log) + 1}
    BY Appended
  <2>2. Shaped(L(log)) /\ (e.type \in SessionTypes => e.key \in Keys)
    BY LoopGoesOn
  <2>3. L(longer) = PolicyStep(L(log), e, maxLife, scope)
    BY LoopAppend
  <2> SUFFICES ASSUME \A i \in DOMAIN longer : longer[i].key # k
               PROVE  L(longer).active[k] = sessions[k] /\ L(longer).stage[k].phase = "none"
    BY <2>1
  <2> HIDE DEF longer, L
  <2>4. e.key # k /\ L(log).active[k] = sessions[k] /\ L(log).stage[k].phase = "none"
    BY <1>2, <2>1
  <2>5. L(longer) = AfterEvent(L(log), e) \/ L(longer) = [L(log) EXCEPT !.ok = FALSE]
    BY <2>3, StepIs
  <2>6. CASE L(longer) = AfterEvent(L(log), e)
    <3>1. L(longer).active[k] = L(log).active[k] /\ L(longer).stage[k] = L(log).stage[k]
      BY <2>2, <2>4, <2>6, AfterElsewhere
    <3> QED
      BY <2>4, <3>1
  <2>7. CASE L(longer) = [L(log) EXCEPT !.ok = FALSE]
    BY <2>2, <2>4, <2>7 DEF Shaped
  <2> QED
    BY <2>5, <2>6, <2>7
<1>3. events \in S
  <2> HIDE DEF S
  <2> QED
    BY <1>1, <1>2, LogInduction
<1> QED
  BY <1>3

(* A log the loop passes is complete and within the scope. *)
LEMMA LoopServes ==
    ASSUME NEW events \in Seq(Candidates), NEW sessions, DOMAIN sessions = Keys, NEW maxLife, NEW scope,
           PolicyLoop(events, sessions, maxLife, scope).ok
    PROVE  \A i \in DOMAIN events : /\ InScope(events[i], scope)
                                    /\ events[i].type \in SessionTypes => events[i].whole
<1> DEFINE L(log) == PolicyLoop(log, sessions, maxLife, scope)
           Fine(e) == InScope(e, scope) /\ (e.type \in SessionTypes => e.whole)
           S == {log \in Seq(Candidates) : L(log).ok => \A i \in DOMAIN log : Fine(log[i])}
<1>1. <<>> \in S
  OBVIOUS
<1>2. ASSUME NEW log \in Seq(Candidates), NEW e \in Candidates, log \in S PROVE Append(log, e) \in S
  <2> DEFINE longer == Append(log, e)
  <2>1. /\ longer \in Seq(Candidates) /\ longer[Len(log) + 1] = e /\ \A j \in DOMAIN log : longer[j] = log[j]
        /\ DOMAIN longer = DOMAIN log \cup {Len(log) + 1}
    BY Appended
  <2>2. L(longer).ok => L(log).ok /\ Admits(L(log), e, maxLife, scope)
    BY LoopGoesOn
  <2>3. Admits(L(log), e, maxLife, scope) => Fine(e)
    BY DEF Admits
  <2> HIDE DEF longer, L, Fine
  <2>4. L(longer).ok => \A i \in DOMAIN longer : Fine(longer[i])
    BY <1>2, <2>1, <2>2, <2>3
  <2> QED
    BY <2>1, <2>4 DEF longer
<1>3. events \in S
  <2> HIDE DEF S
  <2> QED
    BY <1>1, <1>2, LogInduction
<1> QED
  BY <1>3

(* The expiries of the tracked sessions are times. *)
LEMMA LoopExpiries ==
    ASSUME NEW events \in Seq(Candidates), NEW sessions, DOMAIN sessions = Keys, NEW maxLife, NEW scope,
           \A k \in Keys : sessions[k].exp \in Int
    PROVE  \A k \in Keys : PolicyLoop(events, sessions, maxLife, scope).active[k].exp \in Int
<1> DEFINE L(log) == PolicyLoop(log, sessions, maxLife, scope)
           S == {log \in Seq(Candidates) : \A k \in Keys : L(log).active[k].exp \in Int}
<1>1. <<>> \in S
  <2>1. L(<<>>).active = sessions
    BY LoopEmpty DEF Start
  <2> QED
    BY <2>1
<1>2. ASSUME NEW log \in Seq(Candidates), NEW e \in Candidates, log \in S PROVE Append(log, e) \in S
  <2>1. Shaped(L(log)) /\ (e.type \in SessionTypes => e.key \in Keys)
    BY LoopGoesOn
  <2>2. L(Append(log, e)) = PolicyStep(L(log), e, maxLife, scope)
    BY LoopAppend
  <2> SUFFICES ASSUME NEW k \in Keys PROVE L(Append(log, e)).active[k].exp \in Int
    OBVIOUS
  <2>3. L(log).active[k].exp \in Int /\ e.exp \in Int /\ NoSession.exp \in Int
    BY <1>2, CandidateAssumption DEF NoSession, NoTime
  <2> HIDE DEF L
  <2>4. L(Append(log, e)) = AfterEvent(L(log), e) \/ L(Append(log, e)) = [L(log) EXCEPT !.ok = FALSE]
    BY <2>2, StepIs
  <2>5. CASE L(Append(log, e)) = AfterEvent(L(log), e)
    <3>1. CASE e.type \in SessionTypes /\ e.key = k
      <4>1. L(Append(log, e)).active[k] = IF e.type = "session_activated" THEN [exp |-> e.exp, plan |-> L(log).stage[k].plan]
                                          ELSE IF e.type = "xfrm_delete_observed" THEN NoSession
                                          ELSE L(log).active[k]
        BY <2>1, <2>5, <3>1, AfterSession
      <4> QED
        BY <2>3, <4>1
    <3>2. CASE ~(e.type \in SessionTypes /\ e.key = k)
      <4>1. AfterEvent(L(log), e).active[k] = L(log).active[k]
        BY <2>1, <3>2, AfterElsewhere
      <4> QED
        BY <2>3, <2>5, <4>1
    <3> QED
      BY <3>1, <3>2
  <2>6. CASE L(Append(log, e)) = [L(log) EXCEPT !.ok = FALSE]
    BY <2>1, <2>3, <2>6 DEF Shaped
  <2> QED
    BY <2>4, <2>5, <2>6
<1>3. events \in S
  <2> HIDE DEF S
  <2> QED
    BY <1>1, <1>2, LogInduction
<1> QED
  BY <1>3

-----------------------------------------------------------------------------
(* A history may be appraised in one piece or, cut where nothing is open,  *)
(* in two: the second piece starts with the sessions of the first.         *)

(* r, of the second piece, and s, of the whole, agree. *)
AtOne(r, s) ==
    /\ r.ok /\ s.ok
    /\ \A k \in Keys :
         /\ r.active[k] = s.active[k]
         /\ \/ r.stage[k].phase = s.stage[k].phase /\ r.stage[k].plan = s.stage[k].plan
            \/ r.stage[k].phase = "none" /\ s.stage[k].phase \notin Incomplete

LEMMA AtOneStep ==
    ASSUME NEW r, NEW s, Shaped(r), Shaped(s), AtOne(r, s), NEW e \in Candidates,
           NEW maxLife, NEW scope, Admits(s, e, maxLife, scope)
    PROVE  Admits(r, e, maxLife, scope) /\ AtOne(AfterEvent(r, e), AfterEvent(s, e))
<1> DEFINE q == AfterEvent(r, e)
           p == AfterEvent(s, e)
<1>1. CASE e.type \notin SessionTypes
  BY <1>1, AfterOther DEF Admits
<1>2. CASE e.type \in SessionTypes
  <2>1. e.key \in Keys /\ AdmitsSessionEvent(s, e, maxLife)
    BY <1>2, CandidateAssumption DEF Admits
  <2>2. /\ r.active[e.key] = s.active[e.key]
        /\ \/ r.stage[e.key].phase = s.stage[e.key].phase /\ r.stage[e.key].plan = s.stage[e.key].plan
           \/ r.stage[e.key].phase = "none" /\ s.stage[e.key].phase \notin Incomplete
    BY <2>1 DEF AtOne
  <2>3. e.type \in {"xfrm_apply_observed", "session_activated", "xfrm_delete_intent", "xfrm_delete_observed"}
          => r.stage[e.key].phase = s.stage[e.key].phase /\ r.stage[e.key].plan = s.stage[e.key].plan
    BY <2>1, <2>2 DEF AdmitsSessionEvent, Incomplete
  <2>4. AdmitsSessionEvent(r, e, maxLife)
    BY <2>1, <2>2, <2>3 DEF AdmitsSessionEvent
  <2>5. \A x \in Keys : x # e.key => /\ q.active[x] = r.active[x] /\ q.stage[x] = r.stage[x]
                                     /\ p.active[x] = s.active[x] /\ p.stage[x] = s.stage[x]
    BY <2>1, AfterElsewhere
  <2>6. /\ q.stage[e.key].phase = p.stage[e.key].phase /\ q.ok = r.ok /\ p.ok = s.ok
        /\ q.stage[e.key].plan = IF e.type \in {"xfrm_apply_intent", "xfrm_delete_intent"} THEN e.plan
                                 ELSE IF e.type = "session_expired" THEN r.active[e.key].plan
                                 ELSE r.stage[e.key].plan
        /\ p.stage[e.key].plan = IF e.type \in {"xfrm_apply_intent", "xfrm_delete_intent"} THEN e.plan
                                 ELSE IF e.type = "session_expired" THEN s.active[e.key].plan
                                 ELSE s.stage[e.key].plan
        /\ q.active[e.key] = IF e.type = "session_activated" THEN [exp |-> e.exp, plan |-> r.stage[e.key].plan]
                             ELSE IF e.type = "xfrm_delete_observed" THEN NoSession
                             ELSE r.active[e.key]
        /\ p.active[e.key] = IF e.type = "session_activated" THEN [exp |-> e.exp, plan |-> s.stage[e.key].plan]
                             ELSE IF e.type = "xfrm_delete_observed" THEN NoSession
                             ELSE s.active[e.key]
    BY <1>2, <2>1, AfterSession
  <2> HIDE DEF p, q
  <2>7. q.stage[e.key].plan = p.stage[e.key].plan /\ q.active[e.key] = p.active[e.key]
    BY <1>2, <2>2, <2>3, <2>6 DEF SessionTypes
  <2>8. AtOne(q, p)
    BY <2>5, <2>6, <2>7 DEF AtOne
  <2> QED
    BY <1>2, <2>4, <2>8 DEF Admits, p, q
<1> QED
  BY <1>1, <1>2

LEMMA LoopResumes ==
    ASSUME NEW base \in Seq(Candidates), NEW events \in Seq(Candidates),
           NEW sessions, DOMAIN sessions = Keys, NEW maxLife, NEW scope,
           PolicyLoop(base, sessions, maxLife, scope).ok,
           \A k \in Keys : PolicyLoop(base, sessions, maxLife, scope).stage[k].phase \notin Incomplete,
           PolicyLoop(base \o events, sessions, maxLife, scope).ok,
           NEW carried, DOMAIN carried = Keys,
           \A k \in Keys : carried[k] = PolicyLoop(base, sessions, maxLife, scope).active[k]
    PROVE  AtOne(PolicyLoop(events, carried, maxLife, scope), PolicyLoop(base \o events, sessions, maxLife, scope))
<1> DEFINE L(log) == PolicyLoop(base \o log, sessions, maxLife, scope)
           R(log) == PolicyLoop(log, carried, maxLife, scope)
           S == {log \in Seq(Candidates) : L(log).ok => AtOne(R(log), L(log))}
<1>1. <<>> \in S
  <2>1. base \o <<>> = base /\ <<>> \in Seq(Candidates)
    OBVIOUS
  <2>2. R(<<>>) = Start(carried)
    BY LoopEmpty
  <2> HIDE DEF R
  <2>3. L(<<>>).ok /\ (\A k \in Keys : L(<<>>).active[k] = carried[k])
        /\ \A k \in Keys : L(<<>>).stage[k].phase \notin Incomplete
    BY <2>1
  <2> HIDE DEF L
  <2>4. AtOne(R(<<>>), L(<<>>))
    BY <2>2, <2>3 DEF AtOne, Start, Stage
  <2> QED
    BY <2>1, <2>4
<1>2. ASSUME NEW log \in Seq(Candidates), NEW e \in Candidates, log \in S PROVE Append(log, e) \in S
  <2>1. Append(log, e) \in Seq(Candidates) /\ base \o log \in Seq(Candidates)
        /\ base \o Append(log, e) = Append(base \o log, e)
    OBVIOUS
  <2> SUFFICES ASSUME L(Append(log, e)).ok PROVE AtOne(R(Append(log, e)), L(Append(log, e)))
    BY <2>1
  <2>2. Shaped(L(log)) /\ L(log).ok /\ Admits(L(log), e, maxLife, scope) /\ L(Append(log, e)) = AfterEvent(L(log), e)
    <3> DEFINE whole == base \o log
    <3>1. /\ L(log) = PolicyLoop(whole, sessions, maxLife, scope) /\ whole \in Seq(Candidates)
          /\ L(Append(log, e)) = PolicyLoop(Append(whole, e), sessions, maxLife, scope)
      BY <2>1
    <3> HIDE DEF whole, L
    <3> QED
      BY <3>1, LoopGoesOn
  <2>3. /\ Shaped(R(log))
        /\ R(Append(log, e)).ok <=> R(log).ok /\ Admits(R(log), e, maxLife, scope)
        /\ R(Append(log, e)).ok => R(Append(log, e)) = AfterEvent(R(log), e)
    BY LoopGoesOn
  <2>4. AtOne(R(log), L(log))
    BY <1>2, <2>2
  <2> HIDE DEF L, R
  <2>5. Admits(R(log), e, maxLife, scope) /\ AtOne(AfterEvent(R(log), e), AfterEvent(L(log), e))
    BY <2>2, <2>3, <2>4, AtOneStep
  <2> QED
    BY <2>2, <2>3, <2>4, <2>5 DEF AtOne
<1>3. events \in S
  <2> HIDE DEF S
  <2> QED
    BY <1>1, <1>2, LogInduction
<1> QED
  BY <1>3

-----------------------------------------------------------------------------
(* The decision about one event. *)

LEMMA PhasesDiffer ==
    ASSUME NEW t \in SessionTypes, NEW u \in SessionTypes
    PROVE  PhaseAfter(t) # "none" /\ (PhaseAfter(t) = PhaseAfter(u) <=> t = u)
BY DEF PhaseAfter, SessionTypes

(* The loop admits a session event exactly where the reference places it. *)
LEMMA Decides ==
    ASSUME NEW log \in Seq(Candidates), Grounded(log), NEW carried, NEW s,
           NEW e \in Candidates, e.type \in SessionTypes,
           Agrees(log, carried, s, e.key), Staged(log, carried, s, e.key)
    PROVE  RightlyPlaced(Append(log, e), Len(log) + 1, carried) <=> AdmitsSessionEvent(s, e, MaxSALifetime)
<1> DEFINE longer == Append(log, e)
           n == Len(log)
           k == e.key
           last == LastEvent(log, k)
<1>1. /\ Len(longer) = n + 1 /\ n \in Nat /\ longer[n + 1] = e /\ (n + 1) - 1 = n
      /\ \A j \in 1..n : longer[j] = log[j]
      /\ DOMAIN longer = 1..(n + 1) /\ n + 1 \in 1..(n + 1)
  BY Appended
<1>2. TrackedBefore(longer, n + 1, k, carried) = s.active[k]
  BY <1>1, PrefixKept DEF Agrees
<1>3. /\ last \in 0..n /\ (last = 0 <=> Lifecycle(log, k) = {})
      /\ last # 0 => last \in Lifecycle(log, k) /\ longer[last] = log[last]
  BY EventsGrow
<1> HIDE DEF longer
<1>4. Earlier(longer, n + 1) = Lifecycle(log, k)
  BY <1>1 DEF Earlier, Lifecycle
<1>5. Prior(longer, n + 1) = last
  BY <1>4 DEF Prior, LastEvent
<1> HIDE DEF last
<1>6. 0 \notin DOMAIN longer /\ (last # 0 => last \in DOMAIN longer)
  BY <1>1, <1>3
<1>7. last # 0 => log[last].type \in SessionTypes
  BY <1>3 DEF Lifecycle
<1>8. s.stage[k].phase = IF last = 0 THEN "none" ELSE PhaseAfter(log[last].type)
  BY DEF Staged, last
<1>9. ASSUME NEW t \in SessionTypes
      PROVE  PriorIs(longer, n + 1, t) <=> s.stage[k].phase = PhaseAfter(t)
  <2>1. PriorIs(longer, n + 1, t) <=> last # 0 /\ log[last].type = t
    BY <1>3, <1>5, <1>6 DEF PriorIs, IsType
  <2>2. last = 0 => s.stage[k].phase # PhaseAfter(t)
    BY <1>8, PhasesDiffer
  <2>3. last # 0 => (s.stage[k].phase = PhaseAfter(t) <=> log[last].type = t)
    BY <1>7, <1>8, PhasesDiffer
  <2> QED
    BY <2>1, <2>2, <2>3
<1>10. /\ PriorIs(longer, n + 1, "xfrm_apply_intent") <=> s.stage[k].phase = "apply_intent"
       /\ PriorIs(longer, n + 1, "xfrm_apply_observed") <=> s.stage[k].phase = "apply_observed"
       /\ PriorIs(longer, n + 1, "session_expired") <=> s.stage[k].phase = "expired"
       /\ PriorIs(longer, n + 1, "xfrm_delete_intent") <=> s.stage[k].phase = "delete_intent"
  BY <1>9 DEF PhaseAfter, SessionTypes
<1>11. s.stage[k].phase \in {"apply_intent", "delete_intent"} =>
         longer[Prior(longer, n + 1)].plan = s.stage[k].plan /\ s.stage[k].plan # NoPlan
  <2>1. s.stage[k].phase \in {"apply_intent", "delete_intent"} => last # 0
    BY <1>8
  <2> QED
    BY <1>3, <1>5, <2>1 DEF Staged, last, Applying
<1>12. CASE e.type = "xfrm_apply_intent"
  <2>1. s.stage[k].phase = "none" <=> Earlier(longer, n + 1) = {}
    BY <1>3, <1>4, <1>7, <1>8, PhasesDiffer
  <2>2. Earlier(longer, n + 1) = {} => s.active[k] = carried[k]
    BY <1>3, <1>4 DEF Staged, last
  <2>3. validateSessionLifetime(e, MaxSALifetime)
          <=> e.exp # NoTime /\ (MaxSALifetime > 0 => e.exp <= e.ts + MaxSALifetime + 1)
    <3>1. e.exp \in Int /\ e.ts \in Int /\ MaxSALifetime \in Int
      BY CandidateAssumption
    <3>2. e.exp - e.ts <= MaxSALifetime + 1 <=> e.exp <= e.ts + MaxSALifetime + 1
      BY <3>1
    <3> QED
      BY <3>2 DEF validateSessionLifetime
  <2>4. RightlyPlaced(longer, n + 1, carried) <=>
           /\ Earlier(longer, n + 1) = {} /\ carried[k] = NoSession /\ e.plan # NoPlan
           /\ e.exp # NoTime /\ (MaxSALifetime > 0 => e.exp <= e.ts + MaxSALifetime + 1)
    BY <1>1, <1>12 DEF RightlyPlaced
  <2>5. AdmitsSessionEvent(s, e, MaxSALifetime) <=>
           /\ s.active[k] = NoSession /\ s.stage[k].phase = "none"
           /\ e.plan # NoPlan /\ validateSessionLifetime(e, MaxSALifetime)
    BY <1>12 DEF AdmitsSessionEvent
  <2> QED
    BY <2>1, <2>2, <2>3, <2>4, <2>5 DEF longer
<1>13. CASE e.type = "xfrm_apply_observed"
  <2>1. RightlyPlaced(longer, n + 1, carried) <=>
           /\ PriorIs(longer, n + 1, "xfrm_apply_intent")
           /\ e.plan = longer[Prior(longer, n + 1)].plan /\ ProfileSatisfied(e.obs)
    BY <1>1, <1>13 DEF RightlyPlaced
  <2>2. AdmitsSessionEvent(s, e, MaxSALifetime) <=>
           /\ s.stage[k].phase = "apply_intent" /\ e.plan # NoPlan /\ e.plan = s.stage[k].plan
           /\ ProfileSatisfied(e.obs)
    BY <1>13 DEF AdmitsSessionEvent, verifyObservedEvent
  <2> QED
    BY <1>10, <1>11, <2>1, <2>2 DEF longer
<1>14. CASE e.type = "session_activated"
  <2>1. RightlyPlaced(longer, n + 1, carried) <=> PriorIs(longer, n + 1, "xfrm_apply_observed") /\ e.exp # NoTime
    BY <1>1, <1>14 DEF RightlyPlaced
  <2>2. AdmitsSessionEvent(s, e, MaxSALifetime) <=> s.stage[k].phase = "apply_observed" /\ e.exp # NoTime
    BY <1>14 DEF AdmitsSessionEvent
  <2> QED
    BY <1>10, <2>1, <2>2 DEF longer
<1>15. CASE e.type = "session_expired"
  <2>1. RightlyPlaced(longer, n + 1, carried) <=>
           s.active[k] # NoSession /\ e.exp = s.active[k].exp /\ e.ts >= s.active[k].exp
    BY <1>1, <1>2, <1>15 DEF RightlyPlaced
  <2>2. AdmitsSessionEvent(s, e, MaxSALifetime) <=>
           s.active[k] # NoSession /\ e.exp = s.active[k].exp /\ e.ts >= s.active[k].exp
    BY <1>15 DEF AdmitsSessionEvent, validateExpirationEvent
  <2> QED
    BY <2>1, <2>2 DEF longer
<1>16. CASE e.type = "xfrm_delete_intent"
  <2>1. RightlyPlaced(longer, n + 1, carried) <=>
           PriorIs(longer, n + 1, "session_expired") /\ e.plan = s.active[k].plan
    BY <1>1, <1>2, <1>16 DEF RightlyPlaced
  <2>2. AdmitsSessionEvent(s, e, MaxSALifetime) <=>
           /\ s.active[k] # NoSession /\ s.stage[k].phase = "expired"
           /\ e.plan # NoPlan /\ e.plan = s.active[k].plan
    BY <1>16 DEF AdmitsSessionEvent
  <2>3. s.stage[k].phase = "expired" => s.active[k] # NoSession /\ s.active[k].plan # NoPlan
    BY DEF Staged, Deleting
  <2> QED
    BY <1>10, <2>1, <2>2, <2>3 DEF longer
<1>17. CASE e.type = "xfrm_delete_observed"
  <2>1. RightlyPlaced(longer, n + 1, carried) <=>
           /\ PriorIs(longer, n + 1, "xfrm_delete_intent")
           /\ e.plan = longer[Prior(longer, n + 1)].plan /\ ProfileSatisfied(e.obs)
    BY <1>1, <1>17 DEF RightlyPlaced
  <2>2. AdmitsSessionEvent(s, e, MaxSALifetime) <=>
           /\ s.stage[k].phase = "delete_intent" /\ e.plan # NoPlan /\ e.plan = s.stage[k].plan
           /\ ProfileSatisfied(e.obs)
    BY <1>17 DEF AdmitsSessionEvent, verifyObservedEvent
  <2> QED
    BY <1>10, <1>11, <2>1, <2>2 DEF longer
<1> QED
  BY <1>12, <1>13, <1>14, <1>15, <1>16, <1>17 DEF SessionTypes

(* The first conjunct of AcceptableLog. *)
Fits(log, i, carried) ==
    /\ log[i].type \in AllowedTypes
    /\ log[i].service \in Scope \cup {NoService} \/ "*" \in Scope
    /\ log[i].type \in SessionTypes => log[i].whole /\ RightlyPlaced(log, i, carried)

Placed(log, carried) == \A i \in DOMAIN log : Fits(log, i, carried)

LEMMA FitsKept ==
    ASSUME NEW log \in Seq(Candidates), Grounded(log), NEW carried, NEW e \in Candidates, NEW i \in 1..Len(log)
    PROVE  Fits(Append(log, e), i, carried) <=> Fits(log, i, carried)
<1> DEFINE longer == Append(log, e)
           prior == Prior(log, i)
<1>1. /\ Len(log) \in Nat /\ DOMAIN log = 1..Len(log) /\ DOMAIN longer = 1..(Len(log) + 1)
      /\ \A j \in 1..Len(log) : longer[j] = log[j]
  BY Appended
<1>2. /\ Earlier(longer, i) = Earlier(log, i)
      /\ TrackedBefore(longer, i, log[i].key, carried) = TrackedBefore(log, i, log[i].key, carried)
  <2>1. i \in 1..(Len(log) + 1)
    BY <1>1
  <2> QED
    BY <2>1, PrefixKept
<1> HIDE DEF longer
<1>3. Prior(longer, i) = prior
  BY <1>2 DEF Prior
<1>4. prior \in 0..(i - 1)
  <2>1. i - 1 \in Nat /\ Earlier(log, i) \in SUBSET (1..(i - 1))
    BY <1>1 DEF Earlier
  <2> QED
    BY <2>1, TopIs DEF Prior
<1> HIDE DEF prior
<1>5. prior # 0 => longer[prior] = log[prior] /\ prior \in DOMAIN log /\ prior \in DOMAIN longer
  BY <1>1, <1>4
<1>6. 0 \notin DOMAIN log /\ 0 \notin DOMAIN longer /\ longer[i] = log[i]
  BY <1>1
<1>7. ASSUME NEW t
      PROVE  /\ PriorIs(longer, i, t) <=> PriorIs(log, i, t)
             /\ PriorIs(log, i, t) => longer[Prior(longer, i)] = log[Prior(log, i)]
  BY <1>3, <1>5, <1>6 DEF PriorIs, IsType, prior
<1>8. log[i].type \in SessionTypes => (RightlyPlaced(longer, i, carried) <=> RightlyPlaced(log, i, carried))
  BY <1>2, <1>6, <1>7 DEF RightlyPlaced, SessionTypes
<1> QED
  BY <1>6, <1>8 DEF Fits, longer

LEMMA PlacedStep ==
    ASSUME NEW log \in Seq(Candidates), Grounded(log), NEW carried, Placed(log, carried), NEW s,
           NEW e \in Candidates, \A k \in Keys : Agrees(log, carried, s, k) /\ Staged(log, carried, s, k)
    PROVE  Placed(Append(log, e), carried) <=> Admits(s, e, MaxSALifetime, Scope)
<1> DEFINE longer == Append(log, e)
           n == Len(log)
<1>1. /\ n \in Nat /\ DOMAIN log = 1..n /\ DOMAIN longer = 1..(n + 1) /\ longer[n + 1] = e
  BY Appended
<1>2. \A i \in 1..n : Fits(longer, i, carried)
  BY <1>1, FitsKept DEF Placed
<1>3. e.type \in SessionTypes => (RightlyPlaced(longer, n + 1, carried) <=> AdmitsSessionEvent(s, e, MaxSALifetime))
  BY CandidateAssumption, Decides
<1> HIDE DEF longer
<1>4. Fits(longer, n + 1, carried) <=> Admits(s, e, MaxSALifetime, Scope)
  BY <1>1, <1>3 DEF Fits, Admits, InScope, contains
<1>5. Placed(longer, carried) <=> Fits(longer, n + 1, carried)
  <2>1. n + 1 \in 1..(n + 1) /\ \A i \in 1..(n + 1) : i \in 1..n \/ i = n + 1
    BY <1>1
  <2> QED
    BY <1>1, <1>2, <2>1 DEF Placed
<1> QED
  BY <1>4, <1>5 DEF longer

(* DeletionsFollowExpiry, of any log. *)
None == [x \in Keys |-> NoSession]

Orderly(log) ==
    \A i \in DOMAIN log :
        LET before == TrackedBefore(log, i, log[i].key, None)
        IN  /\ log[i].type = "session_activated" => before = NoSession
            /\ log[i].type = "xfrm_delete_observed" =>
                 /\ before # NoSession
                 /\ \E j \in Earlier(log, i) : log[j].type = "session_expired" /\ log[j].ts >= before.exp

LEMMA OrderlyStep ==
    ASSUME NEW log \in Seq(Candidates), Grounded(log), Orderly(log), NEW part, NEW carried, NEW s,
           NEW e \in Candidates, Admits(s, e, MaxSALifetime, Scope),
           \A k \in Keys : Agrees(log, None, s, k) /\ Overdue(log, s, k) /\ Staged(part, carried, s, k)
    PROVE  Orderly(Append(log, e))
<1> DEFINE longer == Append(log, e)
           n == Len(log)
           k == e.key
<1>1. /\ n \in Nat /\ DOMAIN log = 1..n /\ DOMAIN longer = 1..(n + 1) /\ longer[n + 1] = e /\ (n + 1) - 1 = n
      /\ \A j \in 1..n : longer[j] = log[j]
      /\ \A i \in 1..(n + 1) : i \in 1..n \/ i = n + 1
      /\ n + 1 \in 1..(n + 1) /\ 1..n \subseteq 1..(n + 1)
  BY Appended
<1>2. e.type \in SessionTypes => k \in Keys /\ AdmitsSessionEvent(s, e, MaxSALifetime)
  BY CandidateAssumption DEF Admits
<1>3. ASSUME NEW i \in 1..n
      PROVE  /\ TrackedBefore(longer, i, log[i].key, None) = TrackedBefore(log, i, log[i].key, None)
             /\ Earlier(longer, i) = Earlier(log, i) /\ longer[i] = log[i]
             /\ \A j \in Earlier(log, i) : longer[j] = log[j]
  <2>1. \A j \in Earlier(log, i) : j \in 1..n
    BY <1>1 DEF Earlier
  <2> QED
    BY <1>1, <2>1, PrefixKept
<1>4. TrackedBefore(longer, n + 1, k, None) = TrackedBefore(log, n + 1, k, None)
  BY <1>1, PrefixKept
<1> HIDE DEF longer
<1>5. Earlier(longer, n + 1) = Lifecycle(log, k)
  BY <1>1 DEF Earlier, Lifecycle
<1>6. e.type = "session_activated" => TrackedBefore(longer, n + 1, k, None) = NoSession
  <2> SUFFICES ASSUME e.type = "session_activated" PROVE TrackedBefore(longer, n + 1, k, None) = NoSession
    OBVIOUS
  <2>1. k \in Keys /\ s.stage[k].phase = "apply_observed"
    BY <1>2 DEF AdmitsSessionEvent, SessionTypes
  <2> QED
    BY <1>4, <2>1 DEF Agrees, Staged, Applying
<1>7. e.type = "xfrm_delete_observed" =>
         /\ TrackedBefore(longer, n + 1, k, None) # NoSession
         /\ \E j \in Earlier(longer, n + 1) : /\ longer[j].type = "session_expired"
                                              /\ longer[j].ts >= TrackedBefore(longer, n + 1, k, None).exp
  <2> SUFFICES ASSUME e.type = "xfrm_delete_observed"
               PROVE  /\ TrackedBefore(longer, n + 1, k, None) # NoSession
                      /\ \E j \in Earlier(longer, n + 1) : /\ longer[j].type = "session_expired"
                                                           /\ longer[j].ts >= TrackedBefore(longer, n + 1, k, None).exp
    OBVIOUS
  <2>1. k \in Keys /\ s.stage[k].phase = "delete_intent"
    BY <1>2 DEF AdmitsSessionEvent, SessionTypes
  <2>2. s.active[k] = TrackedBefore(longer, n + 1, k, None) /\ s.active[k] # NoSession
    BY <1>4, <2>1 DEF Agrees, Staged, Deleting
  <2>3. PICK j \in Lifecycle(log, k) : log[j].type = "session_expired" /\ log[j].ts >= s.active[k].exp
    BY <2>1 DEF Overdue, Deleting
  <2>4. longer[j] = log[j]
    BY <1>1, <2>3 DEF Lifecycle
  <2> QED
    BY <1>5, <2>2, <2>3, <2>4
<1>8. ASSUME NEW i \in 1..(n + 1)
      PROVE  LET before == TrackedBefore(longer, i, longer[i].key, None)
             IN  /\ longer[i].type = "session_activated" => before = NoSession
                 /\ longer[i].type = "xfrm_delete_observed" =>
                      /\ before # NoSession
                      /\ \E j \in Earlier(longer, i) : longer[j].type = "session_expired" /\ longer[j].ts >= before.exp
  <2>1. CASE i \in 1..n
    BY <1>1, <1>3, <2>1 DEF Orderly
  <2>2. CASE i = n + 1
    BY <1>1, <1>6, <1>7, <2>2
  <2> QED
    BY <1>1, <2>1, <2>2
<1> QED
  BY <1>1, <1>8 DEF Orderly, longer

-----------------------------------------------------------------------------
(* The invariant: as long as the submission is not refused, the loop's     *)
(* state says of each key what the submission says, and what the whole     *)
(* history with it says.                                                   *)

Loop == PolicyLoop(delta, active, MaxSALifetime, Scope)

Tracks(log, carried, whole, s) ==
    /\ Grounded(log) /\ Grounded(whole) /\ Orderly(whole)
    /\ \A k \in Keys : /\ Agrees(log, carried, s, k) /\ Staged(log, carried, s, k)
                       /\ Agrees(whole, None, s, k) /\ Overdue(whole, s, k)

HistoryInv ==
    /\ delta \in Seq(Candidates) /\ accepted \in Seq(Candidates)
    /\ Shaped(Loop)
    /\ Loop.ok <=> Placed(delta, active)
    /\ Loop.ok => Tracks(delta, active, accepted \o delta, Loop)
    /\ TrackedIsHistory /\ Orderly(accepted)

LEMMA TrackedAtFirst ==
    ASSUME NEW k, NEW carried
    PROVE  TrackedBefore(<<>>, Len(<<>>) + 1, k, carried) = carried[k]
<1>1. Turns(<<>>, Len(<<>>) + 1, k) = {}
  BY DEF Turns
<1>2. {0} \cup {} \in SUBSET Int /\ 0 \in {0} \cup {} /\ \A y \in {0} \cup {} : y <= 0
  OBVIOUS
<1>3. Max({0} \cup Turns(<<>>, Len(<<>>) + 1, k)) = 0
  BY <1>1, <1>2, MaxIs
<1>4. ~IsType(<<>>, 0, {"session_activated"})
  BY DEF IsType
<1> QED
  BY <1>3, <1>4 DEF TrackedBefore

(* A submission begins with what is tracked. *)
LEMMA TracksStart ==
    ASSUME NEW sessions, DOMAIN sessions = Keys, NEW whole \in Seq(Candidates), Grounded(whole), Orderly(whole),
           \A k \in Keys : /\ sessions[k] = TrackedBefore(whole, Len(whole) + 1, k, None)
                           /\ sessions[k] # NoSession => sessions[k].plan # NoPlan
    PROVE  /\ Shaped(Start(sessions)) /\ Start(sessions).ok
           /\ Placed(<<>>, sessions) /\ Tracks(<<>>, sessions, whole, Start(sessions))
<1>1. /\ Shaped(Start(sessions)) /\ Start(sessions).ok /\ Start(sessions).active = sessions
      /\ \A k \in Keys : Start(sessions).stage[k].phase = "none"
  BY DEF Start, Shaped, Stage
<1>2. Placed(<<>>, sessions) /\ Grounded(<<>>)
  BY DEF Placed, Grounded
<1>3. \A k : LastEvent(<<>>, k) = 0
  <2> TAKE k
  <2>1. Lifecycle(<<>>, k) = {}
    BY DEF Lifecycle
  <2>2. {0} \cup {} \in SUBSET Int /\ 0 \in {0} \cup {} /\ \A y \in {0} \cup {} : y <= 0
    OBVIOUS
  <2> QED
    BY <2>1, <2>2, MaxIs DEF LastEvent
<1>4. ASSUME NEW k \in Keys PROVE TrackedBefore(<<>>, Len(<<>>) + 1, k, sessions) = sessions[k]
  BY TrackedAtFirst
<1>5. ASSUME NEW k \in Keys
      PROVE  /\ Agrees(<<>>, sessions, Start(sessions), k) /\ Agrees(whole, None, Start(sessions), k)
             /\ Overdue(whole, Start(sessions), k)
  BY <1>1, <1>4 DEF Agrees, Overdue, Applying, Deleting
<1>6. ASSUME NEW k \in Keys PROVE Staged(<<>>, sessions, Start(sessions), k)
  BY <1>1, <1>3 DEF Staged, Applying, Deleting
<1> QED
  BY <1>1, <1>2, <1>5, <1>6 DEF Tracks

LEMMA HistoryInit == Init => HistoryInv
<1> SUFFICES ASSUME Init PROVE HistoryInv
  OBVIOUS
<1>1. delta = <<>> /\ accepted = <<>> /\ active = None /\ delta \in Seq(Candidates) /\ accepted \in Seq(Candidates)
      /\ accepted \o delta = <<>>
  BY DEF Init, None
<1>2. Loop = Start(active)
  BY <1>1, LoopEmpty DEF Loop
<1>3. Grounded(<<>>) /\ Orderly(<<>>)
  BY DEF Grounded, Orderly
<1>4. ASSUME NEW k \in Keys PROVE active[k] = NoSession /\ TrackedBefore(<<>>, Len(<<>>) + 1, k, None) = NoSession
  BY <1>1, TrackedAtFirst DEF None
<1>5. DOMAIN active = Keys
  BY <1>1 DEF None
<1>6. /\ Shaped(Start(active)) /\ Start(active).ok
      /\ Placed(<<>>, active) /\ Tracks(<<>>, active, <<>>, Start(active))
  BY <1>1, <1>3, <1>4, <1>5, TracksStart
<1>7. TrackedIsHistory
  BY <1>1, <1>4 DEF TrackedIsHistory, None
<1> QED
  BY <1>1, <1>2, <1>3, <1>6, <1>7 DEF HistoryInv

LEMMA RecordKeeps ==
    ASSUME HistoryInv, NEW e \in Candidates, Record(e)
    PROVE  HistoryInv'
<1> DEFINE whole == accepted \o delta
           a == AfterEvent(Loop, e)
<1>1. /\ delta' = Append(delta, e) /\ accepted' = accepted /\ active' = active /\ Loop.ok
      /\ delta \in Seq(Candidates) /\ accepted \in Seq(Candidates) /\ delta' \in Seq(Candidates)
      /\ whole \in Seq(Candidates)
  BY DEF Record, HistoryInv, Loop
<1>2. accepted' \o delta' = Append(whole, e)
  BY <1>1
<1>3. Loop' = PolicyStep(Loop, e, MaxSALifetime, Scope)
  BY <1>1, LoopAppend DEF Loop
<1>4. Shaped(Loop) /\ Placed(delta, active) /\ Tracks(delta, active, whole, Loop)
  BY <1>1 DEF HistoryInv
<1>5. TrackedIsHistory' /\ Orderly(accepted')
  BY <1>1 DEF HistoryInv, TrackedIsHistory
<1>6. Placed(delta', active') <=> Admits(Loop, e, MaxSALifetime, Scope)
  BY <1>1, <1>4, PlacedStep DEF Tracks
<1>7. CASE Admits(Loop, e, MaxSALifetime, Scope)
  <2>1. Loop' = a
    BY <1>1, <1>3, <1>7, StepIs
  <2>2. Shaped(a) /\ a.ok
    <3>1. CASE e.type \in SessionTypes
      <4>1. e.key \in Keys
        BY <3>1, CandidateAssumption
      <4> QED
        BY <1>1, <1>4, <3>1, <4>1, AfterSession
    <3>2. CASE e.type \notin SessionTypes
      BY <1>1, <1>4, <3>2, AfterOther
    <3> QED
      BY <3>1, <3>2
  <2> HIDE DEF a, whole
  <2>3. Grounded(delta') /\ \A k \in Keys : Agrees(delta', active', a, k)
    BY <1>1, <1>4, <1>7, AgreesStep DEF Tracks, a
  <2>4. Grounded(Append(whole, e)) /\ \A k \in Keys : Agrees(Append(whole, e), None, a, k)
    BY <1>1, <1>4, <1>7, AgreesStep DEF Tracks, a
  <2>5. \A k \in Keys : Staged(delta', active', a, k)
    BY <1>1, <1>4, <1>7, StagedStep DEF Tracks, a
  <2>6. \A k \in Keys : Overdue(Append(whole, e), a, k)
    BY <1>1, <1>4, <1>7, OverdueStep DEF Tracks, a
  <2>7. Orderly(Append(whole, e))
    BY <1>1, <1>4, <1>7, OrderlyStep DEF Tracks
  <2>8. Tracks(delta', active', accepted' \o delta', Loop')
    BY <1>2, <2>1, <2>3, <2>4, <2>5, <2>6, <2>7 DEF Tracks, whole
  <2> QED
    BY <1>1, <1>5, <1>6, <1>7, <2>1, <2>2, <2>8 DEF HistoryInv
<1>8. CASE ~Admits(Loop, e, MaxSALifetime, Scope)
  <2>1. Loop' = [Loop EXCEPT !.ok = FALSE]
    BY <1>3, <1>8, StepIs
  <2>2. Shaped(Loop') /\ Loop'.ok = FALSE
    BY <1>4, <2>1 DEF Shaped
  <2> QED
    BY <1>1, <1>5, <1>6, <1>8, <2>2 DEF HistoryInv
<1> QED
  BY <1>7, <1>8

LEMMA AcceptKeeps ==
    ASSUME HistoryInv, NEW t, Accept(t)
    PROVE  HistoryInv'
<1> DEFINE whole == accepted \o delta
<1>1. /\ Loop.ok /\ accepted' = whole /\ active' = Loop.active /\ delta' = <<>>
  BY DEF Accept, verifyEnforcementPolicy, Loop
<1>2. /\ whole \in Seq(Candidates) /\ whole \o <<>> = whole /\ <<>> \in Seq(Candidates)
  BY DEF HistoryInv
<1>3. Shaped(Loop) /\ Tracks(delta, active, whole, Loop)
  BY <1>1 DEF HistoryInv
<1> HIDE DEF whole
<1>4. Loop' = Start(active')
  BY <1>1, LoopEmpty DEF Loop
<1>5. \A k \in Keys : /\ Loop.active[k] = TrackedBefore(whole, Len(whole) + 1, k, None)
                      /\ Loop.active[k] # NoSession => Loop.active[k].plan # NoPlan
  BY <1>3 DEF Tracks, Agrees, Staged
<1>6. DOMAIN Loop.active = Keys /\ Grounded(whole) /\ Orderly(whole)
  BY <1>3 DEF Shaped, Tracks
<1>7. /\ Shaped(Start(Loop.active)) /\ Start(Loop.active).ok
      /\ Placed(<<>>, Loop.active) /\ Tracks(<<>>, Loop.active, whole, Start(Loop.active))
  BY <1>2, <1>5, <1>6, TracksStart
<1>8. TrackedIsHistory'
  BY <1>1, <1>5 DEF TrackedIsHistory, None
<1>9. Shaped(Loop') /\ Loop'.ok /\ Placed(delta', active') /\ Tracks(delta', active', accepted' \o delta', Loop')
  BY <1>1, <1>2, <1>4, <1>7
<1> QED
  BY <1>1, <1>2, <1>6, <1>8, <1>9 DEF HistoryInv

LEMMA HistoryInvariance == Spec => []HistoryInv
<1>1. HistoryInv /\ [Next]_vars => HistoryInv'
  <2> SUFFICES ASSUME HistoryInv, [Next]_vars PROVE HistoryInv'
    OBVIOUS
  <2>1. CASE UNCHANGED vars
    BY <2>1 DEF vars, HistoryInv, Loop, TrackedIsHistory
  <2>2. CASE \E e \in Candidates : Record(e)
    BY <2>2, RecordKeeps
  <2>3. CASE \E t \in Times : Accept(t)
    BY <2>3, AcceptKeeps
  <2> QED
    BY <2>1, <2>2, <2>3 DEF Next
<1> QED
  BY <1>1, HistoryInit, PTL DEF Spec

-----------------------------------------------------------------------------
(* The theorems. *)

(* A checkpoint finds a stage open exactly if the last session event of    *)
(* some key opens a transaction.                                           *)
LEMMA NothingOpen ==
    ASSUME NEW log \in Seq(Candidates), NEW carried, NEW s, \A k \in Keys : Staged(log, carried, s, k)
    PROVE  (\A k \in Keys : s.stage[k].phase \notin Incomplete)
             <=> \A i \in DOMAIN log :
                    log[i].type \in {"xfrm_apply_intent", "xfrm_apply_observed",
                                     "session_expired", "xfrm_delete_intent"}
                    => \E n \in DOMAIN log : log[n].type \in SessionTypes /\ i \in Earlier(log, n)
<1> DEFINE Opening == {"xfrm_apply_intent", "xfrm_apply_observed", "session_expired", "xfrm_delete_intent"}
           last(k) == LastEvent(log, k)
<1>1. DOMAIN log = 1..Len(log) /\ Len(log) \in Nat /\ \A i \in 1..Len(log) : log[i] \in Candidates
  OBVIOUS
<1>2. ASSUME NEW k
      PROVE  /\ last(k) \in 0..Len(log) /\ \A j \in Lifecycle(log, k) : j <= last(k)
             /\ last(k) # 0 => last(k) \in Lifecycle(log, k)
             /\ last(k) = 0 <=> Lifecycle(log, k) = {}
  <2>1. Lifecycle(log, k) \in SUBSET (1..Len(log))
    BY DEF Lifecycle
  <2> QED
    BY <1>1, <2>1, TopIs DEF LastEvent
<1> HIDE DEF last
<1>3. \A k \in Keys : s.stage[k].phase = IF last(k) = 0 THEN "none" ELSE PhaseAfter(log[last(k)].type)
  BY DEF Staged, last
<1>4. ASSUME NEW k \in Keys
      PROVE  s.stage[k].phase \in Incomplete <=> last(k) # 0 /\ log[last(k)].type \in Opening
  <2>1. last(k) # 0 => log[last(k)].type \in SessionTypes
    BY <1>2 DEF Lifecycle
  <2> QED
    BY <1>3, <2>1 DEF PhaseAfter, SessionTypes, Incomplete
<1>5. ASSUME \A k \in Keys : s.stage[k].phase \notin Incomplete,
             NEW i \in DOMAIN log, log[i].type \in Opening
      PROVE  \E n \in DOMAIN log : log[n].type \in SessionTypes /\ i \in Earlier(log, n)
  <2>1. log[i].type \in SessionTypes /\ log[i].key \in Keys
    BY <1>1, <1>5, CandidateAssumption DEF SessionTypes
  <2>2. i \in Lifecycle(log, log[i].key)
    BY <1>1, <2>1 DEF Lifecycle
  <2>3. last(log[i].key) # 0 /\ last(log[i].key) \in Lifecycle(log, log[i].key) /\ i <= last(log[i].key)
    BY <1>2, <2>2
  <2>4. i # last(log[i].key)
    BY <1>4, <1>5, <2>1, <2>3
  <2>5. /\ last(log[i].key) \in DOMAIN log /\ log[last(log[i].key)].type \in SessionTypes
        /\ log[last(log[i].key)].key = log[i].key /\ i < last(log[i].key)
    BY <1>1, <2>3, <2>4 DEF Lifecycle
  <2>6. i \in Earlier(log, last(log[i].key))
    BY <1>1, <2>1, <2>5 DEF Earlier
  <2> QED
    BY <2>5, <2>6
<1>6. ASSUME \A i \in DOMAIN log : log[i].type \in Opening => \E n \in DOMAIN log : log[n].type \in SessionTypes /\ i \in Earlier(log, n),
             NEW k \in Keys
      PROVE  s.stage[k].phase \notin Incomplete
  <2> SUFFICES ASSUME last(k) # 0, log[last(k)].type \in Opening PROVE FALSE
    BY <1>4
  <2>1. last(k) \in DOMAIN log /\ log[last(k)].key = k /\ log[last(k)].type \in SessionTypes
    BY <1>1, <1>2 DEF Lifecycle
  <2>2. PICK n \in DOMAIN log : log[n].type \in SessionTypes /\ last(k) \in Earlier(log, n)
    BY <1>6, <2>1
  <2>3. log[n].key = k /\ last(k) < n
    BY <1>1, <2>1, <2>2 DEF Earlier
  <2>4. n \in Lifecycle(log, k)
    BY <1>1, <2>2, <2>3 DEF Lifecycle
  <2>5. n <= last(k) /\ n \in Int /\ last(k) \in Int
    BY <1>1, <1>2, <2>4
  <2> QED
    BY <2>3, <2>5
<1> QED
  BY <1>5, <1>6

(* The loop of verifyEnforcementPolicy accepts exactly the acceptable      *)
(* logs, whatever the events, keys, profile, scope and lifetime.           *)
THEOREM LoopIsReference == Spec => []AppraisalIsReference
<1>1. HistoryInv => AppraisalIsReference
  <2> SUFFICES ASSUME HistoryInv, NEW t \in Times
               PROVE  verifyEnforcementPolicy(delta, t, active, MaxSALifetime, Scope).ok
                        <=> AcceptableLog(delta, t, active)
    BY DEF AppraisalIsReference
  <2>1. verifyEnforcementPolicy(delta, t, active, MaxSALifetime, Scope).ok
          <=> /\ Loop.ok
              /\ \A k \in Keys : Loop.stage[k].phase \notin Incomplete
              /\ \A k \in Keys : Loop.active[k] # NoSession => t < Loop.active[k].exp
    BY DEF verifyEnforcementPolicy, Loop
  <2>2. AcceptableLog(delta, t, active)
          <=> /\ Placed(delta, active)
              /\ \A i \in DOMAIN delta :
                    delta[i].type \in {"xfrm_apply_intent", "xfrm_apply_observed",
                                       "session_expired", "xfrm_delete_intent"}
                    => \E n \in DOMAIN delta : delta[n].type \in SessionTypes /\ i \in Earlier(delta, n)
              /\ \A k \in Keys : TrackedBefore(delta, Len(delta) + 1, k, active) # NoSession
                                   => t < TrackedBefore(delta, Len(delta) + 1, k, active).exp
    BY DEF AcceptableLog, Placed, Fits
  <2>3. CASE Loop.ok
    <3>1. \A k \in Keys : Staged(delta, active, Loop, k)
                          /\ Loop.active[k] = TrackedBefore(delta, Len(delta) + 1, k, active)
      BY <2>3 DEF HistoryInv, Tracks, Agrees
    <3>2. Placed(delta, active) /\ delta \in Seq(Candidates)
      BY <2>3 DEF HistoryInv
    <3>3. (\A k \in Keys : Loop.stage[k].phase \notin Incomplete)
            <=> \A i \in DOMAIN delta :
                   delta[i].type \in {"xfrm_apply_intent", "xfrm_apply_observed",
                                      "session_expired", "xfrm_delete_intent"}
                   => \E n \in DOMAIN delta : delta[n].type \in SessionTypes /\ i \in Earlier(delta, n)
      BY <3>1, <3>2, NothingOpen
    <3> QED
      BY <2>1, <2>2, <2>3, <3>1, <3>2, <3>3
  <2>4. CASE ~Loop.ok
    BY <2>1, <2>2, <2>4 DEF HistoryInv
  <2> QED
    BY <2>3, <2>4
<1> QED
  BY <1>1, HistoryInvariance, PTL

(* The sessions carried from submission to submission are the ones of the  *)
(* whole accepted history, for any number of submissions.                  *)
THEOREM CarriedIsHistory == Spec => []TrackedIsHistory
BY HistoryInvariance, PTL DEF HistoryInv

(* No accepted history deletes a session before its expiry or activates    *)
(* one that is still installed.                                            *)
THEOREM DeletionsAreDue == Spec => []DeletionsFollowExpiry
<1>1. HistoryInv => DeletionsFollowExpiry
  BY DEF HistoryInv, Orderly, DeletionsFollowExpiry, None
<1> QED
  BY <1>1, HistoryInvariance, PTL

=============================================================================
