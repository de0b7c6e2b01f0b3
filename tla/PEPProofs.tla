----------------------------- MODULE PEPProofs -----------------------------
(***************************************************************************)
(* Proofs about the PEP, for any sets of activations and session keys, any *)
(* plan length, lifetimes, failures, crashes and clock.                    *)
(***************************************************************************)
EXTENDS PEP, SequenceTheorems, WellFoundedInduction, TLAPS

-----------------------------------------------------------------------------
(* The locks.  A thread at a control point of HistoryCS is in the critical *)
(* section of historyTransactionMu, at one of TokenCS in both.             *)
ThreadFields == {"pc", "s", "d", "todo", "i", "tok", "now", "tries"}
StateFields  == {"sess", "pend", "cap", "log", "acc"}
SessFields   == {"id", "ip", "exp", "svc"}

TokenCS   == {"evidence", "post", "await"}
HistoryCS == {"drain", "delete", "apply"} \cup TokenCS

Shape ==
    /\ DOMAIN th = Threads
    /\ \A t \in Threads : DOMAIN th[t] = ThreadFields /\ DOMAIN th[t].s = SessFields
    /\ DOMAIN mem = StateFields /\ DOMAIN disk = StateFields

LockInv ==
    /\ \A t \in Threads : th[t].pc \in HistoryCS => histMu = t
    /\ \A t \in Threads : th[t].pc \in TokenCS => tokMu = t
    /\ histMu # Free => histMu \in Threads /\ th[histMu].pc \in HistoryCS
    /\ tokMu # Free => tokMu \in Threads /\ th[tokMu].pc \in {"history_lock"} \cup (HistoryCS \ {"apply"})

(* Only main runs before the PEP serves, and nothing runs when it is down. *)
PhaseInv ==
    /\ phase \in {"down", "refused", "starting", "up"}
    /\ phase # "up" => \A t \in Threads \ {"main"} : th[t] = Resting
    /\ phase # "starting" => th["main"] = Resting

Base == Shape /\ LockInv /\ PhaseInv

LEMMA ThreadNames ==
    /\ Free \notin Threads
    /\ "main" \in Threads /\ "reaper" \in Threads /\ "refresher" \in Threads
    /\ Activators \subseteq Threads
    /\ "main" \notin Activators /\ "reaper" \notin Activators /\ "refresher" \notin Activators
BY ConfigAssumption DEF Threads, Free

LEMMA RestingShape ==
    /\ DOMAIN Resting = ThreadFields /\ DOMAIN Resting.s = SessFields /\ Resting.pc = "idle"
    /\ Resting.todo = {} /\ Resting.s = NoSess /\ Resting.now = 0
BY DEF Resting, ThreadFields, NoSess, SessFields

LEMMA BaseInit == Init => Base
BY RestingShape, ThreadNames
   DEF Init, Base, Shape, LockInv, PhaseInv, Empty, StateFields, HistoryCS, TokenCS, Resting

(* What a step of thread t does to the threads. *)
Moved(t) ==
    /\ DOMAIN th' = Threads /\ \A u \in Threads \ {t} : th'[u] = th[u]
    /\ DOMAIN th'[t] = ThreadFields /\ DOMAIN th'[t].s = SessFields

SameLocals(t) ==
    /\ th'[t].s = th[t].s /\ th'[t].d = th[t].d /\ th'[t].todo = th[t].todo /\ th'[t].i = th[t].i
    /\ th'[t].now = th[t].now

LEMMA MovedGoto ==
    ASSUME Shape, NEW t \in Threads, NEW pc, Goto(t, pc)
    PROVE  Moved(t) /\ th'[t].pc = pc /\ SameLocals(t)
BY DEF Shape, Goto, Moved, ThreadFields, SameLocals

LEMMA MovedRest ==
    ASSUME Shape, NEW t \in Threads, Rest(t)
    PROVE  Moved(t) /\ th'[t] = Resting /\ th'[t].pc = "idle"
BY RestingShape DEF Shape, Rest, Moved

LEMMA MovedReturned ==
    ASSUME Shape, NEW t \in Threads, NEW k, TokenReturned(t, k)
    PROVE  /\ Moved(t)
           /\ \/ t \in Activators /\ th'[t].pc = "bind" /\ th'[t].tok = k /\ SameLocals(t)
              \/ t \notin Activators /\ th'[t] = Resting
           /\ phase' = IF t = "main" THEN "up" ELSE phase
           /\ t = "main" => th'[t] = Resting
BY ThreadNames, RestingShape DEF Shape, TokenReturned, Moved, ThreadFields, SameLocals

LEMMA MovedRefused ==
    ASSUME Shape, NEW t \in Threads, TokenRefused(t)
    PROVE  /\ Moved(t)
           /\ \/ th'[t] = Resting /\ th'[t].pc = "idle"
              \/ t = "main" /\ th'[t].pc = "token" /\ th'[t].s = NoSess /\ th'[t].todo = {} /\ th'[t].now = 0
           /\ phase' = phase \/ (t = "main" /\ phase' = "down" /\ th'[t] = Resting)
<1>0. phase' = phase \/ (t = "main" /\ phase' = "down" /\ Rest(t))
  BY DEF TokenRefused
<1>1. CASE Rest(t)
  BY <1>0, <1>1, MovedRest
<1>2. CASE t = "main" /\ th' = [th EXCEPT ![t] = [Resting EXCEPT !.pc = "token", !.tries = th[t].tries + 1]]
  <2>1. CASE Rest(t)
    BY <2>1, <1>1
  <2>2. CASE phase' = phase
    BY <1>2, <2>2, RestingShape DEF Shape, Moved, ThreadFields
  <2> QED
    BY <1>0, <2>1, <2>2
<1> QED
  BY <1>1, <1>2 DEF TokenRefused

-----------------------------------------------------------------------------
(* A step of t leaves the phase, ends the start-up or begins it. *)
PhaseStep(t) ==
    \/ th[t].pc # "idle" /\ phase' = phase
    \/ th[t].pc # "idle" /\ t = "main" /\ phase' \in {"down", "refused", "up"} /\ th'[t] = Resting
    \/ t # "main" /\ phase = "up" /\ phase' = "up"
    \/ t = "main" /\ phase # "up" /\ phase' = "starting"

(* How a step of t moves along the critical sections. *)
LockStep(t) ==
    LET at == th[t].pc
        to == th'[t].pc
    IN  \/ at \notin HistoryCS \cup {"history_lock"} /\ to \notin HistoryCS
           /\ UNCHANGED <<histMu, tokMu>>
        \/ at \notin HistoryCS \cup {"history_lock"} /\ to = "history_lock" /\ tokMu = Free
           /\ tokMu' = t /\ UNCHANGED histMu
        \/ at \notin HistoryCS /\ histMu = Free /\ to \in HistoryCS \ TokenCS /\ histMu' = t
           /\ (to = "apply" => at # "history_lock") /\ UNCHANGED tokMu
        \/ at \in HistoryCS /\ to \in HistoryCS /\ (to \in TokenCS => tokMu = t)
           /\ (to = "apply" => at = "apply") /\ UNCHANGED <<histMu, tokMu>>
        \/ at \in HistoryCS /\ to \notin HistoryCS /\ Release(t)

LEMMA LockStepInv ==
    ASSUME Base, NEW t \in Threads, Moved(t), LockStep(t), PhaseStep(t)
    PROVE  LockInv' /\ PhaseInv'
<1>1. \A u \in Threads \ {t} : th'[u].pc = th[u].pc
  BY DEF Moved
<1>2. LockInv'
  BY <1>1, ThreadNames DEF Base, LockInv, LockStep, Release, HoldsToken, HistoryCS, TokenCS
<1>3. PhaseInv'
  BY ThreadNames, RestingShape DEF Base, PhaseInv, PhaseStep, Moved
<1> QED
  BY <1>2, <1>3

-----------------------------------------------------------------------------
LEMMA BaseTokenSteps ==
    ASSUME Base, NEW t \in Threads,
           CheckHealth(t) \/ TakeTokenLock(t) \/ TakeHistoryLock(t) \/ Bind(t)
    PROVE  Base' /\ Moved(t)
<1> USE DEF Base
<1>1. CASE CheckHealth(t)
  <2>1. Moved(t) /\ th'[t].pc \in {"token_lock", "idle", "token"}
    <3>1. CASE healthy
      BY <1>1, <3>1, MovedGoto DEF CheckHealth
    <3>2. CASE ~healthy
      BY <1>1, <3>2, MovedRefused DEF CheckHealth
    <3> QED
      BY <3>1, <3>2
  <2>2. LockStep(t)
    BY <1>1, <2>1 DEF CheckHealth, LockStep, HistoryCS, TokenCS
  <2>4. PhaseStep(t)
    BY <1>1, MovedRefused DEF CheckHealth, PhaseStep
  <2> QED
    BY <2>4, <1>1, <2>1, <2>2, LockStepInv DEF CheckHealth, Shape, Moved
<1>2. CASE TakeTokenLock(t)
  <2>1. \/ Moved(t) /\ th'[t].pc \in {"bind", "idle"} /\ UNCHANGED <<histMu, tokMu>>
        \/ Moved(t) /\ th'[t].pc = "history_lock" /\ tokMu' = t /\ UNCHANGED histMu
    <3>0. UNCHANGED histMu
      BY <1>2 DEF TakeTokenLock
    <3>1. CASE TokenReturned(t, tok) /\ UNCHANGED tokMu
      <4>1. Moved(t) /\ th'[t].pc \in {"bind", "idle"}
        BY <3>1, MovedReturned, RestingShape
      <4> QED
        BY <3>0, <3>1, <4>1
    <3>2. CASE tokMu' = t /\ Goto(t, "history_lock")
      BY <3>0, <3>2, MovedGoto
    <3> QED
      BY <1>2, <3>1, <3>2 DEF TakeTokenLock
  <2>2. LockStep(t)
    BY <1>2, <2>1 DEF TakeTokenLock, LockStep, HistoryCS, TokenCS
  <2>4. PhaseStep(t)
    BY <1>2, MovedReturned DEF TakeTokenLock, PhaseStep
  <2> QED
    BY <2>4, <1>2, <2>1, <2>2, LockStepInv DEF TakeTokenLock, Shape, Moved
<1>3. CASE TakeHistoryLock(t)
  <2>1. Moved(t) /\ th'[t].pc = "drain"
    BY <1>3 DEF TakeHistoryLock, Shape, Moved, ThreadFields
  <2>2. LockStep(t)
    BY <1>3, <2>1 DEF TakeHistoryLock, LockStep, HistoryCS, TokenCS
  <2>4. PhaseStep(t)
    BY <1>3 DEF TakeHistoryLock, PhaseStep
  <2> QED
    BY <2>4, <1>3, <2>1, <2>2, LockStepInv DEF TakeHistoryLock, Shape, Moved
<1>4. CASE Bind(t)
  <2>1. Moved(t) /\ th'[t].pc \in {"apply_lock", "idle"}
    BY <1>4, MovedRest DEF Bind, Shape, Moved, ThreadFields, SessFields
  <2>2. LockStep(t)
    BY <1>4, <2>1 DEF Bind, LockStep, HistoryCS, TokenCS
  <2>4. PhaseStep(t)
    BY <1>4 DEF Bind, PhaseStep
  <2> QED
    BY <2>4, <1>4, <2>1, <2>2, LockStepInv DEF Bind, Shape, Moved
<1> QED
  BY <1>1, <1>2, <1>3, <1>4

LEMMA DrainFails ==
    ASSUME Shape, NEW t \in Threads, DrainFailed(t)
    PROVE  /\ Moved(t) /\ th'[t].pc \in {"idle", "token"} /\ Release(t)
           /\ th'[t].s = NoSess /\ th'[t].now = 0
           /\ phase' = phase \/ (t = "main" /\ phase' = "down" /\ th'[t] = Resting)
<1>1. CASE TokenRefused(t)
  BY <1>1, MovedRefused, RestingShape DEF DrainFailed
<1>2. CASE Rest(t) /\ phase' = IF t = "main" THEN "down" ELSE phase
  BY <1>2, MovedRest, RestingShape DEF DrainFailed
<1> QED
  BY <1>1, <1>2 DEF DrainFailed

LEMMA BaseDeleteSteps ==
    ASSUME Base, NEW t \in Threads,
           \/ \E d \in th[t].todo : BeginDelete(t, d)
           \/ DeleteCommand(t)
           \/ \E o \in Observations(TRUE) : FinishDelete(t, o)
           \/ Drained(t)
    PROVE  Base' /\ Moved(t)
<1> USE DEF Base
<1>1. ASSUME NEW d \in th[t].todo, BeginDelete(t, d) PROVE Base' /\ Moved(t)
  <2>1. \/ Moved(t) /\ th'[t].pc = "delete" /\ UNCHANGED <<histMu, tokMu>>
        \/ Moved(t) /\ th'[t].pc \in {"idle", "token"} /\ Release(t)
    <3>1. CASE DrainFailed(t)
      BY <3>1, DrainFails
    <3>2. CASE /\ th' = [th EXCEPT ![t].pc = "delete", ![t].d = d, ![t].i = FirstCommand]
               /\ UNCHANGED <<histMu, tokMu>>
      BY <3>2 DEF Shape, Moved, ThreadFields
    <3> QED
      BY <1>1, <3>1, <3>2 DEF BeginDelete
  <2>2. LockStep(t)
    BY <1>1, <2>1 DEF BeginDelete, LockStep, HistoryCS, TokenCS
  <2>3. DOMAIN mem' = StateFields /\ DOMAIN disk' = StateFields
    BY <1>1 DEF BeginDelete, Shape, Persist, historyAppend
  <2>4. PhaseStep(t)
    BY <1>1, DrainFails DEF BeginDelete, PhaseStep
  <2> QED
    BY <2>4, <2>1, <2>2, <2>3, LockStepInv DEF Shape, Moved
<1>2. CASE DeleteCommand(t)
  <2>1. Moved(t) /\ th'[t].pc = "delete"
    BY <1>2 DEF DeleteCommand, Shape, Moved, ThreadFields
  <2>2. LockStep(t)
    BY <1>2, <2>1 DEF DeleteCommand, LockStep, HistoryCS, TokenCS
  <2>4. PhaseStep(t)
    BY <1>2 DEF DeleteCommand, PhaseStep
  <2> QED
    BY <2>4, <1>2, <2>1, <2>2, LockStepInv DEF DeleteCommand, Shape, Moved
<1>3. ASSUME NEW o \in Observations(TRUE), FinishDelete(t, o) PROVE Base' /\ Moved(t)
  <2>1. \/ Moved(t) /\ th'[t].pc = "drain" /\ UNCHANGED <<histMu, tokMu>>
        \/ Moved(t) /\ th'[t].pc \in {"idle", "token"} /\ Release(t)
    <3>1. CASE DrainFailed(t)
      BY <3>1, DrainFails
    <3>2. CASE /\ th' = [th EXCEPT ![t].pc = "drain", ![t].d = NoSess, ![t].i = 0, ![t].todo = @ \ {th[t].d}]
               /\ UNCHANGED <<histMu, tokMu>>
      BY <3>2 DEF Shape, Moved, ThreadFields
    <3> QED
      BY <1>3, <3>1, <3>2 DEF FinishDelete
  <2>2. LockStep(t)
    BY <1>3, <2>1 DEF FinishDelete, LockStep, HistoryCS, TokenCS
  <2>3. DOMAIN mem' = StateFields /\ DOMAIN disk' = StateFields
    BY <1>3 DEF FinishDelete, Shape, Persist, historyAppend
  <2>4. PhaseStep(t)
    <3>1. CASE DrainFailed(t)
      BY <1>3, <3>1, DrainFails DEF FinishDelete, PhaseStep
    <3>2. CASE UNCHANGED phase
      BY <1>3, <3>2 DEF FinishDelete, PhaseStep
    <3> QED
      BY <1>3, <3>1, <3>2 DEF FinishDelete
  <2> QED
    BY <2>4, <2>1, <2>2, <2>3, LockStepInv DEF Shape, Moved
<1>4. CASE Drained(t)
  <2>1. \/ Moved(t) /\ th'[t].pc = "evidence" /\ tokMu = t /\ UNCHANGED <<histMu, tokMu>>
        \/ Moved(t) /\ th'[t].pc \in {"idle", "validate"} /\ Release(t)
    BY <1>4, MovedGoto, MovedRest DEF Drained, HoldsToken
  <2>2. LockStep(t)
    BY <1>4, <2>1 DEF Drained, LockStep, HistoryCS, TokenCS
  <2>4. PhaseStep(t)
    BY <1>4 DEF Drained, PhaseStep
  <2> QED
    BY <2>4, <1>4, <2>1, <2>2, LockStepInv DEF Drained, Shape, Moved
<1> QED
  BY <1>1, <1>2, <1>3, <1>4

LEMMA BaseEvidenceSteps ==
    ASSUME Base, NEW t \in Threads,
           PrepareEvidence(t) \/ Post(t) \/ AcceptToken(t) \/ Timeout(t)
    PROVE  Base' /\ Moved(t)
<1> USE DEF Base
<1>1. CASE PrepareEvidence(t)
  <2>1. \/ Moved(t) /\ th'[t].pc = "post" /\ UNCHANGED <<histMu, tokMu>>
        \/ Moved(t) /\ th'[t].pc \in {"idle", "token"} /\ Release(t)
    BY <1>1, MovedGoto, MovedRefused DEF PrepareEvidence
  <2>2. LockStep(t)
    BY <1>1, <2>1 DEF PrepareEvidence, LockStep, HistoryCS, TokenCS, LockInv
  <2>3. DOMAIN mem' = StateFields /\ DOMAIN disk' = StateFields
    BY <1>1 DEF PrepareEvidence, Shape, Persist, historyAppend
  <2>4. PhaseStep(t)
    BY <1>1, MovedRefused DEF PrepareEvidence, PhaseStep
  <2> QED
    BY <2>4, <2>1, <2>2, <2>3, LockStepInv DEF Shape, Moved
<1>2. CASE Post(t)
  <2>1. Moved(t) /\ th'[t].pc = "await"
    BY <1>2, MovedGoto DEF Post
  <2>2. LockStep(t)
    BY <1>2, <2>1 DEF Post, LockStep, HistoryCS, TokenCS, LockInv
  <2>4. PhaseStep(t)
    BY <1>2 DEF Post, PhaseStep
  <2> QED
    BY <2>4, <1>2, <2>1, <2>2, LockStepInv DEF Post, Shape, Moved
<1>3. CASE AcceptToken(t)
  <2>1. Moved(t) /\ th'[t].pc \in {"bind", "idle", "token"} /\ Release(t)
    BY <1>3, MovedReturned, MovedRefused, RestingShape DEF AcceptToken
  <2>2. LockStep(t)
    BY <1>3, <2>1 DEF AcceptToken, LockStep, HistoryCS, TokenCS
  <2>3. DOMAIN mem' = StateFields /\ DOMAIN disk' = StateFields
    BY <1>3 DEF AcceptToken, Shape, Persist, historyAppend, MarkCheckpointAccepted
  <2>4. PhaseStep(t)
    BY <1>3, MovedReturned, MovedRefused DEF AcceptToken, PhaseStep
  <2> QED
    BY <2>4, <2>1, <2>2, <2>3, LockStepInv DEF Shape, Moved
<1>4. CASE Timeout(t)
  <2>1. Moved(t) /\ th'[t].pc \in {"idle", "token"} /\ Release(t)
    BY <1>4, MovedRefused DEF Timeout
  <2>2. LockStep(t)
    BY <1>4, <2>1 DEF Timeout, LockStep, HistoryCS, TokenCS
  <2>4. PhaseStep(t)
    BY <1>4, MovedRefused DEF Timeout, PhaseStep
  <2> QED
    BY <2>4, <1>4, <2>1, <2>2, LockStepInv DEF Timeout, Shape, Moved
<1> QED
  BY <1>1, <1>2, <1>3, <1>4

LEMMA BaseApplySteps ==
    ASSUME Base, NEW t \in Threads,
           \/ BeginApply(t) \/ ApplyCommand(t)
           \/ \E o \in Observations(TRUE), left \in SUBSET Parts : FinishApply(t, o, left)
    PROVE  Base' /\ Moved(t)
<1> USE DEF Base
<1>1. CASE BeginApply(t)
  <2>1. \/ Moved(t) /\ th'[t].pc = "apply" /\ histMu' = t
        \/ Moved(t) /\ th'[t].pc = "idle" /\ histMu' = histMu
    <3>1. CASE Rest(t) /\ histMu' = histMu
      BY <3>1, MovedRest
    <3>2. CASE th' = [th EXCEPT ![t].pc = "apply", ![t].i = FirstCommand] /\ histMu' = t
      BY <3>2 DEF Shape, Moved, ThreadFields
    <3> QED
      BY <1>1, <3>1, <3>2 DEF BeginApply
  <2>2. LockStep(t)
    BY <1>1, <2>1 DEF BeginApply, LockStep, HistoryCS, TokenCS
  <2>3. DOMAIN mem' = StateFields /\ DOMAIN disk' = StateFields
    BY <1>1 DEF BeginApply, Shape, Persist, historyAppend
  <2>4. PhaseStep(t)
    BY <1>1 DEF BeginApply, PhaseStep
  <2> QED
    BY <2>4, <2>1, <2>2, <2>3, LockStepInv DEF Shape, Moved
<1>2. CASE ApplyCommand(t)
  <2>1. \/ Moved(t) /\ th'[t].pc = "apply" /\ histMu' = histMu
        \/ Moved(t) /\ th'[t].pc = "idle" /\ histMu' = Free
    <3>1. CASE Rest(t) /\ histMu' = Free
      BY <3>1, MovedRest
    <3>2. CASE th' = [th EXCEPT ![t].i = th[t].i + 1] /\ histMu' = histMu
      BY <1>2, <3>2 DEF ApplyCommand, Shape, Moved, ThreadFields
    <3> QED
      BY <1>2, <3>1, <3>2 DEF ApplyCommand
  <2>2. LockStep(t)
    <3>1. tokMu # t
      BY <1>2, ThreadNames DEF ApplyCommand, LockInv, HistoryCS, TokenCS
    <3> QED
      BY <1>2, <2>1, <3>1 DEF ApplyCommand, LockStep, HistoryCS, TokenCS, Release, HoldsToken
  <2>4. PhaseStep(t)
    BY <1>2 DEF ApplyCommand, PhaseStep
  <2> QED
    BY <2>4, <1>2, <2>1, <2>2, LockStepInv DEF ApplyCommand, Shape, Moved
<1>3. ASSUME NEW o, NEW left, FinishApply(t, o, left) PROVE Base' /\ Moved(t)
  <2>1. Moved(t) /\ th'[t].pc = "idle" /\ histMu' = Free
    BY <1>3, MovedRest DEF FinishApply
  <2>2. LockStep(t)
    <3>1. tokMu # t
      BY <1>3, ThreadNames DEF FinishApply, LockInv, HistoryCS, TokenCS
    <3> QED
      BY <1>3, <2>1, <3>1 DEF FinishApply, LockStep, HistoryCS, TokenCS, Release, HoldsToken
  <2>3. DOMAIN mem' = StateFields /\ DOMAIN disk' = StateFields
    BY <1>3 DEF FinishApply, Shape, Persist, historyAppend
  <2>4. PhaseStep(t)
    BY <1>3 DEF FinishApply, PhaseStep
  <2> QED
    BY <2>4, <2>1, <2>2, <2>3, LockStepInv DEF Shape, Moved
<1> QED
  BY <1>1, <1>2, <1>3

LEMMA BaseOtherSteps ==
    ASSUME Base,
           \/ \E t \in Activators, k \in Keys, svc \in Services : Activate(t, k, svc)
           \/ Refresh \/ Reap \/ Boot \/ validateRestoredSessions
           \/ Serve \/ (\E ev \in late : ServeLate(ev)) \/ Tick
           \/ \E kept \in BOOLEAN : Crash(kept)
           \/ UNCHANGED vars
    PROVE  Base'
<1> USE ThreadNames DEF Base
<1>1. ASSUME NEW t \in Activators, NEW k \in Keys, NEW svc \in Services, Activate(t, k, svc) PROVE Base'
  <2>1. CASE th' = th
    BY <1>1, <2>1 DEF Activate, Shape, LockInv, PhaseInv
  <2>2. CASE th' # th
    <3>1. Moved(t) /\ th'[t].pc = "token"
      <4>1. th' = [th EXCEPT ![t] = [Resting EXCEPT !.pc = "token",
                                     !.s = [id |-> k, ip |-> next', exp |-> NoTime, svc |-> svc]]]
        BY <1>1, <2>2 DEF Activate
      <4> QED
        BY <4>1, RestingShape DEF Shape, Moved, ThreadFields, SessFields
    <3>2. LockStep(t)
      BY <1>1, <3>1 DEF Activate, LockStep, HistoryCS, TokenCS
    <3>3. PhaseStep(t)
      BY <1>1 DEF Activate, PhaseStep
    <3> QED
      BY <1>1, <3>1, <3>2, <3>3, LockStepInv DEF Activate, Shape, Moved
  <2> QED
    BY <2>1, <2>2
<1>2. CASE Refresh
  <2>1. Moved("refresher") /\ th'["refresher"].pc = "token"
    BY <1>2, MovedGoto DEF Refresh
  <2>2. LockStep("refresher")
    BY <1>2, <2>1 DEF Refresh, LockStep, HistoryCS, TokenCS
  <2>4. PhaseStep("refresher")
    BY <1>2 DEF Refresh, PhaseStep
  <2> QED
    BY <1>2, <2>4, <2>1, <2>2, LockStepInv DEF Refresh, Shape, Moved
<1>3. CASE Reap
  <2>1. Moved("reaper") /\ th'["reaper"].pc = "history_lock"
    BY <1>3 DEF Reap, Shape, Moved, ThreadFields
  <2>2. LockStep("reaper")
    BY <1>3, <2>1 DEF Reap, LockStep, HistoryCS, TokenCS
  <2>4. PhaseStep("reaper")
    BY <1>3 DEF Reap, PhaseStep
  <2> QED
    BY <1>3, <2>4, <2>1, <2>2, LockStepInv DEF Reap, Shape, Moved
<1>4. CASE Boot
  <2>1. Moved("main") /\ th'["main"].pc = "history_lock"
    BY <1>4, MovedGoto DEF Boot
  <2>2. LockStep("main")
    BY <1>4, <2>1, RestingShape DEF Boot, PhaseInv, LockStep, HistoryCS, TokenCS
  <2>3. DOMAIN mem' = StateFields
    BY <1>4 DEF Boot, historyAppend, RestoredState, Shape
  <2>4. PhaseStep("main")
    BY <1>4 DEF Boot, PhaseStep
  <2> QED
    BY <1>4, <2>4, <2>1, <2>2, <2>3, LockStepInv DEF Boot, Shape, Moved
<1>5. CASE validateRestoredSessions
  <2>1. Moved("main") /\ th'["main"].pc \in {"token", "idle"}
    <3>1. CASE Goto("main", "token")
      BY <3>1, MovedGoto
    <3>2. CASE Rest("main")
      BY <3>2, MovedRest
    <3> QED
      BY <1>5, <3>1, <3>2 DEF validateRestoredSessions
  <2>2. LockStep("main")
    BY <1>5, <2>1 DEF validateRestoredSessions, LockStep, HistoryCS, TokenCS
  <2>4. PhaseStep("main")
    BY <1>5, MovedRest DEF validateRestoredSessions, PhaseStep
  <2> QED
    BY <1>5, <2>4, <2>1, <2>2, LockStepInv DEF validateRestoredSessions, Shape, Moved
<1>6. CASE Serve \/ (\E ev \in late : ServeLate(ev)) \/ Tick \/ UNCHANGED vars
  BY <1>6 DEF Serve, ServeLate, Tick, vars, Shape, LockInv, PhaseInv
<1>7. ASSUME NEW kept, Crash(kept) PROVE Base'
  BY <1>7, RestingShape DEF Crash, Shape, LockInv, PhaseInv, HistoryCS, TokenCS
<1> QED
  BY <1>1, <1>2, <1>3, <1>4, <1>5, <1>6, <1>7

LEMMA BaseNext == Base /\ [Next]_vars => Base'
<1> SUFFICES ASSUME Base, [Next]_vars PROVE Base'
  OBVIOUS
<1>1. ASSUME NEW t \in Threads, Step(t) PROVE Base'
  BY <1>1, BaseTokenSteps, BaseDeleteSteps, BaseEvidenceSteps, BaseApplySteps DEF Step
<1> QED
  BY <1>1, BaseOtherSteps DEF Next

LEMMA BaseInvariance == Spec => []Base
BY BaseInit, BaseNext, PTL DEF Spec

-----------------------------------------------------------------------------
(* Sessions, markers, tokens and the kernel: types. *)
Sessions == [id : Keys, ip : 1..MaxHost, exp : 0..(MaxTime + SALifetime), svc : Services]
Drafts   == [id : Keys, ip : 1..MaxHost, exp : Int, svc : Services]
Markers  == {NoMarker} \cup [op : {"xfrm_apply", "xfrm_delete"}, id : Keys]

HasExpiry(k) == k # NoToken => k.exp \in Int

ThreadTypes(t) ==
    /\ th[t].todo \subseteq Sessions
    /\ th[t].pc = "delete" => th[t].d \in Sessions /\ th[t].i \in Nat
    /\ t \in Activators /\ th[t].pc # "idle" => th[t].s \in Drafts
    /\ th[t].pc = "bind" => t \in Activators /\ th[t].tok.exp \in Int
    /\ th[t].pc \in {"apply_lock", "apply"} => t \in Activators /\ th[t].s \in Sessions
    /\ th[t].pc = "apply" => th[t].i \in Nat

GlobalTypes ==
    /\ mem.sess \subseteq Sessions /\ disk.sess \subseteq Sessions
    /\ mem.pend \in Markers /\ disk.pend \in Markers
    /\ HasExpiry(tok) /\ HasExpiry(ver.tok) /\ HasExpiry(rpc.tok)
    /\ next \in Nat /\ clock \in 0..MaxTime
    /\ kern \in [Keys -> SUBSET Parts]

Types == GlobalTypes /\ \A t \in Threads : ThreadTypes(t)

LEMMA TypesInit == Init => Types
BY ConfigAssumption, RestingShape, ThreadNames
   DEF Init, Types, GlobalTypes, ThreadTypes, Empty, Markers, HasExpiry, NoCall, NoTime

LEMMA TypesMoved ==
    ASSUME Types, NEW t \in Threads, Moved(t), GlobalTypes', ThreadTypes(t)'
    PROVE  Types'
BY DEF Types, ThreadTypes, Moved

LEMMA RestingTypes ==
    ASSUME NEW t \in Threads, th'[t] = Resting
    PROVE  ThreadTypes(t)'
BY RestingShape DEF ThreadTypes

LEMMA RefusedTypes ==
    ASSUME Base, NEW t \in Threads, TokenRefused(t) \/ DrainFailed(t)
    PROVE  ThreadTypes(t)'
<1>1. ASSUME TokenRefused(t) PROVE ThreadTypes(t)'
  BY <1>1, MovedRefused, RestingTypes, ThreadNames DEF Base, ThreadTypes
<1>2. ASSUME Rest(t) PROVE ThreadTypes(t)'
  BY <1>2, MovedRest, RestingTypes DEF Base
<1> QED
  BY <1>1, <1>2 DEF DrainFailed

LEMMA MinOfThree ==
    ASSUME NEW a \in Int, NEW b \in Int, NEW c \in Int
    PROVE  Min({a, b, c}) \in {a, b, c} /\ Min({a, b, c}) <= a /\ Min({a, b, c}) <= b /\ Min({a, b, c}) <= c
<1>1. \E x \in {a, b, c} : \A y \in {a, b, c} : x <= y
  OBVIOUS
<1> QED
  BY <1>1 DEF Min

LEMMA TypesTokenSteps ==
    ASSUME Base, Types, NEW t \in Threads,
           CheckHealth(t) \/ TakeTokenLock(t) \/ TakeHistoryLock(t) \/ Bind(t)
    PROVE  Types'
<1> USE DEF Base, Types
<1>1. Moved(t)
  BY BaseTokenSteps
<1>2. GlobalTypes'
  BY DEF GlobalTypes, CheckHealth, TakeTokenLock, TakeHistoryLock, Bind
<1>3. CASE CheckHealth(t)
  <2>1. CASE Goto(t, "token_lock")
    BY <1>1, <1>2, <1>3, <2>1, MovedGoto, TypesMoved DEF CheckHealth, ThreadTypes, SameLocals
  <2> QED
    BY <1>1, <1>2, <1>3, <2>1, RefusedTypes, TypesMoved DEF CheckHealth
<1>4. CASE TakeTokenLock(t)
  <2>1. CASE TokenReturned(t, tok) /\ tok # NoToken
    <3>1. ThreadTypes(t)'
      BY <1>4, <2>1, MovedReturned, RestingTypes
         DEF TakeTokenLock, ThreadTypes, GlobalTypes, HasExpiry, SameLocals
    <3> QED
      BY <1>1, <1>2, <3>1, TypesMoved
  <2>2. CASE Goto(t, "history_lock")
    BY <1>1, <1>2, <1>4, <2>2, MovedGoto, TypesMoved DEF TakeTokenLock, ThreadTypes, SameLocals
  <2> QED
    BY <1>1, <1>2, <1>4, <2>1, <2>2, TypesMoved DEF TakeTokenLock
<1>5. CASE TakeHistoryLock(t)
  <2>1. /\ th'[t].pc = "drain" /\ th'[t].todo \subseteq mem.sess /\ th'[t].s = th[t].s
        /\ th[t].pc = "history_lock"
    BY <1>5 DEF TakeHistoryLock, Expired, Shape, ThreadFields
  <2> QED
    BY <1>1, <1>2, <2>1, TypesMoved DEF GlobalTypes, ThreadTypes
<1>6. CASE Bind(t)
  <2>1. CASE Rest(t)
    BY <1>1, <1>2, <2>1, MovedRest, RestingTypes, TypesMoved
  <2>2. CASE /\ boundLifetime(th[t].tok) > 0
             /\ th' = [th EXCEPT ![t].pc = "apply_lock", ![t].s.exp = clock + boundLifetime(th[t].tok)]
    <3>1. boundLifetime(th[t].tok) \in 1..SALifetime
      <4>1. th[t].tok.exp - clock \in Int /\ SALifetime \in Int /\ MaxSALifetime \in Int
        BY <1>6, ConfigAssumption DEF Bind, ThreadTypes, GlobalTypes
      <4>2. boundLifetime(th[t].tok) \in Int /\ boundLifetime(th[t].tok) <= SALifetime
        BY <4>1, MinOfThree DEF boundLifetime
      <4> QED
        BY <2>2, <4>1, <4>2
    <3>2. clock + boundLifetime(th[t].tok) \in 0..(MaxTime + SALifetime)
      BY <3>1, ConfigAssumption DEF GlobalTypes
    <3>3. /\ th'[t].pc = "apply_lock" /\ th'[t].todo = th[t].todo
          /\ th'[t].s = [th[t].s EXCEPT !.exp = clock + boundLifetime(th[t].tok)]
      BY <2>2 DEF Shape, ThreadFields
    <3>4. t \in Activators /\ th[t].s \in Drafts
      BY <1>6 DEF Bind, ThreadTypes
    <3>5. th'[t].s \in Sessions /\ th'[t].s \in Drafts
      BY <3>2, <3>3, <3>4 DEF Sessions, Drafts
    <3> QED
      BY <1>1, <1>2, <3>3, <3>4, <3>5, TypesMoved DEF ThreadTypes
  <2> QED
    BY <1>6, <2>1, <2>2 DEF Bind
<1> QED
  BY <1>3, <1>4, <1>5, <1>6

LEMMA TypesDeleteSteps ==
    ASSUME Base, Types, NEW t \in Threads,
           \/ \E d \in th[t].todo : BeginDelete(t, d)
           \/ DeleteCommand(t)
           \/ \E o \in Observations(TRUE) : FinishDelete(t, o)
           \/ Drained(t)
    PROVE  Types'
<1> USE DEF Base, Types
<1>1. Moved(t)
  BY BaseDeleteSteps
<1>2. ASSUME NEW d \in th[t].todo, BeginDelete(t, d) PROVE Types'
  <2>1. d \in Sessions /\ d.id \in Keys
    BY DEF ThreadTypes, Sessions
  <2>2. GlobalTypes'
    <3>1. [op |-> "xfrm_delete", id |-> d.id] \in Markers
      BY <2>1 DEF Markers
    <3>2. /\ mem'.sess = mem.sess /\ mem'.pend \in {mem.pend, [op |-> "xfrm_delete", id |-> d.id]}
          /\ disk'.sess \in {mem.sess, disk.sess}
          /\ disk'.pend \in {disk.pend, [op |-> "xfrm_delete", id |-> d.id]}
      BY <1>2 DEF BeginDelete, Persist, historyAppend, Shape, StateFields
    <3> QED
      BY <1>2, <3>1, <3>2 DEF GlobalTypes, BeginDelete
  <2>3. CASE th' = [th EXCEPT ![t].pc = "delete", ![t].d = d, ![t].i = FirstCommand]
    <3>1. /\ th'[t].pc = "delete" /\ th'[t].d = d /\ th'[t].i = FirstCommand
          /\ th'[t].s = th[t].s /\ th'[t].todo = th[t].todo /\ th[t].pc = "drain"
      BY <1>2, <2>3 DEF BeginDelete, Shape, ThreadFields
    <3>2. FirstCommand \in Nat
      BY ConfigAssumption DEF FirstCommand
    <3> QED
      BY <1>1, <2>1, <2>2, <3>1, <3>2, TypesMoved DEF ThreadTypes
  <2>4. CASE DrainFailed(t)
    BY <1>1, <2>2, <2>4, RefusedTypes, TypesMoved
  <2> QED
    BY <1>2, <2>3, <2>4 DEF BeginDelete
<1>3. CASE DeleteCommand(t)
  <2>1. /\ th'[t].pc = "delete" /\ th'[t].d = th[t].d /\ th'[t].i = th[t].i + 1
        /\ th'[t].s = th[t].s /\ th'[t].todo = th[t].todo /\ th[t].pc = "delete"
    BY <1>3 DEF DeleteCommand, Shape, ThreadFields
  <2>2. kern' \in [Keys -> SUBSET Parts]
    BY <1>3 DEF DeleteCommand, GlobalTypes
  <2>3. GlobalTypes'
    BY <1>3, <2>2 DEF DeleteCommand, GlobalTypes
  <2> QED
    BY <1>1, <2>1, <2>3, TypesMoved DEF ThreadTypes
<1>4. ASSUME NEW o \in Observations(TRUE), FinishDelete(t, o) PROVE Types'
  <2> DEFINE d == th[t].d
             seen == historyAppend(mem, <<Event("xfrm_delete_observed", d, d.id, o)>>)
             gone == [seen EXCEPT !.sess = {x \in @ : x.id # d.id}]
             clear == [gone EXCEPT !.pend = NoMarker]
  <2>a. /\ seen.sess = mem.sess /\ gone.sess \subseteq mem.sess /\ clear.sess \subseteq mem.sess
        /\ seen.pend = mem.pend /\ gone.pend = mem.pend /\ clear.pend = NoMarker
    <3> HIDE DEF d
    <3> QED
      BY DEF historyAppend, Shape, StateFields
  <2>b. mem' \in {seen, gone, clear}
    <3> HIDE DEF seen, gone, clear
    <3> QED
      BY <1>4 DEF FinishDelete, seen, gone, clear
  <2>1. mem'.sess \subseteq mem.sess /\ mem'.pend \in {mem.pend, NoMarker}
    <3> HIDE DEF seen, gone, clear
    <3> QED
      BY <2>a, <2>b
  <2>2. GlobalTypes'
    BY <1>4, <2>1 DEF GlobalTypes, FinishDelete, Persist, Markers
  <2>3. CASE th' = [th EXCEPT ![t].pc = "drain", ![t].d = NoSess, ![t].i = 0, ![t].todo = @ \ {th[t].d}]
    <3>1. /\ th'[t].pc = "drain" /\ th'[t].s = th[t].s /\ th'[t].todo \subseteq th[t].todo
          /\ th[t].pc = "delete"
      BY <1>4, <2>3 DEF FinishDelete, Shape, ThreadFields
    <3> QED
      BY <1>1, <2>2, <3>1, TypesMoved DEF ThreadTypes
  <2>4. CASE DrainFailed(t)
    BY <1>1, <2>2, <2>4, RefusedTypes, TypesMoved
  <2> QED
    BY <1>4, <2>3, <2>4 DEF FinishDelete
<1>5. CASE Drained(t)
  <2>1. GlobalTypes'
    BY <1>5 DEF Drained, GlobalTypes
  <2>2. CASE Rest(t)
    BY <1>1, <2>1, <2>2, MovedRest, RestingTypes, TypesMoved
  <2>3. ASSUME NEW pc \in {"evidence", "validate"}, Goto(t, pc) PROVE Types'
    BY <1>1, <1>5, <2>1, <2>3, MovedGoto, TypesMoved DEF Drained, ThreadTypes, SameLocals
  <2> QED
    BY <1>5, <2>2, <2>3 DEF Drained
<1> QED
  BY <1>2, <1>3, <1>4, <1>5

LEMMA TypesEvidenceSteps ==
    ASSUME Base, Types, NEW t \in Threads,
           PrepareEvidence(t) \/ Post(t) \/ AcceptToken(t) \/ Timeout(t)
    PROVE  Types'
<1> USE DEF Base, Types
<1>1. Moved(t)
  BY BaseEvidenceSteps
<1>2. CASE PrepareEvidence(t)
  <2>1. /\ mem'.sess = mem.sess /\ mem'.pend = mem.pend
        /\ disk'.sess \in {mem.sess, disk.sess} /\ disk'.pend \in {mem.pend, disk.pend}
    BY <1>2 DEF PrepareEvidence, Persist, historyAppend, Shape, StateFields
  <2>2. GlobalTypes'
    BY <1>2, <2>1 DEF GlobalTypes, PrepareEvidence
  <2>3. CASE Goto(t, "post")
    BY <1>1, <1>2, <2>2, <2>3, MovedGoto, TypesMoved DEF PrepareEvidence, ThreadTypes, SameLocals
  <2>4. CASE TokenRefused(t)
    BY <1>1, <2>2, <2>4, RefusedTypes, TypesMoved
  <2> QED
    BY <1>2, <2>3, <2>4 DEF PrepareEvidence
<1>3. CASE Post(t)
  <2>1. GlobalTypes'
    BY <1>3 DEF GlobalTypes, Post, NoCall, HasExpiry
  <2> QED
    BY <1>1, <1>3, <2>1, MovedGoto, TypesMoved DEF Post, ThreadTypes, SameLocals
<1>4. CASE AcceptToken(t)
  <2>1. /\ mem'.sess = mem.sess /\ mem'.pend = mem.pend
        /\ disk'.sess \in {mem.sess, disk.sess} /\ disk'.pend \in {mem.pend, disk.pend}
    BY <1>4 DEF AcceptToken, Persist, historyAppend, MarkCheckpointAccepted, Shape, StateFields
  <2>2. tok' \in {tok, rpc.tok} /\ rpc' = NoCall
    BY <1>4 DEF AcceptToken
  <2>3. GlobalTypes'
    BY <1>4, <2>1, <2>2 DEF GlobalTypes, AcceptToken, NoCall, HasExpiry
  <2>4. CASE TokenReturned(t, rpc.tok) /\ rpc.tok # NoToken
    <3>1. ThreadTypes(t)'
      BY <1>4, <2>4, MovedReturned, RestingTypes
         DEF AcceptToken, ThreadTypes, GlobalTypes, HasExpiry, SameLocals
    <3> QED
      BY <1>1, <2>3, <3>1, TypesMoved
  <2>5. CASE TokenRefused(t)
    BY <1>1, <2>3, <2>5, RefusedTypes, TypesMoved
  <2> QED
    BY <1>4, <2>4, <2>5 DEF AcceptToken, validateCapacityToken
<1>5. CASE Timeout(t)
  <2>1. GlobalTypes'
    BY <1>5 DEF GlobalTypes, Timeout, NoCall, HasExpiry
  <2> QED
    BY <1>1, <1>5, <2>1, RefusedTypes, TypesMoved DEF Timeout
<1> QED
  BY <1>2, <1>3, <1>4, <1>5

LEMMA TypesApplySteps ==
    ASSUME Base, Types, NEW t \in Threads,
           \/ BeginApply(t) \/ ApplyCommand(t)
           \/ \E o \in Observations(TRUE), left \in SUBSET Parts : FinishApply(t, o, left)
    PROVE  Types'
<1> USE DEF Base, Types
<1>1. Moved(t)
  BY BaseApplySteps
<1>2. CASE BeginApply(t)
  <2>1. t \in Activators /\ th[t].s \in Sessions /\ th[t].s \in Drafts /\ th[t].s.id \in Keys
    BY <1>2 DEF BeginApply, ThreadTypes, Sessions
  <2>2. GlobalTypes'
    <3>1. [op |-> "xfrm_apply", id |-> th[t].s.id] \in Markers
      BY <2>1 DEF Markers
    <3>2. /\ mem'.sess = mem.sess /\ mem'.pend \in {mem.pend, [op |-> "xfrm_apply", id |-> th[t].s.id]}
          /\ disk'.sess \in {mem.sess, disk.sess}
          /\ disk'.pend \in {disk.pend, [op |-> "xfrm_apply", id |-> th[t].s.id]}
      BY <1>2 DEF BeginApply, Persist, historyAppend, Shape, StateFields
    <3> QED
      BY <1>2, <3>1, <3>2 DEF GlobalTypes, BeginApply
  <2>3. CASE th' = [th EXCEPT ![t].pc = "apply", ![t].i = FirstCommand]
    <3>1. /\ th'[t].pc = "apply" /\ th'[t].i = FirstCommand /\ th'[t].s = th[t].s
          /\ th'[t].todo = th[t].todo
      BY <2>3 DEF Shape, ThreadFields
    <3>2. FirstCommand \in Nat
      BY ConfigAssumption DEF FirstCommand
    <3> QED
      BY <1>1, <2>1, <2>2, <3>1, <3>2, TypesMoved DEF ThreadTypes
  <2>4. CASE Rest(t)
    BY <1>1, <2>2, <2>4, MovedRest, RestingTypes, TypesMoved
  <2> QED
    BY <1>2, <2>3, <2>4 DEF BeginApply
<1>3. CASE ApplyCommand(t)
  <2>1. kern' \in [Keys -> SUBSET Parts]
    BY <1>3 DEF ApplyCommand, GlobalTypes
  <2>2. GlobalTypes'
    BY <1>3, <2>1 DEF ApplyCommand, GlobalTypes
  <2>3. CASE th' = [th EXCEPT ![t].i = th[t].i + 1]
    <3>1. /\ th'[t].pc = "apply" /\ th'[t].i = th[t].i + 1 /\ th'[t].s = th[t].s
          /\ th'[t].todo = th[t].todo /\ th[t].pc = "apply"
      BY <1>3, <2>3 DEF ApplyCommand, Shape, ThreadFields
    <3> QED
      BY <1>1, <2>2, <3>1, TypesMoved DEF ThreadTypes
  <2>4. CASE Rest(t)
    BY <1>1, <2>2, <2>4, MovedRest, RestingTypes, TypesMoved
  <2> QED
    BY <1>3, <2>3, <2>4 DEF ApplyCommand
<1>4. ASSUME NEW o, NEW left \in SUBSET Parts, FinishApply(t, o, left) PROVE Types'
  <2>1. th[t].s \in Sessions
    BY <1>4 DEF FinishApply, ThreadTypes
  <2>2. mem'.sess \subseteq mem.sess \cup {th[t].s} /\ mem'.pend \in {mem.pend, NoMarker}
    BY <1>4 DEF FinishApply, historyAppend, Shape, StateFields
  <2>3. kern' \in [Keys -> SUBSET Parts]
    BY <1>4 DEF FinishApply, GlobalTypes
  <2>4. GlobalTypes'
    <3>1. disk' = disk \/ disk' = mem'
      BY <1>4 DEF FinishApply, Persist
    <3>2. UNCHANGED <<tok, next, rpc, ver, clock>>
      BY <1>4 DEF FinishApply
    <3>3. NoMarker \in Markers
      BY DEF Markers
    <3> QED
      BY <2>1, <2>2, <2>3, <3>1, <3>2, <3>3 DEF GlobalTypes
  <2> QED
    BY <1>1, <1>4, <2>4, MovedRest, RestingTypes, TypesMoved DEF FinishApply
<1> QED
  BY <1>2, <1>3, <1>4

(* A bounded set of numbers has a greatest one. *)
LEMMA GreatestExists ==
    ASSUME NEW n \in Nat, NEW S \in SUBSET (0..n), S # {}
    PROVE  \E x \in S : \A y \in S : x >= y
<1> DEFINE T == {n - x : x \in S}
           R == OpToRel(<, Nat)
<1>0. \A x \in S : x \in Nat /\ x <= n /\ n - x \in Nat
  OBVIOUS
<1>1. T \subseteq Nat /\ T # {}
  BY <1>0
<1>2. PICK m \in T : \A y \in T : ~(<<y, m>> \in R)
  BY <1>1, NatLessThanWellFounded, WFMin
<1>3. \A y \in T : ~(y < m)
  BY <1>1, <1>2 DEF OpToRel
<1>4. PICK x \in S : m = n - x
  OBVIOUS
<1>5. \A y \in S : n - y \in T
  OBVIOUS
<1>6. \A y \in S : x >= y
  BY <1>0, <1>3, <1>4, <1>5
<1> QED
  BY <1>6

(* initAllocators finds the highest address in use. *)
LEMMA HighestProperty ==
    ASSUME NEW m, m.sess \subseteq Sessions
    PROVE  HighestAddress(m) \in Nat /\ \A s \in m.sess : s.ip <= HighestAddress(m)
<1> DEFINE S == {0} \cup {s.ip : s \in m.sess}
<1>1. \A s \in m.sess : s.ip \in 0..MaxHost
  BY ConfigAssumption DEF Sessions
<1>2. S \in SUBSET (0..MaxHost) /\ S # {}
  BY <1>1, ConfigAssumption
<1>3. \E x \in S : \A y \in S : x >= y
  BY <1>2, GreatestExists, ConfigAssumption
<1>4. Max(S) \in S /\ \A y \in S : Max(S) >= y
  BY <1>3 DEF Max
<1> QED
  BY <1>1, <1>2, <1>4 DEF HighestAddress

LEMMA TypesOtherSteps ==
    ASSUME Base, Types,
           \/ \E t \in Activators, k \in Keys, svc \in Services : Activate(t, k, svc)
           \/ Refresh \/ Reap \/ Boot \/ validateRestoredSessions
           \/ Serve \/ (\E ev \in late : ServeLate(ev)) \/ Tick
           \/ \E kept \in BOOLEAN : Crash(kept)
           \/ UNCHANGED vars
    PROVE  Types'
<1> USE ThreadNames DEF Base, Types
<1>1. ASSUME NEW t \in Activators, NEW k \in Keys, NEW svc \in Services, Activate(t, k, svc) PROVE Types'
  <2>0. next' = next + 1 /\ next \in Nat /\ next' \in Nat
    <3>1. next' = next + 1
      BY <1>1, Zenon DEF Activate
    <3> QED
      BY <3>1 DEF GlobalTypes
  <2>1. GlobalTypes'
    BY <1>1, <2>0 DEF Activate, GlobalTypes
  <2>2. CASE th' = th
    BY <2>1, <2>2 DEF ThreadTypes
  <2>3. CASE InPool(next') /\ th' = [th EXCEPT ![t] = [Resting EXCEPT !.pc = "token",
                                     !.s = [id |-> k, ip |-> next', exp |-> NoTime, svc |-> svc]]]
    <3>1. /\ th'[t].pc = "token" /\ th'[t].s = [id |-> k, ip |-> next', exp |-> NoTime, svc |-> svc]
          /\ th'[t].todo = {} /\ Moved(t)
      BY <2>3, RestingShape DEF Shape, ThreadFields, Moved, SessFields
    <3>2. next' \in 1..MaxHost
      BY <2>0, <2>3, ConfigAssumption DEF InPool
    <3>3. th'[t].s \in Drafts
      BY <3>1, <3>2 DEF Drafts, NoTime
    <3> QED
      BY <2>1, <3>1, <3>3, TypesMoved DEF ThreadTypes
  <2> QED
    BY <1>1, <2>2, <2>3 DEF Activate
<1>2. CASE Refresh
  BY <1>2, MovedGoto, TypesMoved DEF Refresh, GlobalTypes, ThreadTypes, SameLocals
<1>3. CASE Reap
  <2>1. /\ th'["reaper"].pc = "history_lock" /\ th'["reaper"].todo = th["reaper"].todo
        /\ Moved("reaper")
    BY <1>3 DEF Reap, Shape, ThreadFields, Moved
  <2> QED
    BY <1>3, <2>1, TypesMoved DEF Reap, GlobalTypes, ThreadTypes
<1>4. CASE Boot
  <2>1. mem'.sess = disk.sess /\ mem'.pend = disk.pend
    BY <1>4 DEF Boot, historyAppend, RestoredState, Shape, StateFields
  <2>2. next' \in Nat
    BY <1>4, HighestProperty DEF Boot, GlobalTypes
  <2>3. GlobalTypes'
    BY <1>4, <2>1, <2>2 DEF Boot, GlobalTypes
  <2> QED
    BY <1>4, <2>3, MovedGoto, TypesMoved DEF Boot, ThreadTypes, SameLocals
<1>5. CASE validateRestoredSessions
  <2>1. GlobalTypes'
    BY <1>5 DEF validateRestoredSessions, GlobalTypes
  <2>2. CASE Goto("main", "token")
    BY <1>5, <2>1, <2>2, MovedGoto, TypesMoved DEF validateRestoredSessions, ThreadTypes, SameLocals
  <2>3. CASE Rest("main")
    BY <2>1, <2>3, MovedRest, RestingTypes, TypesMoved
  <2> QED
    BY <1>5, <2>2, <2>3 DEF validateRestoredSessions
<1>6. ASSUME NEW ev, Submit(ev) PROVE HasExpiry(ver'.tok)
  <2>1. \A e : NewToken(e).exp \in Int
    BY ConfigAssumption DEF NewToken, GlobalTypes
  <2> QED
    BY <1>6, <2>1 DEF Submit, HasExpiry, GlobalTypes
<1>7. CASE Serve
  <2>1. rpc'.tok \in {ver'.tok, NoToken} /\ HasExpiry(ver'.tok)
    BY <1>6, <1>7 DEF Serve, NoCall
  <2> QED
    BY <1>7, <2>1 DEF Serve, GlobalTypes, ThreadTypes, HasExpiry
<1>8. ASSUME NEW ev \in late, ServeLate(ev) PROVE Types'
  BY <1>6, <1>8 DEF ServeLate, GlobalTypes, ThreadTypes
<1>9. CASE Tick \/ UNCHANGED vars
  BY <1>9, ConfigAssumption DEF Tick, vars, GlobalTypes, ThreadTypes
<1>10. ASSUME NEW kept \in BOOLEAN, Crash(kept) PROVE Types'
  <2>1. \A t \in Threads : th'[t] = Resting
    BY <1>10 DEF Crash
  <2>2. kern' \in [Keys -> SUBSET Parts]
    BY <1>10 DEF Crash, GlobalTypes
  <2>3. GlobalTypes'
    BY <1>10, <2>2 DEF Crash, GlobalTypes, HasExpiry, NoCall
  <2> QED
    BY <2>1, <2>3, RestingTypes
<1> QED
  BY <1>1, <1>2, <1>3, <1>4, <1>5, <1>7, <1>8, <1>9, <1>10

LEMMA TypesNext == Base /\ Types /\ [Next]_vars => Types'
<1> SUFFICES ASSUME Base, Types, [Next]_vars PROVE Types'
  OBVIOUS
<1>1. ASSUME NEW t \in Threads, Step(t) PROVE Types'
  BY <1>1, TypesTokenSteps, TypesDeleteSteps, TypesEvidenceSteps, TypesApplySteps DEF Step
<1> QED
  BY <1>1, TypesOtherSteps DEF Next

LEMMA TypesInvariance == Spec => []Types
BY TypesInit, TypesNext, BaseInvariance, PTL DEF Spec

-----------------------------------------------------------------------------
(* Sequences and prefixes. *)
IsLog(s) == \E S : s \in Seq(S)

LEMMA ShortSeqs == \A a, b : IsLog(<<a>>) /\ IsLog(<<a, b>>) /\ IsLog(<<>>)
<1> TAKE a, b
<1>1. <<a>> \in Seq({a, b}) /\ <<a, b>> \in Seq({a, b}) /\ <<>> \in Seq({a, b})
  OBVIOUS
<1> QED
  BY <1>1 DEF IsLog

LEMMA LenNat == ASSUME NEW s, IsLog(s) PROVE Len(s) \in Nat
BY DEF IsLog

LEMMA PrefixRefl == ASSUME NEW s, IsLog(s) PROVE IsPrefix(s, s)
BY LenNat DEF IsPrefix

LEMMA PrefixElements ==
    ASSUME NEW s, NEW t, IsLog(s), IsLog(t)
    PROVE  IsPrefix(s, t) <=> Len(s) <= Len(t) /\ \A i \in 1..Len(s) : s[i] = t[i]
<1> PICK S : s \in Seq(S)
  BY DEF IsLog
<1> PICK T : t \in Seq(T)
  BY DEF IsLog
<1>1. Len(s) \in Nat /\ Len(t) \in Nat
  OBVIOUS
<1>2. ASSUME Len(s) <= Len(t)
      PROVE  SubSeq(s, 1, Len(s)) = SubSeq(t, 1, Len(s)) <=> \A i \in 1..Len(s) : s[i] = t[i]
  <2>1. /\ SubSeq(s, 1, Len(s)) = [i \in 1..Len(s) |-> s[i]]
        /\ SubSeq(t, 1, Len(s)) = [i \in 1..Len(s) |-> t[i]]
    BY <1>1, <1>2
  <2> QED
    BY <2>1
<1> QED
  BY <1>2 DEF IsPrefix

LEMMA PrefixTrans ==
    ASSUME NEW s, NEW t, NEW u, IsLog(s), IsLog(t), IsLog(u), IsPrefix(s, t), IsPrefix(t, u)
    PROVE  IsPrefix(s, u)
BY PrefixElements, LenNat

LEMMA ConcatPrefix ==
    ASSUME NEW s, NEW t, IsLog(s), IsLog(t)
    PROVE  IsLog(s \o t) /\ IsPrefix(s, s \o t)
<1> PICK S : s \in Seq(S)
  BY DEF IsLog
<1> PICK T : t \in Seq(T)
  BY DEF IsLog
<1>1. s \in Seq(S \cup T) /\ t \in Seq(S \cup T)
  OBVIOUS
<1>2. s \o t \in Seq(S \cup T) /\ Len(s \o t) = Len(s) + Len(t)
      /\ \A i \in 1..Len(s) : (s \o t)[i] = s[i]
  BY <1>1
<1>3. IsLog(s \o t)
  BY <1>2 DEF IsLog
<1>4. Len(s) <= Len(s \o t) /\ \A i \in 1..Len(s) : s[i] = (s \o t)[i]
  BY <1>2
<1>5. IsPrefix(s, s \o t)
  BY <1>3, <1>4, PrefixElements
<1> QED
  BY <1>3, <1>5

LEMMA PrefixSplit ==
    ASSUME NEW s, NEW t, IsLog(s), IsLog(t), IsPrefix(s, t)
    PROVE  /\ SubSeq(t, 1, Len(s)) = s
           /\ t = s \o SubSeq(t, Len(s) + 1, Len(t))
           /\ IsLog(SubSeq(t, Len(s) + 1, Len(t)))
<1> PICK S : s \in Seq(S)
  BY DEF IsLog
<1> PICK T : t \in Seq(T)
  BY DEF IsLog
<1>1. /\ Len(s) \in Nat /\ Len(t) \in Nat /\ Len(s) <= Len(t)
      /\ \A i \in 1..Len(s) : s[i] = t[i]
  BY PrefixElements
<1>2. SubSeq(t, 1, Len(s)) \in Seq(T) /\ SubSeq(t, Len(s) + 1, Len(t)) \in Seq(T)
  BY <1>1
<1>3. Len(SubSeq(t, 1, Len(s))) = Len(s)
  BY <1>1
<1>4. \A i \in 1..Len(s) : SubSeq(t, 1, Len(s))[i] = s[i]
  BY <1>1
<1>5. SubSeq(t, 1, Len(s)) = s
  BY <1>2, <1>3, <1>4
<1>6. SubSeq(t, 1, Len(s)) \o SubSeq(t, Len(s) + 1, Len(t)) = SubSeq(t, 1, Len(t))
  <2>1. 1 \in 1..Len(t) + 1 /\ Len(s) \in (1 - 1)..Len(t) /\ Len(t) \in Len(s)..Len(t)
    BY <1>1
  <2> QED
    BY <2>1, ConcatAdjacentSubSeq
<1>7. SubSeq(t, 1, Len(t)) = t
  OBVIOUS
<1> QED
  BY <1>2, <1>5, <1>6, <1>7 DEF IsLog

-----------------------------------------------------------------------------
(* The chain.  Neither "no checkpoint" nor "no pending submission" is one  *)
(* (a nil pointer in the code, a model value for TLC).                     *)
Sentinels == "log" \notin DOMAIN NoCp /\ "cp" \notin DOMAIN NoEvidence

CpSound(c)  == c # NoCp => IsLog(c.log) /\ c.epoch \in Nat
EvSound(ev) == ev.cp # NoCp /\ IsLog(ev.cp.log) /\ ev.cp.epoch \in Nat

(* The state m, in memory or in the file, and the Verifier's checkpoint v. *)
Linked(m, v) ==
    /\ IsLog(m.log) /\ CpSound(m.acc) /\ IsPrefix(LogOf(m.acc), m.log)
    /\ m.cap = NoEvidence => v = m.acc
    /\ m.cap # NoEvidence =>
         /\ EvSound(m.cap) /\ IsPrefix(m.cap.cp.log, m.log)
         /\ v \in {m.acc, m.cap.cp}
         /\ m.acc = m.cap.cp \/ VerifyHistoryEvidence(m.cap, "pep", "pep", m.acc)

Links ==
    /\ Linked(mem, ver.cp) /\ Linked(disk, ver.cp)
    /\ mem.cap = disk.cap
    /\ IsPrefix(disk.log, mem.log) /\ EpochOf(disk.acc) <= EpochOf(mem.acc)

(* What is on its way is the pending submission, or too old to be taken. *)
Flies(ev) ==
    /\ EvSound(ev)
    /\ (mem.cap # NoEvidence /\ ev = mem.cap) \/ ev.cp.epoch <= EpochOf(ver.cp)

Traffic ==
    /\ \A ev \in late : Flies(ev)
    /\ rpc.st = "sent" => mem.cap # NoEvidence /\ rpc.ev = mem.cap
    /\ rpc.st = "answered" /\ rpc.tok # NoToken => mem.cap # NoEvidence /\ ver.cp = mem.cap.cp
    /\ \A t \in Threads : th[t].pc \in {"post", "await"} => mem.cap # NoEvidence

ChainInv == Sentinels /\ Links /\ Traffic

LEMMA ChainInit == Sentinels /\ Init => ChainInv
<1> SUFFICES ASSUME Sentinels, Init PROVE ChainInv
  OBVIOUS
<1>1. /\ Empty.log = <<>> /\ Empty.acc = NoCp /\ Empty.cap = NoEvidence
      /\ ver.cp = NoCp /\ LogOf(NoCp) = <<>>
  BY DEF Init, Empty, LogOf
<1>2. Linked(Empty, ver.cp)
  BY <1>1, ShortSeqs, PrefixRefl DEF Linked, CpSound
<1>3. EpochOf(NoCp) <= EpochOf(NoCp)
  BY DEF EpochOf
<1>4. Links
  BY <1>1, <1>2, <1>3, ShortSeqs, PrefixRefl DEF Links, Init
<1>5. Traffic
  BY RestingShape DEF Traffic, Init, NoCall
<1> QED
  BY <1>4, <1>5 DEF ChainInv

LEMMA LogOfSound == ASSUME NEW c, CpSound(c) PROVE IsLog(LogOf(c)) /\ EpochOf(c) \in Nat
BY ShortSeqs DEF CpSound, LogOf, EpochOf

LEMMA LinkExtends ==
    ASSUME NEW a, NEW b, NEW v, Linked(a, v), b.acc = a.acc, b.cap = a.cap,
           IsLog(b.log), IsPrefix(a.log, b.log)
    PROVE  Linked(b, v)
<1>1. IsPrefix(LogOf(b.acc), b.log)
  BY PrefixTrans, LogOfSound DEF Linked
<1>2. b.cap # NoEvidence => IsPrefix(b.cap.cp.log, b.log)
  BY PrefixTrans DEF Linked, EvSound
<1> QED
  BY <1>1, <1>2 DEF Linked

(* A pending submission is not before what is accepted. *)
LEMMA CapNotBefore ==
    ASSUME NEW m, NEW v, Linked(m, v), m.cap # NoEvidence
    PROVE  EpochOf(m.acc) <= EpochOf(m.cap.cp) /\ EpochOf(m.cap.cp) = m.cap.cp.epoch
<1>1. EpochOf(m.cap.cp) = m.cap.cp.epoch /\ m.cap.cp.epoch \in Nat /\ EpochOf(m.acc) \in Nat
  BY LogOfSound DEF Linked, EvSound, EpochOf
<1>2. m.acc = m.cap.cp \/ m.cap.cp.epoch = EpochOf(m.acc) + 1
  BY DEF Linked, VerifyHistoryEvidence
<1> QED
  BY <1>1, <1>2

(* Most steps only append to the history, or write it to the file too. *)
Appends ==
    /\ mem'.acc = mem.acc /\ mem'.cap = mem.cap /\ IsLog(mem'.log) /\ IsPrefix(mem.log, mem'.log)
    /\ \/ disk' = disk
       \/ /\ disk'.acc = mem.acc /\ disk'.cap = mem.cap /\ IsLog(disk'.log)
          /\ IsPrefix(mem.log, disk'.log) /\ IsPrefix(disk'.log, mem'.log)
    /\ ver'.cp = ver.cp

Grows == IsPrefix(disk.log, disk'.log) /\ EpochOf(disk.acc) <= EpochOf(disk'.acc)

LEMMA AppendsLinks ==
    ASSUME Links, Appends
    PROVE  Links' /\ Grows
<1> USE DEF Links
<1>1. Linked(mem', ver.cp)
  BY LinkExtends DEF Appends
<1>2. EpochOf(mem.acc) \in Nat /\ EpochOf(disk.acc) \in Nat /\ IsLog(mem.log) /\ IsLog(disk.log)
  BY LogOfSound DEF Linked
<1>3. CASE disk' = disk
  BY <1>1, <1>2, <1>3, PrefixTrans, PrefixRefl DEF Appends, Grows
<1>4. CASE /\ disk'.acc = mem.acc /\ disk'.cap = mem.cap /\ IsLog(disk'.log)
           /\ IsPrefix(mem.log, disk'.log) /\ IsPrefix(disk'.log, mem'.log)
  <2>1. Linked(disk', ver.cp)
    BY <1>4, LinkExtends
  <2>2. IsPrefix(disk.log, disk'.log)
    BY <1>2, <1>4, PrefixTrans
  <2> QED
    BY <1>1, <1>2, <1>4, <2>1, <2>2 DEF Appends, Grows
<1> QED
  BY <1>3, <1>4 DEF Appends

(* ... and leave the exchange with the Verifier alone. *)
Quiet ==
    /\ mem'.cap = mem.cap /\ ver'.cp = ver.cp /\ rpc' = rpc /\ late' = late
    /\ \A t \in Threads : th'[t].pc \in {"post", "await"} => th[t].pc \in {"post", "await"}

LEMMA QuietTraffic == ASSUME Traffic, Quiet PROVE Traffic'
BY DEF Traffic, Quiet, Flies

(* The pcs of a step of t that does not submit. *)
LEMMA QuietMoved ==
    ASSUME NEW t \in Threads, Moved(t), th'[t].pc \notin {"post", "await"},
           mem'.cap = mem.cap, UNCHANGED <<ver, rpc, late>>
    PROVE  Quiet
BY DEF Moved, Quiet

LEMMA ChainQuiet ==
    ASSUME ChainInv, Appends, Quiet
    PROVE  ChainInv' /\ Grows
BY AppendsLinks, QuietTraffic DEF ChainInv

LEMMA ChainTokenSteps ==
    ASSUME Base, ChainInv, NEW t \in Threads,
           CheckHealth(t) \/ TakeTokenLock(t) \/ TakeHistoryLock(t) \/ Bind(t)
    PROVE  ChainInv' /\ Grows
<1> USE DEF Base
<1>1. Moved(t)
  BY BaseTokenSteps
<1>2. UNCHANGED <<mem, disk, ver, rpc, late>>
  BY DEF CheckHealth, TakeTokenLock, TakeHistoryLock, Bind
<1>3. th'[t].pc \notin {"post", "await"}
  <2>1. CASE CheckHealth(t)
    BY <2>1, MovedGoto, MovedRefused DEF CheckHealth
  <2>2. CASE TakeTokenLock(t)
    <3>1. ASSUME TokenReturned(t, tok) PROVE th'[t].pc \notin {"post", "await"}
      BY <3>1, MovedReturned, RestingShape
    <3>2. ASSUME Goto(t, "history_lock") PROVE th'[t].pc \notin {"post", "await"}
      BY <3>2, MovedGoto
    <3> QED
      BY <2>2, <3>1, <3>2 DEF TakeTokenLock
  <2>3. CASE TakeHistoryLock(t)
    BY <2>3 DEF TakeHistoryLock, Shape, ThreadFields
  <2>4. CASE Bind(t)
    BY <2>4, MovedRest DEF Bind, Shape, ThreadFields
  <2> QED
    BY <2>1, <2>2, <2>3, <2>4
<1>4. Appends
  BY <1>2, PrefixRefl DEF Appends, ChainInv, Links, Linked
<1> QED
  BY <1>1, <1>2, <1>3, <1>4, QuietMoved, ChainQuiet

(* What a state write or append does. *)
LEMMA AppendedLog ==
    ASSUME ChainInv, NEW l, l = <<>> \/ (\E a : l = <<a>>) \/ (\E a, b : l = <<a, b>>)
    PROVE  IsLog(mem.log \o l) /\ IsPrefix(mem.log, mem.log \o l)
<1>1. IsLog(l)
  BY ShortSeqs
<1> QED
  BY <1>1, ConcatPrefix DEF ChainInv, Links, Linked

LEMMA ChainDeleteSteps ==
    ASSUME Base, ChainInv, NEW t \in Threads,
           \/ \E d \in th[t].todo : BeginDelete(t, d)
           \/ DeleteCommand(t)
           \/ \E o \in Observations(TRUE) : FinishDelete(t, o)
           \/ Drained(t)
    PROVE  ChainInv' /\ Grows
<1> USE DEF Base
<1>1. Moved(t)
  BY BaseDeleteSteps
<1>2. IsLog(mem.log) /\ IsPrefix(mem.log, mem.log)
  BY PrefixRefl DEF ChainInv, Links, Linked
<1>3. ASSUME NEW d \in th[t].todo, BeginDelete(t, d) PROVE ChainInv' /\ Grows
  <2>1. th'[t].pc \in {"delete", "idle", "token"}
    <3>1. CASE DrainFailed(t)
      BY <3>1, DrainFails
    <3>2. CASE th' = [th EXCEPT ![t].pc = "delete", ![t].d = d, ![t].i = FirstCommand]
      BY <3>2 DEF Shape, ThreadFields
    <3> QED
      BY <1>3, <3>1, <3>2 DEF BeginDelete
  <2> DEFINE l == <<PlainEvent("session_expired", d), Event("xfrm_delete_intent", d, d.id, NoObs)>>
  <2>2. /\ mem'.acc = mem.acc /\ mem'.cap = mem.cap /\ mem'.log \in {mem.log, mem.log \o l}
        /\ \/ disk' = disk
           \/ disk'.acc = mem.acc /\ disk'.cap = mem.cap /\ disk'.log = mem.log
    BY <1>3 DEF BeginDelete, Persist, historyAppend, Shape, StateFields
  <2>3. UNCHANGED <<ver, rpc, late>>
    BY <1>3 DEF BeginDelete
  <2>4. IsLog(mem.log \o l) /\ IsPrefix(mem.log, mem.log \o l)
    BY AppendedLog
  <2>5. Appends
    BY <1>2, <2>2, <2>3, <2>4 DEF Appends
  <2> QED
    BY <1>1, <2>1, <2>2, <2>3, <2>5, QuietMoved, ChainQuiet
<1>4. CASE DeleteCommand(t) \/ Drained(t)
  <2>1. th'[t].pc \notin {"post", "await"}
    <3>1. CASE DeleteCommand(t)
      BY <3>1 DEF DeleteCommand, Shape, ThreadFields
    <3>2. CASE Drained(t)
      BY <3>2, MovedGoto, MovedRest DEF Drained
    <3> QED
      BY <1>4, <3>1, <3>2
  <2>2. UNCHANGED <<mem, disk, ver, rpc, late>>
    BY <1>4 DEF DeleteCommand, Drained
  <2>3. Appends
    BY <1>2, <2>2 DEF Appends
  <2> QED
    BY <1>1, <2>1, <2>2, <2>3, QuietMoved, ChainQuiet
<1>5. ASSUME NEW o \in Observations(TRUE), FinishDelete(t, o) PROVE ChainInv' /\ Grows
  <2>1. th'[t].pc \in {"drain", "idle", "token"}
    <3>1. CASE DrainFailed(t)
      BY <3>1, DrainFails
    <3>2. CASE th' = [th EXCEPT ![t].pc = "drain", ![t].d = NoSess, ![t].i = 0, ![t].todo = @ \ {th[t].d}]
      BY <3>2 DEF Shape, ThreadFields
    <3> QED
      BY <1>5, <3>1, <3>2 DEF FinishDelete
  <2> DEFINE l == <<Event("xfrm_delete_observed", th[t].d, th[t].d.id, o)>>
  <2>2. /\ mem'.acc = mem.acc /\ mem'.cap = mem.cap /\ mem'.log = mem.log \o l
        /\ disk' = disk \/ disk' = mem'
    BY <1>5 DEF FinishDelete, Persist, historyAppend, Shape, StateFields
  <2>3. UNCHANGED <<ver, rpc, late>>
    BY <1>5 DEF FinishDelete
  <2>4. IsLog(mem.log \o l) /\ IsPrefix(mem.log, mem.log \o l) /\ IsPrefix(mem.log \o l, mem.log \o l)
    BY AppendedLog, PrefixRefl
  <2>5. Appends
    BY <2>2, <2>3, <2>4 DEF Appends
  <2> QED
    BY <1>1, <2>1, <2>2, <2>3, <2>5, QuietMoved, ChainQuiet
<1> QED
  BY <1>3, <1>4, <1>5

LEMMA ChainApplySteps ==
    ASSUME Base, ChainInv, NEW t \in Threads,
           \/ BeginApply(t) \/ ApplyCommand(t)
           \/ \E o \in Observations(TRUE), left \in SUBSET Parts : FinishApply(t, o, left)
    PROVE  ChainInv' /\ Grows
<1> USE DEF Base
<1>1. Moved(t)
  BY BaseApplySteps
<1>2. IsLog(mem.log) /\ IsPrefix(mem.log, mem.log)
  BY PrefixRefl DEF ChainInv, Links, Linked
<1>3. CASE BeginApply(t)
  <2>1. th'[t].pc \in {"apply", "idle"}
    <3>1. CASE Rest(t)
      BY <3>1, MovedRest
    <3>2. CASE th' = [th EXCEPT ![t].pc = "apply", ![t].i = FirstCommand]
      BY <3>2 DEF Shape, ThreadFields
    <3> QED
      BY <1>3, <3>1, <3>2 DEF BeginApply
  <2> DEFINE l == <<Event("xfrm_apply_intent", th[t].s, th[t].s.id, NoObs)>>
  <2>2. /\ mem'.acc = mem.acc /\ mem'.cap = mem.cap /\ mem'.log \in {mem.log, mem.log \o l}
        /\ \/ disk' = disk
           \/ disk'.acc = mem.acc /\ disk'.cap = mem.cap /\ disk'.log = mem.log
    BY <1>3 DEF BeginApply, Persist, historyAppend, Shape, StateFields
  <2>3. UNCHANGED <<ver, rpc, late>>
    BY <1>3 DEF BeginApply
  <2>4. IsLog(mem.log \o l) /\ IsPrefix(mem.log, mem.log \o l)
    BY AppendedLog
  <2>5. Appends
    BY <1>2, <2>2, <2>3, <2>4 DEF Appends
  <2> QED
    BY <1>1, <2>1, <2>2, <2>3, <2>5, QuietMoved, ChainQuiet
<1>4. CASE ApplyCommand(t)
  <2>1. th'[t].pc \in {"apply", "idle"}
    BY <1>4, MovedRest DEF ApplyCommand, Shape, ThreadFields
  <2>2. UNCHANGED <<mem, disk, ver, rpc, late>>
    BY <1>4 DEF ApplyCommand
  <2>3. Appends
    BY <1>2, <2>2 DEF Appends
  <2> QED
    BY <1>1, <2>1, <2>2, <2>3, QuietMoved, ChainQuiet
<1>5. ASSUME NEW o, NEW left, FinishApply(t, o, left) PROVE ChainInv' /\ Grows
  <2>1. th'[t].pc = "idle"
    BY <1>5, MovedRest DEF FinishApply
  <2> DEFINE l == <<Event("xfrm_apply_observed", th[t].s, th[t].s.id, o)>>
             l2 == <<PlainEvent("session_activated", th[t].s)>>
  <2>2. /\ mem'.acc = mem.acc /\ mem'.cap = mem.cap
        /\ mem'.log \in {mem.log \o l, (mem.log \o l) \o l2}
        /\ disk' = disk \/ disk' = mem'
    BY <1>5 DEF FinishApply, Persist, historyAppend, Shape, StateFields
  <2>3. UNCHANGED <<ver, rpc, late>>
    BY <1>5 DEF FinishApply
  <2>4. IsLog(mem.log \o l) /\ IsPrefix(mem.log, mem.log \o l)
    BY AppendedLog
  <2>5. IsLog((mem.log \o l) \o l2) /\ IsPrefix(mem.log \o l, (mem.log \o l) \o l2)
    BY <2>4, ConcatPrefix, ShortSeqs
  <2>6. IsPrefix(mem.log, (mem.log \o l) \o l2)
    BY <1>2, <2>4, <2>5, PrefixTrans
  <2>7. IsLog(mem'.log) /\ IsPrefix(mem.log, mem'.log) /\ IsPrefix(mem'.log, mem'.log)
    BY <2>2, <2>4, <2>5, <2>6, PrefixRefl
  <2>8. Appends
    BY <2>2, <2>3, <2>7 DEF Appends
  <2> QED
    BY <1>1, <2>1, <2>2, <2>3, <2>8, QuietMoved, ChainQuiet
<1> QED
  BY <1>3, <1>4, <1>5

-----------------------------------------------------------------------------
(* The evidence built from a linked state continues the chain. *)
LEMMA BuiltEvidence ==
    ASSUME Sentinels, NEW m, IsLog(m.log), CpSound(m.acc), IsPrefix(LogOf(m.acc), m.log)
    PROVE  LET ev == BuildEvidence(m)
           IN  /\ ev # NoEvidence /\ EvSound(ev) /\ ev.cp.log = m.log
               /\ VerifyHistoryEvidence(ev, "pep", "pep", m.acc)
<1> DEFINE ev == BuildEvidence(m)
<1>1. IsLog(LogOf(m.acc)) /\ EpochOf(m.acc) \in Nat
  BY LogOfSound
<1>2. /\ SubSeq(m.log, 1, Len(LogOf(m.acc))) = LogOf(m.acc)
      /\ m.log = LogOf(m.acc) \o SubSeq(m.log, Len(LogOf(m.acc)) + 1, Len(m.log))
  BY <1>1, PrefixSplit
<1>3. /\ ev.prev = m.acc /\ ev.cp.prev = m.acc /\ ev.cp.pep = "pep" /\ ev.cp.signer = "pep"
      /\ ev.base = SubSeq(m.log, 1, Len(LogOf(m.acc)))
      /\ ev.events = SubSeq(m.log, Len(LogOf(m.acc)) + 1, Len(m.log))
      /\ ev.cp.log = m.log /\ ev.cp.epoch = EpochOf(m.acc) + 1 /\ ev.cp.count = Len(ev.events)
  BY DEF BuildEvidence
<1>4. "cp" \in DOMAIN ev /\ "log" \in DOMAIN ev.cp
  BY DEF BuildEvidence
<1>5. ev # NoEvidence /\ ev.cp # NoCp
  BY <1>4 DEF Sentinels
<1>6. EvSound(ev)
  BY <1>1, <1>3, <1>5 DEF EvSound
<1>7. VerifyHistoryEvidence(ev, "pep", "pep", m.acc)
  BY <1>2, <1>3 DEF VerifyHistoryEvidence
<1> QED
  BY <1>3, <1>5, <1>6, <1>7

LEMMA ChainPrepare ==
    ASSUME Base, ChainInv, NEW t \in Threads, PrepareEvidence(t)
    PROVE  ChainInv' /\ Grows
<1> USE DEF Base
<1> DEFINE l == <<PlainEvent("capacity_requested", NoSess)>>
           asked == historyAppend(mem, l)
           m == [asked EXCEPT !.cap = BuildEvidence(asked)]
<1>1. Moved(t)
  BY BaseEvidenceSteps
<1>2. IsLog(mem.log \o l) /\ IsPrefix(mem.log, mem.log \o l)
  BY AppendedLog
<1>3. UNCHANGED <<ver, rpc, late>>
  BY DEF PrepareEvidence
<1>4. asked.acc = mem.acc /\ asked.cap = mem.cap /\ asked.log = mem.log \o l
  BY DEF historyAppend, Shape, StateFields
<1>5. m.acc = mem.acc /\ m.cap = BuildEvidence(asked) /\ m.log = mem.log \o l
  BY DEF historyAppend, Shape, StateFields
<1>6. CASE mem.cap # NoEvidence /\ UNCHANGED <<mem, disk>>
  <2>1. Appends
    BY <1>3, <1>6, PrefixRefl DEF Appends, ChainInv, Links, Linked
  <2>2. Links' /\ Grows
    BY <2>1, AppendsLinks DEF ChainInv
  <2>3. Traffic'
    BY <1>3, <1>6 DEF ChainInv, Traffic, Flies
  <2> QED
    BY <2>2, <2>3 DEF ChainInv
<1>7. CASE mem.cap = NoEvidence /\ mem' = m /\ disk' = m
  <2>1. IsLog(mem.log) /\ CpSound(mem.acc) /\ IsPrefix(LogOf(mem.acc), mem.log) /\ ver.cp = mem.acc
        /\ IsLog(disk.log) /\ CpSound(disk.acc)
    BY <1>7 DEF ChainInv, Links, Linked
  <2>2. IsPrefix(LogOf(mem.acc), mem.log \o l)
    BY <1>2, <2>1, LogOfSound, PrefixTrans
  <2>3. /\ m.cap # NoEvidence /\ EvSound(m.cap) /\ m.cap.cp.log = m.log
        /\ VerifyHistoryEvidence(m.cap, "pep", "pep", m.acc)
    BY <1>2, <1>4, <1>5, <2>1, <2>2, BuiltEvidence DEF ChainInv
  <2>4. Linked(m, ver.cp)
    BY <1>2, <1>5, <2>1, <2>2, <2>3, PrefixRefl DEF Linked
  <2>5. Links'
    <3>1. IsPrefix(mem.log \o l, mem.log \o l)
      BY <1>2, PrefixRefl
    <3>2. EpochOf(mem.acc) <= EpochOf(mem.acc)
      BY <2>1, LogOfSound
    <3> QED
      BY <1>3, <1>5, <1>7, <2>4, <3>1, <3>2 DEF Links
  <2>6. Grows
    <3>1. IsPrefix(disk.log, mem.log \o l)
      BY <1>2, <2>1, PrefixTrans DEF ChainInv, Links
    <3> QED
      BY <1>5, <1>7, <3>1 DEF Grows, ChainInv, Links
  <2>7. Traffic'
    BY <1>3, <1>7, <2>3 DEF ChainInv, Traffic, Flies
  <2> QED
    BY <2>5, <2>6, <2>7 DEF ChainInv
<1>8. CASE mem' = asked /\ UNCHANGED disk /\ TokenRefused(t)
  <2>1. Appends
    BY <1>2, <1>3, <1>4, <1>8 DEF Appends
  <2>2. th'[t].pc \notin {"post", "await"}
    BY <1>8, MovedRefused
  <2> QED
    BY <1>1, <1>3, <1>4, <1>8, <2>1, <2>2, QuietMoved, ChainQuiet
<1> QED
  BY <1>6, <1>7, <1>8 DEF PrepareEvidence, Persist

(* A step of the thread that waits for the answer leaves no other one in   *)
(* the exchange.                                                           *)
LEMMA NoneElseSubmits ==
    ASSUME Base, NEW t \in Threads, th[t].pc = "await", Moved(t), th'[t].pc \notin {"post", "await"}
    PROVE  \A u \in Threads : th'[u].pc \notin {"post", "await"}
BY DEF Base, LockInv, Moved, TokenCS

LEMMA ChainAccept ==
    ASSUME Base, ChainInv, NEW t \in Threads, AcceptToken(t)
    PROVE  ChainInv' /\ Grows
<1> USE DEF Base
<1> DEFINE l == <<PlainEvent("capacity_accepted", NoSess)>>
           marked == historyAppend(MarkCheckpointAccepted(mem, mem.cap.cp), l)
           m == [marked EXCEPT !.cap = NoEvidence]
<1>1. Moved(t) /\ th[t].pc = "await"
  BY BaseEvidenceSteps DEF AcceptToken
<1>2. IsLog(mem.log \o l) /\ IsPrefix(mem.log, mem.log \o l)
  BY AppendedLog
<1>3. UNCHANGED <<ver, late>> /\ rpc' = NoCall /\ rpc.st = "answered" /\ NoCall.st = "none"
  BY DEF AcceptToken, NoCall
<1>4. marked.acc = mem.cap.cp /\ marked.cap = mem.cap /\ marked.log = mem.log \o l
  BY DEF historyAppend, MarkCheckpointAccepted, Shape, StateFields
<1>5. m.acc = mem.cap.cp /\ m.cap = NoEvidence /\ m.log = mem.log \o l
  BY DEF historyAppend, MarkCheckpointAccepted, Shape, StateFields
<1>6. \A u \in Threads : th'[u].pc \notin {"post", "await"}
  <2>1. th'[t].pc \in {"bind", "idle", "token"}
    BY MovedReturned, MovedRefused, RestingShape DEF AcceptToken
  <2> QED
    BY <1>1, <2>1, NoneElseSubmits
<1>7. CASE UNCHANGED <<mem, disk>>
  <2>1. Appends
    BY <1>3, <1>7, PrefixRefl DEF Appends, ChainInv, Links, Linked
  <2>2. Links' /\ Grows
    BY <2>1, AppendsLinks DEF ChainInv
  <2>3. Traffic'
    BY <1>3, <1>6, <1>7 DEF ChainInv, Traffic, Flies
  <2> QED
    BY <2>2, <2>3 DEF ChainInv
<1>8. ASSUME rpc.tok # NoToken
      PROVE  /\ mem.cap # NoEvidence /\ ver.cp = mem.cap.cp /\ EvSound(mem.cap) /\ CpSound(mem.cap.cp)
             /\ LogOf(mem.cap.cp) = mem.cap.cp.log /\ IsPrefix(mem.cap.cp.log, mem.log \o l)
             /\ EpochOf(disk.acc) <= EpochOf(mem.cap.cp) /\ EpochOf(mem.cap.cp) = mem.cap.cp.epoch
             /\ mem.cap.cp.epoch \in Nat
  <2>1. mem.cap # NoEvidence /\ ver.cp = mem.cap.cp /\ EvSound(mem.cap) /\ IsPrefix(mem.cap.cp.log, mem.log)
        /\ IsLog(mem.log)
    BY <1>3, <1>8 DEF ChainInv, Traffic, Links, Linked
  <2>2. CpSound(mem.cap.cp) /\ LogOf(mem.cap.cp) = mem.cap.cp.log /\ mem.cap.cp.epoch \in Nat
    BY <2>1 DEF EvSound, CpSound, LogOf
  <2>3. IsPrefix(mem.cap.cp.log, mem.log \o l)
    BY <1>2, <2>1, PrefixTrans DEF EvSound
  <2>4. EpochOf(disk.acc) <= EpochOf(mem.cap.cp) /\ EpochOf(mem.cap.cp) = mem.cap.cp.epoch
    BY <2>1, CapNotBefore DEF ChainInv, Links
  <2> QED
    BY <2>1, <2>2, <2>3, <2>4
<1>9. CASE rpc.tok # NoToken /\ mem' = m /\ disk' = m
  <2>1. Linked(m, ver.cp)
    BY <1>2, <1>5, <1>8, <1>9 DEF Linked
  <2>2. IsPrefix(mem.log \o l, mem.log \o l) /\ EpochOf(mem.cap.cp) <= EpochOf(mem.cap.cp)
    BY <1>2, <1>8, <1>9, PrefixRefl
  <2>3. Links'
    BY <1>3, <1>5, <1>9, <2>1, <2>2 DEF Links
  <2>4. IsPrefix(disk.log, mem.log \o l)
    BY <1>2, PrefixTrans DEF ChainInv, Links, Linked
  <2>5. Grows
    BY <1>5, <1>8, <1>9, <2>4 DEF Grows
  <2>6. \A ev \in late : EvSound(ev) /\ ev.cp.epoch <= EpochOf(ver.cp)
    BY <1>8, <1>9 DEF ChainInv, Traffic, Flies
  <2>7. Traffic'
    BY <1>3, <1>6, <2>6 DEF Traffic, Flies
  <2> QED
    BY <2>3, <2>5, <2>7 DEF ChainInv
<1>10. CASE rpc.tok # NoToken /\ mem' = marked /\ disk' = disk
  <2>1. Linked(marked, ver.cp)
    BY <1>2, <1>4, <1>8, <1>10 DEF Linked
  <2>2. Linked(disk, ver.cp) /\ disk.cap = mem.cap
    BY DEF ChainInv, Links
  <2>3. IsPrefix(disk.log, mem.log \o l)
    BY <1>2, PrefixTrans DEF ChainInv, Links, Linked
  <2>4. Links'
    BY <1>3, <1>4, <1>8, <1>10, <2>1, <2>2, <2>3 DEF Links
  <2>5. Grows
    BY <1>10, PrefixRefl, LogOfSound DEF Grows, ChainInv, Links, Linked
  <2>6. Traffic'
    BY <1>3, <1>4, <1>6, <1>10 DEF ChainInv, Traffic, Flies
  <2> QED
    BY <2>4, <2>5, <2>6 DEF ChainInv
<1> QED
  BY <1>7, <1>9, <1>10 DEF AcceptToken, Persist, validateCapacityToken

LEMMA ChainPostTimeout ==
    ASSUME Base, ChainInv, NEW t \in Threads, Post(t) \/ Timeout(t)
    PROVE  ChainInv' /\ Grows
<1> USE DEF Base
<1>1. Moved(t)
  BY BaseEvidenceSteps
<1>2. UNCHANGED <<mem, disk, ver>>
  BY DEF Post, Timeout
<1>3. Appends
  BY <1>2, PrefixRefl DEF Appends, ChainInv, Links, Linked
<1>4. Links' /\ Grows
  BY <1>3, AppendsLinks DEF ChainInv
<1>5. CASE Post(t)
  <2>1. /\ mem.cap # NoEvidence /\ rpc'.st = "sent" /\ rpc'.ev = mem.cap /\ late' = late
    BY <1>5 DEF Post, NoCall, ChainInv, Traffic
  <2>2. Traffic'
    BY <1>2, <2>1 DEF ChainInv, Traffic, Flies
  <2> QED
    BY <1>4, <2>2 DEF ChainInv
<1>6. CASE Timeout(t)
  <2>1. rpc'.st = "none" /\ late' = Abandoned
    BY <1>6 DEF Timeout, NoCall
  <2>2. rpc.st = "sent" => Flies(rpc.ev)
    BY DEF Flies, ChainInv, Traffic, Links, Linked
  <2>3. \A ev \in late' : Flies(ev)'
    BY <1>2, <2>1, <2>2 DEF Abandoned, Flies, ChainInv, Traffic
  <2>4. th'[t].pc \notin {"post", "await"}
    BY <1>6, MovedRefused DEF Timeout
  <2>5. \A u \in Threads : th'[u].pc \notin {"post", "await"}
    BY <1>1, <1>6, <2>4, NoneElseSubmits DEF Timeout
  <2>6. Traffic'
    BY <2>1, <2>3, <2>5 DEF Traffic
  <2> QED
    BY <1>4, <2>6 DEF ChainInv
<1> QED
  BY <1>5, <1>6

-----------------------------------------------------------------------------
(* The Verifier takes nothing but the pending submission, once. *)
LEMMA SubmitMoves ==
    ASSUME ChainInv, NEW ev, Flies(ev), Submit(ev)
    PROVE  /\ \/ ver'.cp = ver.cp
              \/ mem.cap # NoEvidence /\ ver'.cp = mem.cap.cp
           /\ EpochOf(ver.cp) <= EpochOf(ver'.cp) /\ EpochOf(ver.cp) \in Nat
           /\ (AcceptedRetry(ev) \/ Acceptable(ev)) /\ mem.cap # NoEvidence /\ ev = mem.cap
                => ver'.cp = mem.cap.cp
<1>1. CpSound(ver.cp) /\ EpochOf(ver.cp) \in Nat
  <2>1. CpSound(ver.cp)
    BY DEF ChainInv, Links, Linked, EvSound, CpSound
  <2> QED
    BY <2>1, LogOfSound
<1>2. CASE ~AcceptedRetry(ev) /\ Acceptable(ev)
  <2>1. ver'.cp = ev.cp
    BY <1>2 DEF Submit
  <2>2. ev.cp.epoch = EpochOf(ver.cp) + 1
    BY <1>2 DEF Acceptable, VerifyHistoryEvidence
  <2>3. mem.cap # NoEvidence /\ ev = mem.cap
    BY <1>1, <2>2 DEF Flies, EvSound
  <2>4. EpochOf(ver'.cp) = EpochOf(ver.cp) + 1
    BY <2>1, <2>2 DEF Flies, EvSound, EpochOf
  <2> QED
    BY <1>1, <2>1, <2>3, <2>4
<1>3. CASE ~(~AcceptedRetry(ev) /\ Acceptable(ev))
  <2>1. ver' = ver
    BY <1>3 DEF Submit
  <2> QED
    BY <1>1, <1>3, <2>1 DEF AcceptedRetry
<1> QED
  BY <1>2, <1>3

LEMMA SubmitLinks ==
    ASSUME ChainInv, NEW ev, Flies(ev), Submit(ev), UNCHANGED <<mem, disk>>
    PROVE  Links' /\ Grows
<1>1. Linked(mem, ver'.cp) /\ Linked(disk, ver'.cp)
  BY SubmitMoves DEF ChainInv, Links, Linked
<1> QED
  BY <1>1, PrefixRefl, LogOfSound DEF ChainInv, Links, Linked, Grows

LEMMA ChainServe ==
    ASSUME ChainInv, Serve \/ \E ev \in late : ServeLate(ev)
    PROVE  ChainInv' /\ Grows
<1>1. CASE Serve
  <2>1. mem.cap # NoEvidence /\ rpc.ev = mem.cap /\ Flies(rpc.ev)
    BY <1>1 DEF Serve, Flies, ChainInv, Traffic, Links, Linked
  <2>2. Submit(rpc.ev) /\ UNCHANGED <<mem, disk, th, late>> /\ rpc'.st = "answered"
        /\ rpc'.tok = IF AcceptedRetry(rpc.ev) \/ Acceptable(rpc.ev) THEN ver'.tok ELSE NoToken
    BY <1>1 DEF Serve, NoCall
  <2>3. /\ ver'.cp = ver.cp \/ ver'.cp = mem.cap.cp
        /\ EpochOf(ver.cp) <= EpochOf(ver'.cp) /\ EpochOf(ver.cp) \in Nat
        /\ rpc'.tok # NoToken => ver'.cp = mem.cap.cp
    BY <2>1, <2>2, SubmitMoves
  <2>4. EpochOf(ver'.cp) \in Nat
    BY <2>1, <2>3, CapNotBefore DEF ChainInv, Links, Linked, EvSound
  <2>5. \A e \in late : Flies(e)'
    BY <2>2, <2>3, <2>4 DEF ChainInv, Traffic, Flies, EvSound
  <2>6. Traffic'
    BY <2>1, <2>2, <2>3, <2>5 DEF ChainInv, Traffic
  <2> QED
    BY <2>1, <2>2, <2>6, SubmitLinks DEF ChainInv
<1>2. ASSUME NEW ev \in late, ServeLate(ev) PROVE ChainInv' /\ Grows
  <2>1. Flies(ev) /\ Submit(ev) /\ UNCHANGED <<mem, disk, th, rpc>> /\ late' \subseteq late
    BY <1>2 DEF ServeLate, ChainInv, Traffic
  <2>2. /\ ver'.cp = ver.cp \/ (mem.cap # NoEvidence /\ ver'.cp = mem.cap.cp)
        /\ EpochOf(ver.cp) <= EpochOf(ver'.cp) /\ EpochOf(ver.cp) \in Nat
    BY <2>1, SubmitMoves
  <2>3. EpochOf(ver'.cp) \in Nat
    BY <2>2, CapNotBefore DEF ChainInv, Links, Linked, EvSound
  <2>4. \A e \in late : Flies(e)'
    BY <2>1, <2>2, <2>3 DEF ChainInv, Traffic, Flies, EvSound
  <2>5. Traffic'
    BY <2>1, <2>2, <2>4 DEF ChainInv, Traffic
  <2> QED
    BY <2>1, <2>5, SubmitLinks DEF ChainInv
<1> QED
  BY <1>1, <1>2

LEMMA ChainOtherSteps ==
    ASSUME Base, ChainInv,
           \/ \E t \in Activators, k \in Keys, svc \in Services : Activate(t, k, svc)
           \/ Refresh \/ Reap \/ Boot \/ validateRestoredSessions \/ Tick
           \/ \E kept \in BOOLEAN : Crash(kept)
           \/ UNCHANGED vars
    PROVE  ChainInv' /\ Grows
<1> USE ThreadNames DEF Base
<1>1. IsLog(mem.log) /\ IsPrefix(mem.log, mem.log) /\ IsLog(disk.log) /\ IsPrefix(disk.log, disk.log)
  BY PrefixRefl DEF ChainInv, Links, Linked
<1>2. ASSUME NEW t \in Activators, NEW k \in Keys, NEW svc \in Services, Activate(t, k, svc) PROVE ChainInv' /\ Grows
  <2>1. UNCHANGED <<mem, disk, ver, rpc, late>>
    BY <1>2 DEF Activate
  <2>2. th' = th \/ (Moved(t) /\ th'[t].pc = "token")
    <3>1. CASE th' = [th EXCEPT ![t] = [Resting EXCEPT !.pc = "token",
                                        !.s = [id |-> k, ip |-> next', exp |-> NoTime, svc |-> svc]]]
      BY <3>1, RestingShape DEF Shape, ThreadFields, SessFields, Moved
    <3> QED
      BY <1>2, <3>1 DEF Activate
  <2> QED
    BY <1>1, <2>1, <2>2, ChainQuiet DEF Moved, Quiet, Appends
<1>3. CASE Refresh
  BY <1>1, <1>3, MovedGoto, QuietMoved, ChainQuiet DEF Refresh, Appends
<1>4. CASE Reap
  <2>1. Moved("reaper") /\ th'["reaper"].pc = "history_lock"
    BY <1>4 DEF Reap, Shape, ThreadFields, Moved
  <2> QED
    BY <1>1, <1>4, <2>1, QuietMoved, ChainQuiet DEF Reap, Appends
<1>5. CASE validateRestoredSessions
  <2>1. Moved("main") /\ th'["main"].pc \in {"token", "idle"}
    <3>1. CASE Goto("main", "token")
      BY <3>1, MovedGoto
    <3>2. CASE Rest("main")
      BY <3>2, MovedRest
    <3> QED
      BY <1>5, <3>1, <3>2 DEF validateRestoredSessions
  <2> QED
    BY <1>1, <1>5, <2>1, QuietMoved, ChainQuiet DEF validateRestoredSessions, Appends
<1>6. CASE Tick \/ UNCHANGED vars
  BY <1>1, <1>6, ChainQuiet DEF Tick, vars, Quiet, Appends
<1>7. CASE Boot
  <2> DEFINE l == <<PlainEvent("pep_start", NoSess)>>
  <2>1. /\ mem'.acc = disk.acc /\ mem'.cap = disk.cap /\ mem'.log = disk.log \o l
        /\ UNCHANGED <<disk, ver, rpc, late>>
    BY <1>7 DEF Boot, historyAppend, RestoredState, Shape, StateFields
  <2>2. IsLog(disk.log \o l) /\ IsPrefix(disk.log, disk.log \o l)
    BY <1>1, ShortSeqs, ConcatPrefix
  <2>3. Linked(mem', ver.cp)
    BY <2>1, <2>2, LinkExtends DEF ChainInv, Links
  <2>4. EpochOf(disk.acc) <= EpochOf(disk.acc)
    BY LogOfSound DEF ChainInv, Links, Linked
  <2>5. Links' /\ Grows
    BY <1>1, <2>1, <2>2, <2>3, <2>4 DEF ChainInv, Links, Grows
  <2>6. Moved("main") /\ th'["main"].pc = "history_lock"
    BY <1>7, MovedGoto DEF Boot
  <2>7. mem'.cap = mem.cap
    BY <2>1 DEF ChainInv, Links
  <2>8. Traffic'
    BY <2>1, <2>6, <2>7, QuietMoved, QuietTraffic DEF ChainInv
  <2> QED
    BY <2>5, <2>8 DEF ChainInv
<1>8. ASSUME NEW kept, Crash(kept) PROVE ChainInv' /\ Grows
  <2>1. /\ mem' = disk /\ UNCHANGED <<disk, ver>> /\ rpc'.st = "none" /\ late' = Abandoned
        /\ \A t \in Threads : th'[t].pc = "idle"
    BY <1>8, RestingShape DEF Crash, NoCall
  <2>2. EpochOf(disk.acc) <= EpochOf(disk.acc)
    BY LogOfSound DEF ChainInv, Links, Linked
  <2>3. Links' /\ Grows
    BY <1>1, <2>1, <2>2 DEF ChainInv, Links, Grows
  <2>4. rpc.st = "sent" => Flies(rpc.ev)
    BY DEF Flies, ChainInv, Traffic, Links, Linked
  <2>5. mem'.cap = mem.cap
    BY <2>1 DEF ChainInv, Links
  <2>6. \A ev \in late' : Flies(ev)'
    BY <2>1, <2>4, <2>5 DEF Abandoned, Flies, ChainInv, Traffic
  <2>7. Traffic'
    BY <2>1, <2>6 DEF Traffic
  <2> QED
    BY <2>3, <2>7 DEF ChainInv
<1> QED
  BY <1>2, <1>3, <1>4, <1>5, <1>6, <1>7, <1>8

LEMMA ChainNext == Base /\ ChainInv /\ [Next]_vars => ChainInv' /\ Grows
<1> SUFFICES ASSUME Base, ChainInv, [Next]_vars PROVE ChainInv' /\ Grows
  OBVIOUS
<1>1. ASSUME NEW t \in Threads, Step(t) PROVE ChainInv' /\ Grows
  BY <1>1, ChainTokenSteps, ChainDeleteSteps, ChainPrepare, ChainPostTimeout, ChainAccept,
     ChainApplySteps DEF Step
<1> QED
  BY <1>1, ChainServe, ChainOtherSteps DEF Next

LEMMA ChainInvariance == Sentinels /\ Spec => []ChainInv
BY ChainInit, ChainNext, BaseInvariance, PTL DEF Spec

LEMMA ChainContinues == ChainInv => Continuity
<1> SUFFICES ASSUME ChainInv PROVE Continuity
  OBVIOUS
<1>1. ASSUME NEW m, Linked(m, ver.cp) PROVE Continues(m)
  <2>1. ver.cp \in {m.acc} \cup (IF m.cap = NoEvidence THEN {} ELSE {m.cap.cp})
    BY <1>1 DEF Linked
  <2>2. m.cap # NoEvidence /\ ver.cp # m.cap.cp => VerifyHistoryEvidence(m.cap, "pep", "pep", ver.cp)
    BY <1>1 DEF Linked
  <2>3. IsPrefix(LogOf(ver.cp), m.log)
    BY <1>1 DEF Linked, EvSound, LogOf
  <2> QED
    BY <2>1, <2>2, <2>3 DEF Continues
<1> QED
  BY <1>1 DEF Continuity, ChainInv, Links

-----------------------------------------------------------------------------
(* The PEP can always continue the chain of checkpoints, with a fresh      *)
(* submission or by repeating the pending one, after any crashes, failed   *)
(* writes and lost, late or repeated submissions (persistPEPState,         *)
(* ensureCapacityToken, capacityHandler).                                  *)
THEOREM ChainContinuous == Sentinels /\ Spec => []Continuity
BY ChainInvariance, ChainContinues, PTL

(* No step of the PEP, crashes and restarts included, takes anything back  *)
(* from the history in the state file, or from what of it was accepted     *)
(* (persistPEPState, AppendEvent, MarkCheckpointAccepted).                 *)
THEOREM HistoryGrows == Sentinels /\ Spec => DurableHistoryGrows
<1>1. Base /\ ChainInv /\ [Next]_vars
        => [IsPrefix(disk.log, disk'.log) /\ EpochOf(disk.acc) <= EpochOf(disk'.acc)]_vars
  BY ChainNext DEF Grows
<1> QED
  BY <1>1, BaseInvariance, ChainInvariance, PTL DEF Spec, DurableHistoryGrows

HealthTyped == healthy \in BOOLEAN

LEMMA HealthyInvariance == Spec => []HealthTyped
<1>1. ASSUME HealthTyped, NEW t \in Threads, Step(t) PROVE HealthTyped'
  BY <1>1 DEF HealthTyped, Step, CheckHealth, TakeTokenLock, TakeHistoryLock, BeginDelete, DeleteCommand, Drained,
     FinishDelete, PrepareEvidence, Post, AcceptToken, Timeout, Bind, BeginApply, ApplyCommand,
     FinishApply, DrainFailed
<1>2. HealthTyped /\ [Next]_vars => HealthTyped'
  BY <1>1 DEF HealthTyped, Next, Activate, Refresh, Reap, Serve, ServeLate, Boot, validateRestoredSessions, Crash,
     Tick, vars
<1>3. Init => HealthTyped
  BY DEF Init, HealthTyped
<1> QED
  BY <1>2, <1>3, PTL DEF Spec

(* Types: sessions, markers, locks and addresses stay in range for any     *)
(* pool, lifetimes and clock (allocateClientInnerIP, boundLifetime).       *)
THEOREM TypeCorrect == Sentinels /\ Spec => []TypeOK
<1>1. Base /\ Types /\ ChainInv /\ HealthTyped => TypeOK
  <2> SUFFICES ASSUME Base, Types, ChainInv, HealthTyped PROVE TypeOK
    OBVIOUS
  <2>1. phase \in {"down", "refused", "starting", "up"}
    BY DEF Base, PhaseInv
  <2>2. ASSUME NEW m, m.sess \subseteq Sessions, m.pend \in Markers, Linked(m, ver.cp) PROVE StateOK(m)
    BY <2>2 DEF StateOK, Sessions, Markers, Linked, EvSound
  <2>3. StateOK(mem) /\ StateOK(disk)
    BY <2>2 DEF Types, GlobalTypes, ChainInv, Links
  <2>4. {histMu, tokMu} \subseteq Threads \cup {Free}
    BY DEF Base, LockInv
  <2>5. \A k \in Keys : kern[k] \subseteq Parts
    BY DEF Types, GlobalTypes
  <2> QED
    BY <2>1, <2>3, <2>4, <2>5 DEF TypeOK, HealthTyped
<1> QED
  BY <1>1, BaseInvariance, TypesInvariance, ChainInvariance, HealthyInvariance, PTL

-----------------------------------------------------------------------------
(* The transactions: what the state file and the session table say of the  *)
(* kernel, and the addresses of the sessions.                              *)

-----------------------------------------------------------------------------
(* Steps outside the transactions.  Such a step leaves the kernel and the  *)
(* tables alone, except that it may bring the state file up to date.       *)
InTransaction == {"apply", "delete"}

SameDisk == disk'.sess = disk.sess /\ disk'.pend = disk.pend
Saved    == disk'.sess = mem.sess /\ disk'.pend = mem.pend

(* It records at most an exchange with the Verifier in the history, and a  *)
(* write of the state file is of all there is.                             *)
Notes(t) ==
    /\ \/ mem'.log = mem.log
       \/ \E type \in {"capacity_requested", "capacity_accepted"} :
            mem'.log = mem.log \o <<PlainEvent(type, NoSess)>>
    /\ disk' = disk \/ (th[t].pc \in TokenCS /\ disk' = mem')
    /\ clock' = clock \/ clock' = clock + 1
    /\ used \subseteq used'

(* What it leaves t to do: expired sessions to delete, a session to apply. *)
Aims(t) ==
    /\ th'[t].now \in {th[t].now, 0, clock}
    /\ th'[t].pc = "drain" => \E now \in {th[t].now, clock} : th'[t].todo = Expired(now)
    /\ th'[t].pc = "apply_lock" => th'[t].s.exp <= clock + MaxSALifetime
    /\ \/ th'[t].s.id \in {NoKey, th[t].s.id}
       \/ t \in Activators /\ th'[t].s.id \in Keys \ used /\ used' = used \cup {th'[t].s.id}

Calm(t) ==
    /\ kern' = kern /\ mem'.sess = mem.sess /\ mem'.pend = mem.pend
    /\ \/ th' = th /\ SameDisk
       \/ /\ Moved(t) /\ th[t].pc \notin InTransaction /\ th'[t].pc \notin InTransaction
          /\ SameDisk \/ (th[t].pc \in HistoryCS /\ Saved)
          /\ Aims(t)
    /\ Notes(t)
    /\ healthy' => healthy
    /\ Running' => Running
    /\ crashes' = crashes

LEMMA AimsGoto ==
    ASSUME Base, NEW t \in Threads, NEW pc, pc \notin {"drain", "apply_lock"}, Goto(t, pc)
    PROVE  Aims(t)
BY MovedGoto DEF Base, SameLocals, Aims

LEMMA AimsRest ==
    ASSUME Base, NEW t \in Threads, Rest(t) \/ TokenRefused(t) \/ DrainFailed(t)
    PROVE  Aims(t)
<1>0. NoSess.id = NoKey
  BY DEF NoSess
<1>1. CASE Rest(t)
  BY <1>0, <1>1, MovedRest, RestingShape DEF Base, Aims
<1>2. CASE TokenRefused(t)
  BY <1>0, <1>2, MovedRefused, RestingShape DEF Base, Aims
<1>3. CASE DrainFailed(t)
  BY <1>0, <1>3, DrainFails DEF Base, Aims
<1> QED
  BY <1>1, <1>2, <1>3

LEMMA AimsReturned ==
    ASSUME Base, NEW t \in Threads, NEW k, TokenReturned(t, k)
    PROVE  Aims(t)
<1>0. NoSess.id = NoKey
  BY DEF NoSess
<1> QED
  BY <1>0, MovedReturned, RestingShape DEF Base, SameLocals, Aims

LEMMA AimsBind ==
    ASSUME Base, Types, NEW t \in Threads, Bind(t)
    PROVE  Aims(t)
<1>1. CASE th' = [th EXCEPT ![t].pc = "apply_lock", ![t].s.exp = clock + boundLifetime(th[t].tok)]
  <2>1. /\ th'[t].s = [th[t].s EXCEPT !.exp = clock + boundLifetime(th[t].tok)]
        /\ th'[t].pc = "apply_lock" /\ th'[t].now = th[t].now
    BY <1>1 DEF Base, Shape, ThreadFields
  <2>2. th'[t].s.id = th[t].s.id /\ th'[t].s.exp = clock + boundLifetime(th[t].tok)
    BY <2>1 DEF Base, Shape, SessFields
  <2>3. th[t].tok.exp \in Int /\ clock \in Int /\ {SALifetime, MaxSALifetime} \subseteq Int
    BY ConfigAssumption DEF Bind, Types, ThreadTypes, GlobalTypes
  <2>4. boundLifetime(th[t].tok) \in Int /\ boundLifetime(th[t].tok) <= MaxSALifetime
    <3> DEFINE c == th[t].tok.exp - clock
               m == Min({SALifetime, MaxSALifetime, c})
    <3>1. c \in Int
      BY <2>3
    <3> HIDE DEF c
    <3>2. m \in {SALifetime, MaxSALifetime, c} /\ m <= MaxSALifetime
      BY <2>3, <3>1, MinOfThree
    <3>3. boundLifetime(th[t].tok) = m
      BY DEF boundLifetime, c
    <3> HIDE DEF m
    <3> QED
      BY <2>3, <3>1, <3>2, <3>3
  <2> QED
    BY <2>1, <2>2, <2>3, <2>4 DEF Aims
<1>2. CASE Rest(t)
  BY <1>2, AimsRest
<1> QED
  BY <1>1, <1>2 DEF Bind

LEMMA CalmTokenSteps ==
    ASSUME Base, Types, NEW t \in Threads,
           CheckHealth(t) \/ TakeTokenLock(t) \/ TakeHistoryLock(t) \/ Bind(t) \/ Drained(t)
    PROVE  Calm(t)
<1> USE DEF InTransaction
<1>1. Moved(t)
  BY BaseTokenSteps, BaseDeleteSteps
<1>2. Running' => Running
  <2>1. th[t].pc # "idle"
    BY DEF CheckHealth, TakeTokenLock, TakeHistoryLock, Bind, Drained
  <2> QED
    BY <2>1, RestingShape, ThreadNames DEF Base, PhaseInv, Running
<1> USE DEF Notes
<1>3. CASE CheckHealth(t)
  <2>1. th'[t].pc \in {"token_lock", "idle", "token"}
    BY <1>3, MovedGoto, MovedRefused DEF CheckHealth, Base
  <2>2. Aims(t)
    BY <1>3, AimsGoto, AimsRest DEF CheckHealth
  <2> QED
    BY <1>1, <1>2, <1>3, <2>1, <2>2 DEF Calm, CheckHealth, SameDisk
<1>4. CASE TakeTokenLock(t)
  <2>1. th'[t].pc \in {"bind", "idle", "history_lock"}
    BY <1>4, MovedGoto, MovedReturned, RestingShape DEF TakeTokenLock, Base
  <2>2. Aims(t)
    BY <1>4, AimsGoto, AimsReturned DEF TakeTokenLock
  <2> QED
    BY <1>1, <1>2, <1>4, <2>1, <2>2 DEF Calm, TakeTokenLock, SameDisk
<1>5. CASE TakeHistoryLock(t)
  <2>1. /\ th'[t].pc = "drain" /\ th'[t].s = th[t].s /\ th'[t].now = th[t].now
        /\ th'[t].todo = Expired(IF t = "reaper" THEN th[t].now ELSE clock)
    BY <1>5 DEF TakeHistoryLock, Base, Shape, ThreadFields
  <2>2. Aims(t)
    BY <2>1 DEF Aims
  <2> QED
    BY <1>1, <1>2, <1>5, <2>1, <2>2 DEF Calm, TakeHistoryLock, SameDisk
<1>6. CASE Bind(t)
  <2>1. th'[t].pc \in {"apply_lock", "idle"}
    BY <1>6, MovedRest DEF Bind, Base, Shape, ThreadFields
  <2> QED
    BY <1>1, <1>2, <1>6, <2>1, AimsBind DEF Calm, Bind, SameDisk
<1>7. CASE Drained(t)
  <2>1. th'[t].pc \in {"evidence", "validate", "idle"}
    BY <1>7, MovedGoto, MovedRest DEF Drained, Base
  <2>2. Aims(t)
    BY <1>7, AimsGoto, AimsRest DEF Drained
  <2> QED
    BY <1>1, <1>2, <1>7, <2>1, <2>2 DEF Calm, Drained, SameDisk
<1> QED
  BY <1>3, <1>4, <1>5, <1>6, <1>7

LEMMA CalmEvidenceSteps ==
    ASSUME Base, NEW t \in Threads,
           PrepareEvidence(t) \/ Post(t) \/ AcceptToken(t) \/ Timeout(t)
    PROVE  Calm(t)
<1> USE DEF InTransaction
<1>1. Moved(t)
  BY BaseEvidenceSteps
<1>2. th[t].pc \in TokenCS /\ th[t].pc \in HistoryCS
  BY DEF PrepareEvidence, Post, AcceptToken, Timeout, TokenCS, HistoryCS
<1>3. th[t].pc \notin InTransaction
  BY <1>2 DEF TokenCS
<1>4. Running
  <2>1. th[t].pc # "idle"
    BY <1>2 DEF TokenCS
  <2> QED
    BY <2>1, RestingShape, ThreadNames DEF Base, PhaseInv, Running
<1>5. kern' = kern /\ healthy' = healthy /\ crashes' = crashes
  BY DEF PrepareEvidence, Post, AcceptToken, Timeout
<1>6. mem'.sess = mem.sess /\ mem'.pend = mem.pend /\ (SameDisk \/ Saved)
  <2>1. CASE PrepareEvidence(t)
    BY <2>1 DEF PrepareEvidence, Persist, historyAppend, Base, Shape, StateFields, SameDisk, Saved
  <2>2. CASE AcceptToken(t)
    BY <2>2 DEF AcceptToken, Persist, historyAppend, MarkCheckpointAccepted, Base, Shape, StateFields,
       SameDisk, Saved
  <2>3. CASE Post(t) \/ Timeout(t)
    BY <2>3 DEF Post, Timeout, SameDisk
  <2> QED
    BY <2>1, <2>2, <2>3
<1>7. th'[t].pc \in {"post", "await", "bind", "idle", "token"}
  BY MovedGoto, MovedReturned, MovedRefused, RestingShape DEF PrepareEvidence, Post, AcceptToken, Timeout, Base
<1>8. Aims(t)
  BY AimsGoto, AimsRest, AimsReturned DEF PrepareEvidence, Post, AcceptToken, Timeout
<1>9. Notes(t)
  <2>1. CASE PrepareEvidence(t)
    <3> DEFINE asked == historyAppend(mem, <<PlainEvent("capacity_requested", NoSess)>>)
               m     == [asked EXCEPT !.cap = BuildEvidence(asked)]
    <3>1. /\ asked.log = mem.log \o <<PlainEvent("capacity_requested", NoSess)>>
          /\ m.log = mem.log \o <<PlainEvent("capacity_requested", NoSess)>>
      BY DEF historyAppend, Base, Shape, StateFields
    <3> HIDE DEF asked, m
    <3>2. \/ mem' = mem /\ disk' = disk
          \/ mem' = m /\ disk' = m
          \/ mem' = asked /\ disk' = disk
      BY <2>1, Zenon DEF PrepareEvidence, Persist, asked, m
    <3>3. clock' = clock /\ used' = used
      BY <2>1 DEF PrepareEvidence
    <3> QED
      BY <1>2, <3>1, <3>2, <3>3 DEF Notes
  <2>2. CASE AcceptToken(t)
    <3> DEFINE marked == historyAppend(MarkCheckpointAccepted(mem, mem.cap.cp),
                                       <<PlainEvent("capacity_accepted", NoSess)>>)
               m      == [marked EXCEPT !.cap = NoEvidence]
    <3>1. /\ marked.log = mem.log \o <<PlainEvent("capacity_accepted", NoSess)>>
          /\ m.log = mem.log \o <<PlainEvent("capacity_accepted", NoSess)>>
      BY DEF historyAppend, MarkCheckpointAccepted, Base, Shape, StateFields
    <3> HIDE DEF marked, m
    <3>2. \/ mem' = mem /\ disk' = disk
          \/ mem' = m /\ disk' = m
          \/ mem' = marked /\ disk' = disk
      BY <2>2, Zenon DEF AcceptToken, Persist, marked, m
    <3>3. clock' = clock /\ used' = used
      BY <2>2 DEF AcceptToken
    <3> QED
      BY <1>2, <3>1, <3>2, <3>3 DEF Notes
  <2>3. CASE Post(t) \/ Timeout(t)
    BY <2>3 DEF Post, Timeout, Notes
  <2> QED
    BY <2>1, <2>2, <2>3
<1> QED
  BY <1>1, <1>2, <1>3, <1>4, <1>5, <1>6, <1>7, <1>8, <1>9 DEF Calm

LEMMA CalmOtherSteps ==
    ASSUME Base,
           \/ \E t \in Activators, k \in Keys, svc \in Services : Activate(t, k, svc)
           \/ Refresh \/ Reap \/ validateRestoredSessions
           \/ Serve \/ (\E ev \in late : ServeLate(ev)) \/ Tick
           \/ UNCHANGED vars
    PROVE  \E t \in Threads : Calm(t)
<1> USE ThreadNames DEF Base, InTransaction, Notes
<1>1. ASSUME NEW t \in Activators, NEW k \in Keys, NEW svc \in Services, Activate(t, k, svc) PROVE Calm(t)
  <2>1. th' = th \/ (Moved(t) /\ th[t].pc = "idle" /\ th'[t].pc = "token" /\ Aims(t))
    <3>1. CASE th' = [th EXCEPT ![t] = [Resting EXCEPT !.pc = "token",
                                        !.s = [id |-> k, ip |-> next', exp |-> NoTime, svc |-> svc]]]
      <4>1. /\ Moved(t) /\ th[t].pc = "idle" /\ th'[t].pc = "token"
            /\ th'[t].s = [id |-> k, ip |-> next', exp |-> NoTime, svc |-> svc] /\ th'[t].now = 0
        BY <1>1, <3>1, RestingShape DEF Activate, Shape, ThreadFields, SessFields, Moved
      <4>2. k \notin used /\ used' = used \cup {k}
        BY <1>1, Zenon DEF Activate
      <4>3. Aims(t)
        BY <4>1, <4>2 DEF Aims
      <4> QED
        BY <4>1, <4>3
    <3> QED
      BY <1>1, <3>1 DEF Activate
  <2> QED
    BY <1>1, <2>1 DEF Calm, Activate, SameDisk, Running
<1>2. ASSUME Refresh PROVE Calm("refresher")
  BY <1>2, MovedGoto, AimsGoto DEF Refresh, Calm, SameDisk, Running
<1>3. ASSUME Reap PROVE Calm("reaper")
  <2>1. /\ Moved("reaper") /\ th'["reaper"].pc = "history_lock"
        /\ th'["reaper"].s = th["reaper"].s /\ th'["reaper"].now = clock
    BY <1>3 DEF Reap, Shape, ThreadFields, Moved
  <2>2. Aims("reaper")
    BY <2>1 DEF Aims
  <2> QED
    BY <1>3, <2>1, <2>2 DEF Reap, Calm, SameDisk, Running
<1>4. ASSUME validateRestoredSessions PROVE Calm("main")
  <2>1. Moved("main") /\ th'["main"].pc \in {"token", "idle"}
    BY <1>4, MovedGoto, MovedRest DEF validateRestoredSessions
  <2>2. Running
    BY <1>4, RestingShape DEF validateRestoredSessions, PhaseInv, Running
  <2>3. Aims("main")
    BY <1>4, AimsGoto, AimsRest DEF validateRestoredSessions
  <2> QED
    BY <1>4, <2>1, <2>2, <2>3 DEF validateRestoredSessions, Calm, SameDisk
<1>5. ASSUME Serve \/ (\E ev \in late : ServeLate(ev)) \/ Tick \/ UNCHANGED vars PROVE Calm("main")
  BY <1>5 DEF Serve, ServeLate, Tick, vars, Calm, SameDisk, Running
<1> QED
  BY <1>1, <1>2, <1>3, <1>4, <1>5

-----------------------------------------------------------------------------
(* The steps of a transaction, by what they do to the tables. *)
Steady == phase' = phase /\ healthy' = healthy /\ crashes' = crashes

Stays(t) ==
    /\ th'[t].s = th[t].s /\ th'[t].todo = th[t].todo /\ th'[t].now = th[t].now
    /\ clock' = clock /\ used' = used

Stops(t) == /\ th'[t].pc \in {"idle", "token"} /\ th'[t].s.id = NoKey /\ th'[t].now = 0
            /\ disk' = disk

(* ... and to the history. *)
ExpiryRecorded(t, d) ==
    /\ Stays(t) /\ disk'.log = mem.log
    /\ mem'.log = mem.log \o <<PlainEvent("session_expired", d), Event("xfrm_delete_intent", d, d.id, NoObs)>>

DeletionRecorded(t) ==
    LET d == th[t].d
    IN  /\ clock' = clock /\ used' = used
        /\ \E o \in Observations(ExactlyDeleted(d.id)) :
             /\ mem'.log = mem.log \o <<Event("xfrm_delete_observed", d, d.id, o)>>
             /\ \/ /\ observationMeetsLocalProfile(o) /\ disk' = mem'
                   /\ mem'.sess = {s \in mem.sess : s.id # d.id} /\ th'[t].pc = "drain"
                   /\ th'[t].s = th[t].s /\ th'[t].todo = th[t].todo \ {d} /\ th'[t].now = th[t].now
                \/ Fault("persist") /\ Stops(t)
                \/ (ExactlyDeleted(d.id) => Fault("observe")) /\ Stops(t)

IntentRecorded(t) ==
    /\ Stays(t) /\ disk'.log = mem.log
    /\ mem'.log = mem.log \o <<Event("xfrm_apply_intent", th[t].s, th[t].s.id, NoObs)>>

ActivationRecorded(t) ==
    LET s == th[t].s
        observed(o) == mem.log \o <<Event("xfrm_apply_observed", s, s.id, o)>>
        activated(o) == observed(o) \o <<PlainEvent("session_activated", s)>>
    IN  /\ clock' = clock /\ used' = used
        /\ \E o \in Observations(ExactlyApplied(s.id)) :
             \/ /\ observationMeetsLocalProfile(o) /\ disk' = mem'
                /\ mem'.log = activated(o) /\ mem'.sess = mem.sess \cup {s}
             \/ /\ Fault("persist") /\ disk' = disk
                /\ mem'.log = activated(o) /\ mem'.sess = mem.sess \cup {s}
             \/ /\ ExactlyApplied(s.id) => Fault("observe")
                /\ disk' = disk /\ mem'.log = observed(o) /\ mem'.sess = mem.sess

StartRecorded ==
    /\ mem'.log = disk.log \o <<PlainEvent("pep_start", NoSess)>>
    /\ th'["main"].s.id = NoKey /\ th'["main"].now = 0
    /\ clock' = clock /\ used' = used

BeginsDelete(t, d) ==
    /\ Moved(t) /\ Steady /\ kern' = kern /\ ExpiryRecorded(t, d)
    /\ th[t].pc = "drain" /\ th'[t].pc = "delete" /\ th'[t].d = d /\ th'[t].i = FirstCommand
    /\ mem'.sess = mem.sess /\ mem'.pend = [op |-> "xfrm_delete", id |-> d.id]
    /\ disk'.sess = mem.sess /\ disk'.pend = mem'.pend

Deletes(t) ==
    /\ Moved(t) /\ Steady /\ Stays(t) /\ mem' = mem /\ disk' = disk
    /\ th[t].pc = "delete" /\ th'[t].pc = "delete" /\ th'[t].d = th[t].d
    /\ th[t].i \in Parts /\ th'[t].i = th[t].i + 1
    /\ \/ kern' = [kern EXCEPT ![th[t].d.id] = @ \ {th[t].i}]
       \/ kern' = kern /\ Fault("command")

EndsDelete(t) ==
    /\ Moved(t) /\ DeletionRecorded(t) /\ kern' = kern /\ crashes' = crashes
    /\ th[t].pc = "delete" /\ th[t].i = NCommands + 1 /\ th'[t].pc \notin InTransaction
    /\ \/ /\ Steady /\ (ApplyMode /\ ObserverMode # "ebpf" => kern[th[t].d.id] = {})
          /\ mem'.sess = {s \in mem.sess : s.id # th[t].d.id} /\ mem'.pend = NoMarker /\ disk' = mem'
       \/ /\ ~healthy' /\ phase' \in {phase, "down"} /\ (phase = "up" => phase' = phase)
          /\ mem'.sess = {s \in mem.sess : s.id # th[t].d.id} /\ mem'.pend = mem.pend /\ disk' = disk
       \/ /\ ~healthy' /\ phase' \in {phase, "down"} /\ (phase = "up" => phase' = phase)
          /\ mem'.sess = mem.sess /\ mem'.pend = mem.pend /\ disk' = disk

BeginsApply(t) ==
    /\ Moved(t) /\ Steady /\ kern' = kern /\ IntentRecorded(t)
    /\ th[t].pc = "apply_lock" /\ histMu = Free
    /\ th'[t].pc = "apply" /\ th'[t].s = th[t].s /\ th'[t].i = FirstCommand
    /\ mem'.sess = mem.sess /\ mem'.pend = [op |-> "xfrm_apply", id |-> th[t].s.id]
    /\ disk'.sess = mem.sess /\ disk'.pend = mem'.pend

Applies(t) ==
    /\ Moved(t) /\ phase' = phase /\ crashes' = crashes /\ mem' = mem /\ disk' = disk
    /\ th[t].pc = "apply" /\ th[t].i \in Parts
    /\ \/ /\ healthy' = healthy /\ kern' = [kern EXCEPT ![th[t].s.id] = @ \cup {th[t].i}]
          /\ th'[t].pc = "apply" /\ th'[t].s = th[t].s /\ th'[t].i = th[t].i + 1 /\ th'[t].now = th[t].now
       \/ ~healthy' /\ kern' = kern /\ Fault("command") /\ th'[t] = Resting
    /\ clock' = clock /\ used' = used

EndsApply(t) ==
    LET s == th[t].s
    IN  /\ Moved(t) /\ phase' = phase /\ crashes' = crashes /\ ActivationRecorded(t)
        /\ th[t].pc = "apply" /\ th[t].i = NCommands + 1 /\ th'[t] = Resting
        /\ \/ /\ healthy' = healthy /\ kern' = kern
              /\ mem'.sess = mem.sess \cup {s} /\ mem'.pend = NoMarker /\ disk' = mem'
           \/ /\ ~healthy' /\ kern' = kern
              /\ mem'.sess = mem.sess \cup {s} /\ mem'.pend = mem.pend /\ disk' = disk
           \/ /\ ~healthy' /\ (ExactlyApplied(s.id) => Fault("observe"))
              /\ \A k \in Keys : kern'[k] \subseteq kern[k] /\ (k # s.id => kern'[k] = kern[k])
              /\ mem'.sess = mem.sess /\ mem'.pend = mem.pend /\ disk' = disk

Starts ==
    /\ Moved("main") /\ th["main"] = Resting /\ th'["main"].pc = "history_lock"
    /\ disk.pend = NoMarker /\ ~Running /\ phase' = "starting"
    /\ mem'.sess = disk.sess /\ mem'.pend = disk.pend /\ UNCHANGED <<disk, kern, crashes>>
    /\ StartRecorded

Dies ==
    /\ phase' = "down" /\ crashes' = crashes + 1 /\ disk' = disk /\ mem' = disk
    /\ \A t \in Threads : th'[t] = Resting
    /\ \A k \in Keys : kern'[k] \in {kern[k], {}}
    /\ clock' = clock /\ used' = used

Transacts ==
    \/ \E t \in Threads : \/ \E d \in th[t].todo : BeginsDelete(t, d)
                          \/ Deletes(t) \/ EndsDelete(t)
                          \/ BeginsApply(t) \/ Applies(t) \/ EndsApply(t)
    \/ Starts \/ Dies

LEMMA DeleteEffects ==
    ASSUME Base, Types, NEW t \in Threads,
           \/ \E d \in th[t].todo : BeginDelete(t, d)
           \/ DeleteCommand(t)
           \/ \E o \in Observations(TRUE) : FinishDelete(t, o)
    PROVE  Calm(t) \/ Transacts
<1> USE DEF Base, InTransaction
<1>1. Moved(t)
  BY BaseDeleteSteps
<1>2. Running
  <2>1. th[t].pc # "idle"
    BY DEF BeginDelete, DeleteCommand, FinishDelete
  <2> QED
    BY <2>1, RestingShape, ThreadNames DEF PhaseInv, Running
<1>3. ASSUME DrainFailed(t)
      PROVE  /\ ~healthy' /\ phase' \in {phase, "down"} /\ (phase = "up" => phase' = phase)
             /\ th'[t].pc \in {"idle", "token"}
  <2>1. phase = "up" => t # "main"
    BY RestingShape DEF PhaseInv, BeginDelete, DeleteCommand, FinishDelete
  <2> QED
    BY <1>3, <2>1, DrainFails DEF DrainFailed
<1>4. ASSUME NEW d \in th[t].todo, BeginDelete(t, d) PROVE Calm(t) \/ BeginsDelete(t, d)
  <2>1. CASE DrainFailed(t) /\ UNCHANGED <<mem, disk>>
    BY <1>1, <1>2, <1>3, <1>4, <2>1, AimsRest DEF BeginDelete, Calm, SameDisk, Notes
  <2>2. CASE /\ th' = [th EXCEPT ![t].pc = "delete", ![t].d = d, ![t].i = FirstCommand]
             /\ UNCHANGED <<phase, healthy>>
             /\ disk' = [mem EXCEPT !.pend = [op |-> "xfrm_delete", id |-> d.id]]
             /\ mem' = historyAppend([mem EXCEPT !.pend = [op |-> "xfrm_delete", id |-> d.id]],
                                     <<PlainEvent("session_expired", d),
                                       Event("xfrm_delete_intent", d, d.id, NoObs)>>)
    <3>1. /\ th'[t].pc = "delete" /\ th'[t].d = d /\ th'[t].i = FirstCommand
          /\ th'[t].s = th[t].s /\ th'[t].todo = th[t].todo /\ th'[t].now = th[t].now
      BY <2>2 DEF Shape, ThreadFields
    <3>2. /\ mem'.sess = mem.sess /\ mem'.pend = [op |-> "xfrm_delete", id |-> d.id]
          /\ disk'.sess = mem.sess /\ disk'.pend = mem'.pend /\ disk'.log = mem.log
          /\ mem'.log = mem.log \o <<PlainEvent("session_expired", d), Event("xfrm_delete_intent", d, d.id, NoObs)>>
      BY <2>2 DEF historyAppend, Shape, StateFields
    <3>3. clock' = clock /\ used' = used
      BY <1>4 DEF BeginDelete
    <3>4. ExpiryRecorded(t, d)
      BY <3>1, <3>2, <3>3 DEF ExpiryRecorded, Stays
    <3> QED
      BY <1>1, <1>4, <2>2, <3>1, <3>2, <3>4 DEF BeginDelete, BeginsDelete, Steady
  <2> QED
    BY <1>4, <2>1, <2>2 DEF BeginDelete, Persist
<1>5. ASSUME DeleteCommand(t) PROVE Deletes(t)
  <2>1. /\ th'[t].pc = th[t].pc /\ th'[t].d = th[t].d /\ th'[t].i = th[t].i + 1
        /\ th'[t].s = th[t].s /\ th'[t].todo = th[t].todo /\ th'[t].now = th[t].now
    BY <1>5 DEF DeleteCommand, Shape, ThreadFields
  <2>2. Stays(t)
    BY <1>5, <2>1 DEF DeleteCommand, Stays
  <2> QED
    BY <1>1, <1>5, <2>1, <2>2 DEF DeleteCommand, Deletes, Steady
<1>6. ASSUME NEW o \in Observations(TRUE), FinishDelete(t, o) PROVE EndsDelete(t)
  <2> DEFINE d    == th[t].d
             seen == historyAppend(mem, <<Event("xfrm_delete_observed", d, d.id, o)>>)
             gone == [seen EXCEPT !.sess = {s \in @ : s.id # d.id}]
             wiped == [gone EXCEPT !.pend = NoMarker]
  <2>1. /\ seen.sess = mem.sess /\ seen.pend = mem.pend
        /\ gone.sess = {s \in mem.sess : s.id # d.id} /\ gone.pend = mem.pend
        /\ wiped.sess = {s \in mem.sess : s.id # d.id} /\ wiped.pend = NoMarker
        /\ \A m \in {seen, gone, wiped} : m.log = mem.log \o <<Event("xfrm_delete_observed", d, d.id, o)>>
    BY DEF historyAppend, Shape, StateFields
  <2> HIDE DEF seen, gone, wiped
  <2>2. observationMeetsLocalProfile(o) /\ ApplyMode /\ ObserverMode # "ebpf" => kern[d.id] = {}
    <3> SUFFICES ASSUME observationMeetsLocalProfile(o), ApplyMode, ObserverMode # "ebpf", kern[d.id] # {}
                 PROVE  FALSE
      OBVIOUS
    <3>1. o \in Observations(FALSE)
      BY <1>6 DEF FinishDelete, ExactlyDeleted
    <3>2. ObserverMode \in {"posthoc", "hybrid"}
      BY <1>6, ConfigAssumption DEF observationMeetsLocalProfile
    <3>3. o.mode = "apply" /\ o.value = "false"
      BY <3>1, <3>2 DEF Observations
    <3> QED
      BY <3>3 DEF observationMeetsLocalProfile
  <2>3. CASE /\ observationMeetsLocalProfile(o) /\ mem' = wiped /\ disk' = wiped
             /\ th' = [th EXCEPT ![t].pc = "drain", ![t].d = NoSess, ![t].i = 0, ![t].todo = @ \ {th[t].d}]
             /\ UNCHANGED <<phase, healthy>>
    <3>1. /\ th'[t].pc = "drain" /\ th'[t].s = th[t].s /\ th'[t].now = th[t].now
          /\ th'[t].todo = th[t].todo \ {d}
      BY <2>3 DEF Shape, ThreadFields
    <3>2. DeletionRecorded(t)
      <4>1. o \in Observations(ExactlyDeleted(d.id)) /\ clock' = clock /\ used' = used
        BY <1>6 DEF FinishDelete
      <4> QED
        BY <2>1, <2>3, <3>1, <4>1 DEF DeletionRecorded
    <3> QED
      BY <1>1, <1>6, <2>1, <2>2, <2>3, <3>1, <3>2 DEF FinishDelete, EndsDelete, Steady
  <2>4. CASE /\ mem' \in {gone, seen} /\ UNCHANGED disk /\ DrainFailed(t)
             /\ Fault("persist") \/ (ExactlyDeleted(d.id) => Fault("observe"))
    <3>1. DeletionRecorded(t)
      <4>1. o \in Observations(ExactlyDeleted(d.id)) /\ clock' = clock /\ used' = used
        BY <1>6 DEF FinishDelete
      <4>2. Stops(t)
        <5>1. NoSess.id = NoKey
          BY DEF NoSess
        <5> QED
          BY <2>4, <5>1, DrainFails DEF Stops
      <4> QED
        BY <2>1, <2>4, <4>1, <4>2 DEF DeletionRecorded
    <3> QED
      BY <1>1, <1>3, <1>6, <2>1, <2>4, <3>1 DEF FinishDelete, EndsDelete
  <2> QED
    BY <1>6, <2>3, <2>4 DEF FinishDelete, Persist, Observed, seen, gone, wiped
<1> QED
  BY <1>4, <1>5, <1>6 DEF Transacts

LEMMA ApplyEffects ==
    ASSUME Base, Types, NEW t \in Threads,
           \/ BeginApply(t) \/ ApplyCommand(t)
           \/ \E o \in Observations(TRUE), left \in SUBSET Parts : FinishApply(t, o, left)
    PROVE  Calm(t) \/ Transacts
<1> USE DEF Base, InTransaction
<1>1. Moved(t)
  BY BaseApplySteps
<1>2. Running
  <2>1. th[t].pc # "idle"
    BY DEF BeginApply, ApplyCommand, FinishApply
  <2> QED
    BY <2>1, RestingShape, ThreadNames DEF PhaseInv, Running
<1>3. ASSUME BeginApply(t) PROVE Calm(t) \/ BeginsApply(t)
  <2> DEFINE m == [mem EXCEPT !.pend = [op |-> "xfrm_apply", id |-> th[t].s.id]]
  <2>1. CASE Rest(t) /\ UNCHANGED <<mem, disk>> /\ healthy' = FALSE
    BY <1>1, <1>2, <1>3, <2>1, MovedRest, AimsRest DEF BeginApply, Calm, SameDisk, Notes
  <2>2. CASE /\ th' = [th EXCEPT ![t].pc = "apply", ![t].i = FirstCommand]
             /\ UNCHANGED healthy /\ disk' = m
             /\ mem' = historyAppend(m, <<Event("xfrm_apply_intent", th[t].s, th[t].s.id, NoObs)>>)
    <3>1. /\ th'[t].pc = "apply" /\ th'[t].s = th[t].s /\ th'[t].i = FirstCommand
          /\ th'[t].todo = th[t].todo /\ th'[t].now = th[t].now
      BY <2>2 DEF Shape, ThreadFields
    <3>2. /\ mem'.sess = mem.sess /\ mem'.pend = [op |-> "xfrm_apply", id |-> th[t].s.id]
          /\ disk'.sess = mem.sess /\ disk'.pend = mem'.pend /\ disk'.log = mem.log
          /\ mem'.log = mem.log \o <<Event("xfrm_apply_intent", th[t].s, th[t].s.id, NoObs)>>
      BY <2>2 DEF historyAppend, Shape, StateFields
    <3>3. clock' = clock /\ used' = used
      BY <1>3 DEF BeginApply
    <3>4. IntentRecorded(t)
      BY <3>1, <3>2, <3>3 DEF IntentRecorded, Stays
    <3> QED
      BY <1>1, <1>3, <2>2, <3>1, <3>2, <3>4 DEF BeginApply, BeginsApply, Steady
  <2> QED
    BY <1>3, <2>1, <2>2 DEF BeginApply, Persist
<1>4. ASSUME ApplyCommand(t) PROVE Applies(t)
  <2>1. CASE th' = [th EXCEPT ![t].i = th[t].i + 1] /\ UNCHANGED healthy
             /\ kern' = [kern EXCEPT ![th[t].s.id] = @ \cup {th[t].i}]
    <3>1. th'[t].pc = th[t].pc /\ th'[t].s = th[t].s /\ th'[t].i = th[t].i + 1 /\ th'[t].now = th[t].now
      BY <2>1 DEF Shape, ThreadFields
    <3> QED
      BY <1>1, <1>4, <2>1, <3>1 DEF ApplyCommand, Applies
  <2>2. CASE Rest(t) /\ healthy' = FALSE /\ UNCHANGED kern /\ Fault("command")
    BY <1>1, <1>4, <2>2, MovedRest DEF ApplyCommand, Applies
  <2> QED
    BY <1>4, <2>1, <2>2 DEF ApplyCommand
<1>5. ASSUME NEW o \in Observations(TRUE), NEW left \in SUBSET Parts, FinishApply(t, o, left)
      PROVE EndsApply(t)
  <2> DEFINE s    == th[t].s
             seen == historyAppend(mem, <<Event("xfrm_apply_observed", s, s.id, o)>>)
             live == historyAppend([seen EXCEPT !.sess = @ \cup {s}], <<PlainEvent("session_activated", s)>>)
             clear == [live EXCEPT !.pend = NoMarker]
  <2>1. /\ seen.sess = mem.sess /\ seen.pend = mem.pend
        /\ live.sess = mem.sess \cup {s} /\ live.pend = mem.pend
        /\ clear.sess = mem.sess \cup {s} /\ clear.pend = NoMarker
        /\ seen.log = mem.log \o <<Event("xfrm_apply_observed", s, s.id, o)>>
        /\ \A m \in {live, clear} : m.log = seen.log \o <<PlainEvent("session_activated", s)>>
    BY DEF historyAppend, Shape, StateFields
  <2> HIDE DEF seen, live, clear
  <2>2. th'[t] = Resting
    BY <1>5, MovedRest DEF FinishApply
  <2>6. o \in Observations(ExactlyApplied(s.id)) /\ clock' = clock /\ used' = used
    BY <1>5 DEF FinishApply
  <2>3. CASE mem' = clear /\ disk' = clear /\ UNCHANGED <<healthy, kern>> /\ observationMeetsLocalProfile(o)
    <3>1. ActivationRecorded(t)
      BY <2>1, <2>3, <2>6 DEF ActivationRecorded
    <3> QED
      BY <1>1, <1>5, <2>1, <2>2, <2>3, <3>1 DEF FinishApply, EndsApply
  <2>4. CASE mem' = live /\ UNCHANGED <<disk, kern>> /\ healthy' = FALSE /\ Fault("persist")
    <3>1. ActivationRecorded(t)
      BY <2>1, <2>4, <2>6 DEF ActivationRecorded
    <3> QED
      BY <1>1, <1>5, <2>1, <2>2, <2>4, <3>1 DEF FinishApply, EndsApply
  <2>5. CASE /\ mem' = seen /\ UNCHANGED disk /\ healthy' = FALSE
             /\ ~observationMeetsLocalProfile(o) /\ Observed(o, ExactlyApplied(s.id))
             /\ kern' = [kern EXCEPT ![s.id] = @ \cap left]
    <3>1. \A k \in Keys : kern'[k] \subseteq kern[k] /\ (k # s.id => kern'[k] = kern[k])
      BY <2>5 DEF Types, GlobalTypes
    <3>2. ExactlyApplied(s.id) => Fault("observe")
      BY <2>5 DEF Observed
    <3>3. ActivationRecorded(t)
      BY <2>1, <2>5, <2>6, <3>2 DEF ActivationRecorded
    <3> QED
      BY <1>1, <1>5, <2>1, <2>2, <2>5, <3>1, <3>2, <3>3 DEF FinishApply, EndsApply
  <2> QED
    BY <1>5, <2>3, <2>4, <2>5 DEF FinishApply, Persist, seen, live, clear
<1> QED
  BY <1>3, <1>4, <1>5 DEF Transacts

LEMMA LifeEffects ==
    ASSUME Base, Types, Boot \/ \E kept \in BOOLEAN : Crash(kept)
    PROVE  Transacts
<1> USE DEF Base
<1>1. ASSUME Boot PROVE Starts
  <2>1. mem'.sess = disk.sess /\ mem'.pend = disk.pend
    BY <1>1 DEF Boot, historyAppend, RestoredState, Shape, StateFields
  <2>2. th["main"] = Resting
    BY <1>1 DEF Boot, PhaseInv
  <2>3. StartRecorded
    <3>1. mem'.log = disk.log \o <<PlainEvent("pep_start", NoSess)>> /\ clock' = clock /\ used' = used
      BY <1>1 DEF Boot, historyAppend, RestoredState, Shape, StateFields
    <3>2. th'["main"].s = NoSess /\ th'["main"].now = 0 /\ NoSess.id = NoKey
      BY <1>1, <2>2, MovedGoto, RestingShape, ThreadNames DEF Boot, SameLocals, NoSess
    <3> QED
      BY <3>1, <3>2 DEF StartRecorded
  <2> QED
    BY <1>1, <2>1, <2>2, <2>3, MovedGoto, ThreadNames DEF Boot, Starts, Running
<1>2. ASSUME NEW kept \in BOOLEAN, Crash(kept) PROVE Dies
  <2>1. \A k \in Keys : kern'[k] \in {kern[k], {}}
    BY <1>2 DEF Crash
  <2>2. phase' = "down" /\ crashes' = crashes + 1 /\ disk' = disk /\ mem' = disk
    BY <1>2, Zenon DEF Crash
  <2> QED
    BY <1>2, <2>1, <2>2 DEF Crash, Dies
<1> QED
  BY <1>1, <1>2 DEF Transacts

LEMMA Effects ==
    ASSUME Base, Types, [Next]_vars
    PROVE  Transacts \/ \E t \in Threads : Calm(t)
<1>1. ASSUME NEW t \in Threads, Step(t) PROVE Transacts \/ Calm(t)
  BY <1>1, CalmTokenSteps, CalmEvidenceSteps, DeleteEffects, ApplyEffects DEF Step
<1> QED
  BY <1>1, CalmOtherSteps, LifeEffects DEF Next

-----------------------------------------------------------------------------
(* The record of failures only grows. *)
FaultLog == faults \in Seq(FaultKinds) /\ crashes \in Nat

Tame == Only({"network", "persist"})

LEMMA FaultSteps ==
    ASSUME [Next]_vars
    PROVE  NoFault \/ \E kind \in {"persist", "command", "observe", "network"} : Fault(kind)
<1>1. ASSUME NEW t \in Threads, Step(t)
      PROVE  NoFault \/ \E kind \in {"persist", "command", "observe", "network"} : Fault(kind)
  BY <1>1 DEF Step, CheckHealth, TakeTokenLock, TakeHistoryLock, BeginDelete, DeleteCommand, Drained,
     FinishDelete, PrepareEvidence, Post, AcceptToken, Timeout, Bind, BeginApply, ApplyCommand,
     FinishApply, Observed, NoFault
<1> QED
  BY <1>1 DEF Next, Activate, Refresh, Reap, Serve, ServeLate, Boot, validateRestoredSessions, Crash,
     Tick, vars, NoFault

LEMMA FaultRecorded ==
    ASSUME FaultLog, NEW kind, Fault(kind)
    PROVE  /\ faults' \in Seq(FaultKinds)
           /\ \A kinds : Only(kinds)' => Only(kinds) /\ kind \in kinds
<1>1. faults' = Append(faults, kind) /\ kind \in FaultKinds /\ faults \in Seq(FaultKinds)
  BY DEF Fault, FaultLog
<1>2. faults' \in Seq(FaultKinds)
  BY <1>1
<1>3. Range(faults) \subseteq Range(faults') /\ kind \in Range(faults')
  <2>1. Len(faults') = Len(faults) + 1 /\ faults'[Len(faults) + 1] = kind
        /\ \A i \in 1..Len(faults) : faults'[i] = faults[i]
    BY <1>1
  <2>2. DOMAIN faults = 1..Len(faults) /\ DOMAIN faults' = 1..(Len(faults) + 1) /\ Len(faults) \in Nat
    BY <1>1, <1>2, <2>1
  <2> QED
    BY <2>1, <2>2 DEF Range
<1> QED
  BY <1>2, <1>3 DEF Only

LEMMA TameBefore ==
    ASSUME FaultLog, [Next]_vars
    PROVE  /\ faults' \in Seq(FaultKinds)
           /\ Tame' => Tame
           /\ Tame' => \A kind : Fault(kind) => kind \in {"network", "persist"}
<1>1. CASE NoFault
  BY <1>1, FaultRecorded DEF NoFault, FaultLog, Tame, Only
<1>2. CASE \E kind \in {"persist", "command", "observe", "network"} : Fault(kind)
  BY <1>2, FaultRecorded DEF Tame
<1> QED
  BY <1>1, <1>2, FaultSteps

-----------------------------------------------------------------------------
(* The marker in memory names the transaction in progress, if any, and a   *)
(* healthy PEP has none otherwise; an apply has installed the objects up   *)
(* to its next command.                                                    *)
ApplyMarked(t) ==
    th[t].pc = "apply" =>
        /\ mem.pend.id = th[t].s.id
        /\ ApplyMode => 1..(th[t].i - 1) \subseteq kern[th[t].s.id]
        /\ ~ApplyMode => th[t].i = NCommands + 1

DeleteMarked(t) == th[t].pc = "delete" => mem.pend.id = th[t].d.id

Marked ==
    /\ FaultLog
    /\ \A t \in Threads : ApplyMarked(t) /\ DeleteMarked(t)
    /\ Running /\ healthy /\ (\A t \in Threads : th[t].pc \notin InTransaction) => mem.pend = NoMarker
    /\ ~ApplyMode => \A k \in Keys : kern[k] = {}

LEMMA NoMarkerKey == \A k \in Keys : NoMarker.id # k
<1>1. NoMarker.id = NoKey
  BY DEF NoMarker
<1> QED
  BY <1>1, ConfigAssumption

(* historyTransactionMu admits one transaction. *)
LEMMA Alone ==
    ASSUME Base, NEW t \in Threads, th[t].pc \in HistoryCS \/ histMu = Free
    PROVE  \A u \in Threads \ {t} : th[u].pc \notin InTransaction
BY ThreadNames DEF Base, LockInv, HistoryCS, InTransaction

LEMMA TransactionInCS == InTransaction \subseteq HistoryCS
BY DEF InTransaction, HistoryCS

LEMMA MarkedInit == Init => Marked
BY RestingShape DEF Init, Marked, FaultLog, ApplyMarked, DeleteMarked, InTransaction, Running

LEMMA MarkedCalm ==
    ASSUME Base, Marked, NEW t \in Threads, Calm(t), FaultLog'
    PROVE  Marked'
<1>1. \A u \in Threads : \/ th'[u] = th[u]
                         \/ th'[u].pc \notin InTransaction /\ th[u].pc \notin InTransaction
  BY DEF Calm, Moved
<1>2. \A u \in Threads : ApplyMarked(u)' /\ DeleteMarked(u)'
  BY <1>1 DEF Calm, Marked, ApplyMarked, DeleteMarked, InTransaction
<1>3. (\A u \in Threads : th'[u].pc \notin InTransaction) => \A u \in Threads : th[u].pc \notin InTransaction
  BY <1>1
<1> QED
  BY <1>2, <1>3 DEF Calm, Marked

LEMMA MarkedDelete ==
    ASSUME Base, Types, Marked, NEW t \in Threads, FaultLog',
           (\E d \in th[t].todo : BeginsDelete(t, d)) \/ Deletes(t) \/ EndsDelete(t)
    PROVE  Marked'
<1>1. th[t].pc \in HistoryCS
  BY DEF BeginsDelete, Deletes, EndsDelete, HistoryCS
<1>2. \A u \in Threads \ {t} : th[u].pc \notin InTransaction /\ th'[u].pc \notin InTransaction
  BY <1>1, Alone DEF BeginsDelete, Deletes, EndsDelete, Moved
<1>3. \A u \in Threads \ {t} : ApplyMarked(u)' /\ DeleteMarked(u)'
  BY <1>2 DEF ApplyMarked, DeleteMarked, InTransaction
<1>4. ASSUME NEW d \in th[t].todo, BeginsDelete(t, d) PROVE Marked'
  BY <1>3, <1>4 DEF BeginsDelete, Marked, ApplyMarked, DeleteMarked, InTransaction
<1>5. CASE Deletes(t)
  <2>1. ~ApplyMode => \A k \in Keys : kern'[k] = {}
    BY <1>5 DEF Deletes, Marked, Types, GlobalTypes
  <2> QED
    BY <1>3, <1>5, <2>1 DEF Deletes, Marked, ApplyMarked, DeleteMarked, InTransaction
<1>6. CASE EndsDelete(t)
  <2>1. Running' /\ healthy' => mem'.pend = NoMarker
    BY <1>6 DEF EndsDelete
  <2> QED
    BY <1>3, <1>6, <2>1 DEF EndsDelete, Marked, ApplyMarked, DeleteMarked, InTransaction
<1> QED
  BY <1>4, <1>5, <1>6

LEMMA MarkedApply ==
    ASSUME Base, Types, Marked, NEW t \in Threads, FaultLog',
           BeginsApply(t) \/ Applies(t) \/ EndsApply(t)
    PROVE  Marked'
<1>1. th[t].pc \in HistoryCS \/ histMu = Free
  BY DEF BeginsApply, Applies, EndsApply, HistoryCS
<1>2. \A u \in Threads \ {t} : th[u].pc \notin InTransaction /\ th'[u].pc \notin InTransaction
  BY <1>1, Alone DEF BeginsApply, Applies, EndsApply, Moved
<1>3. \A u \in Threads \ {t} : ApplyMarked(u)' /\ DeleteMarked(u)'
  BY <1>2 DEF ApplyMarked, DeleteMarked, InTransaction
<1>4. th[t].s.id \in Keys
  BY DEF BeginsApply, Applies, EndsApply, Types, ThreadTypes, Sessions
<1>5. CASE BeginsApply(t)
  <2>1. ApplyMode => 1..(FirstCommand - 1) = {}
    BY DEF FirstCommand
  <2>2. ApplyMarked(t)' /\ DeleteMarked(t)'
    BY <1>5, <2>1 DEF BeginsApply, ApplyMarked, DeleteMarked, FirstCommand
  <2> QED
    BY <1>3, <1>5, <2>2 DEF BeginsApply, Marked, InTransaction
<1>6. CASE Applies(t)
  <2>1. ApplyMode
    BY <1>6, ConfigAssumption DEF Applies, Marked, ApplyMarked, Parts
  <2>2. CASE /\ healthy' = healthy /\ kern' = [kern EXCEPT ![th[t].s.id] = @ \cup {th[t].i}]
             /\ th'[t].pc = "apply" /\ th'[t].s = th[t].s /\ th'[t].i = th[t].i + 1
    <3>1. kern'[th[t].s.id] = kern[th[t].s.id] \cup {th[t].i}
      BY <1>4, <2>2 DEF Types, GlobalTypes
    <3>2. 1..(th[t].i - 1) \subseteq kern[th[t].s.id] /\ th[t].i \in Nat
      BY <1>6, <2>1 DEF Applies, Marked, ApplyMarked, Parts
    <3>3. 1..((th[t].i + 1) - 1) \subseteq kern'[th[t].s.id]
      BY <3>1, <3>2
    <3>4. ApplyMarked(t)' /\ DeleteMarked(t)'
      BY <1>6, <2>1, <2>2, <3>3 DEF Applies, Marked, ApplyMarked, DeleteMarked
    <3> QED
      BY <1>3, <1>6, <2>1, <2>2, <3>4 DEF Applies, Marked, InTransaction
  <2>3. CASE ~healthy' /\ th'[t] = Resting
    BY <1>3, <2>1, <2>3, RestingShape DEF Marked, ApplyMarked, DeleteMarked
  <2> QED
    BY <1>6, <2>2, <2>3 DEF Applies
<1>7. CASE EndsApply(t)
  <2>1. ApplyMarked(t)' /\ DeleteMarked(t)'
    BY <1>7, RestingShape DEF EndsApply, ApplyMarked, DeleteMarked
  <2>2. Running' /\ healthy' => mem'.pend = NoMarker
    BY <1>7 DEF EndsApply
  <2>3. ~ApplyMode => \A k \in Keys : kern'[k] = {}
    <3> SUFFICES ASSUME ~ApplyMode PROVE \A k \in Keys : kern'[k] = {}
      OBVIOUS
    <3>1. \A k \in Keys : kern'[k] \subseteq kern[k]
      BY <1>7 DEF EndsApply
    <3> QED
      BY <3>1 DEF Marked
  <2> QED
    BY <1>3, <2>1, <2>2, <2>3 DEF Marked
<1> QED
  BY <1>5, <1>6, <1>7

LEMMA MarkedNext == Base /\ Types /\ Marked /\ [Next]_vars => Marked'
<1> SUFFICES ASSUME Base, Types, Marked, [Next]_vars PROVE Marked'
  OBVIOUS
<1>1. FaultLog'
  <2>1. crashes' = crashes \/ crashes' = crashes + 1
    <3>1. CASE \E t \in Threads : Calm(t)
      BY <3>1 DEF Calm
    <3>2. CASE Transacts
      BY <3>2, Zenon DEF Transacts, BeginsDelete, Deletes, EndsDelete, BeginsApply, Applies, EndsApply,
         Starts, Dies, Steady
    <3> QED
      BY <3>1, <3>2, Effects
  <2> QED
    BY <2>1, TameBefore DEF Marked, FaultLog
<1>2. CASE Starts
  <2>1. \A u \in Threads : th'[u].pc \notin InTransaction
    BY <1>2, RestingShape, ThreadNames DEF Starts, Moved, InTransaction, Base, PhaseInv, Running
  <2> QED
    BY <1>1, <1>2, <2>1 DEF Starts, Marked, ApplyMarked, DeleteMarked, InTransaction
<1>3. CASE Dies
  BY <1>1, <1>3, RestingShape DEF Dies, Marked, ApplyMarked, DeleteMarked, Running
<1> QED
  BY <1>1, <1>2, <1>3, Effects, MarkedCalm, MarkedDelete, MarkedApply DEF Transacts

LEMMA MarkedInvariance == Spec => []Marked
BY MarkedInit, MarkedNext, BaseInvariance, TypesInvariance, PTL DEF Spec

-----------------------------------------------------------------------------
(* As long as no command and no observation fails: each kernel object is   *)
(* accounted for in the state file, and in memory by the session table or  *)
(* the apply in progress; the marker in the state file names the           *)
(* transaction; a delete has removed the objects before its next command.  *)
Known(S, k) == \E s \in S : s.id = k
Opening(k)  == \E t \in Threads : th[t].pc = "apply" /\ th[t].s.id = k

Filed  == \A k \in Keys : kern[k] # {} => disk.pend.id = k \/ Known(disk.sess, k)
Tabled == Running => \A k \in Keys : kern[k] # {} => Known(mem.sess, k) \/ Opening(k)

ApplyFiled(t)  == th[t].pc = "apply" => disk.pend.id = th[t].s.id
DeleteFiled(t) == th[t].pc = "delete" =>
                      disk.pend.id = th[t].d.id /\ kern[th[t].d.id] \subseteq th[t].i..NCommands

AccountsHold == Filed /\ Tabled /\ \A t \in Threads : ApplyFiled(t) /\ DeleteFiled(t)

Accounted == Tame => AccountsHold

LEMMA AccountedInit == Init => Accounted
BY RestingShape DEF Init, Accounted, AccountsHold, Filed, Tabled, ApplyFiled, DeleteFiled, Running

LEMMA AccountsCalm ==
    ASSUME Base, AccountsHold, NEW t \in Threads, Calm(t)
    PROVE  AccountsHold'
<1>1. \A u \in Threads : \/ th'[u] = th[u]
                         \/ th'[u].pc \notin InTransaction /\ th[u].pc \notin InTransaction
  BY DEF Calm, Moved
<1>2. Tabled'
  <2>1. \A k \in Keys : Opening(k) => Opening(k)'
    BY <1>1 DEF Opening, InTransaction
  <2> QED
    BY <2>1 DEF Calm, AccountsHold, Tabled, Known
<1>3. CASE SameDisk
  <2>1. \A u \in Threads : ApplyFiled(u)' /\ DeleteFiled(u)'
    BY <1>1, <1>3 DEF Calm, SameDisk, AccountsHold, ApplyFiled, DeleteFiled, InTransaction
  <2>2. Filed'
    BY <1>3 DEF Calm, SameDisk, AccountsHold, Filed, Known
  <2> QED
    BY <1>2, <2>1, <2>2 DEF AccountsHold
<1>4. CASE th[t].pc \in HistoryCS /\ th[t].pc \notin InTransaction /\ th'[t].pc \notin InTransaction /\ Saved
  <2>1. \A u \in Threads : th[u].pc \notin InTransaction /\ th'[u].pc \notin InTransaction
    BY <1>1, <1>4, Alone
  <2>2. \A u \in Threads : ApplyFiled(u)' /\ DeleteFiled(u)'
    BY <2>1 DEF ApplyFiled, DeleteFiled, InTransaction
  <2>3. Running
    <3>1. th[t].pc # "idle"
      BY <1>4 DEF HistoryCS, TokenCS
    <3> QED
      BY <3>1, RestingShape, ThreadNames DEF Base, PhaseInv, Running
  <2>4. Filed'
    BY <1>4, <2>1, <2>3 DEF Calm, Saved, AccountsHold, Filed, Tabled, Known, Opening, InTransaction
  <2> QED
    BY <1>2, <2>2, <2>4 DEF AccountsHold
<1> QED
  BY <1>3, <1>4 DEF Calm

LEMMA AccountsDelete ==
    ASSUME Base, Types, Marked, AccountsHold, NEW t \in Threads, ~Fault("command"),
           (\E d \in th[t].todo : BeginsDelete(t, d)) \/ Deletes(t) \/ EndsDelete(t)
    PROVE  AccountsHold'
<1>1. th[t].pc \in HistoryCS /\ th[t].pc \in {"drain", "delete"}
  BY DEF BeginsDelete, Deletes, EndsDelete, HistoryCS
<1>2. \A u \in Threads \ {t} : th[u].pc \notin InTransaction /\ th'[u].pc \notin InTransaction
  BY <1>1, Alone DEF BeginsDelete, Deletes, EndsDelete, Moved
<1>3. \A u \in Threads \ {t} : ApplyFiled(u)' /\ DeleteFiled(u)'
  BY <1>2 DEF ApplyFiled, DeleteFiled, InTransaction
<1>4. \A k : ~Opening(k)
  BY <1>1, <1>2 DEF Opening, InTransaction
<1>5. Running
  BY <1>1, RestingShape, ThreadNames DEF Base, PhaseInv, Running
<1>6. \A k \in Keys : kern[k] # {} => Known(mem.sess, k)
  BY <1>4, <1>5 DEF AccountsHold, Tabled
<1>7. ASSUME NEW d \in th[t].todo, BeginsDelete(t, d) PROVE AccountsHold'
  <2>1. d.id \in Keys /\ kern[d.id] \subseteq Parts
    BY DEF Types, GlobalTypes, ThreadTypes, Sessions
  <2>2. kern'[d.id] \subseteq FirstCommand..NCommands
    BY <1>7, <2>1 DEF BeginsDelete, FirstCommand, Parts, Marked
  <2>3. Filed' /\ Tabled'
    BY <1>6, <1>7 DEF BeginsDelete, Filed, Tabled, Known
  <2> QED
    BY <1>3, <1>7, <2>2, <2>3 DEF BeginsDelete, AccountsHold, ApplyFiled, DeleteFiled
<1>8. CASE Deletes(t)
  <2> DEFINE k == th[t].d.id
             i == th[t].i
  <2>1. k \in Keys /\ i \in Nat
    BY <1>8 DEF Deletes, Types, ThreadTypes, Sessions
  <2>2. kern[k] \subseteq i..NCommands /\ disk.pend.id = k
    BY <1>8 DEF Deletes, AccountsHold, DeleteFiled
  <2>3. kern' = [kern EXCEPT ![k] = @ \ {i}]
    BY <1>8 DEF Deletes
  <2>4. kern'[k] \subseteq (i + 1)..NCommands
    <3>1. kern'[k] = kern[k] \ {i}
      BY <2>1, <2>3 DEF Types, GlobalTypes
    <3> QED
      BY <2>1, <2>2, <3>1, ConfigAssumption
  <2>5. \A x \in Keys : kern'[x] \subseteq kern[x]
    BY <2>3 DEF Types, GlobalTypes
  <2>6. Filed' /\ Tabled'
    <3>1. \A x \in Keys : kern'[x] # {} => kern[x] # {}
      BY <2>5
    <3> QED
      BY <1>6, <1>8, <3>1 DEF Deletes, AccountsHold, Filed, Tabled, Known
  <2> QED
    BY <1>3, <1>8, <2>2, <2>4, <2>6 DEF Deletes, AccountsHold, ApplyFiled, DeleteFiled
<1>9. CASE EndsDelete(t)
  <2> DEFINE d == th[t].d
  <2>1. kern[d.id] = {}
    <3>1. kern[d.id] \subseteq (NCommands + 1)..NCommands
      BY <1>9 DEF EndsDelete, AccountsHold, DeleteFiled
    <3> QED
      BY <3>1, ConfigAssumption
  <2>2. \A k \in Keys : kern[k] # {} => Known({s \in mem.sess : s.id # d.id}, k)
    BY <1>6, <2>1 DEF Known
  <2>3. Tabled'
    BY <1>6, <1>9, <2>2 DEF EndsDelete, Tabled, Known
  <2>4. Filed'
    <3>1. CASE disk' = disk
      BY <1>9, <3>1 DEF EndsDelete, AccountsHold, Filed, Known
    <3>2. CASE disk' = mem' /\ mem'.sess = {s \in mem.sess : s.id # th[t].d.id}
      BY <1>9, <2>2, <3>2 DEF EndsDelete, Filed, Known
    <3> QED
      BY <1>9, <3>1, <3>2 DEF EndsDelete
  <2> QED
    BY <1>3, <1>9, <2>3, <2>4 DEF EndsDelete, AccountsHold, ApplyFiled, DeleteFiled, InTransaction
<1> QED
  BY <1>7, <1>8, <1>9

LEMMA AccountsApply ==
    ASSUME Base, Types, Marked, AccountsHold, NEW t \in Threads, ~Fault("command"), ~Fault("observe"),
           BeginsApply(t) \/ Applies(t) \/ EndsApply(t)
    PROVE  AccountsHold'
<1>1. th[t].pc \in HistoryCS \/ histMu = Free
  BY DEF BeginsApply, Applies, EndsApply, HistoryCS
<1>2. \A u \in Threads \ {t} : th[u].pc \notin InTransaction /\ th'[u].pc \notin InTransaction
  BY <1>1, Alone DEF BeginsApply, Applies, EndsApply, Moved
<1>3. \A u \in Threads \ {t} : ApplyFiled(u)' /\ DeleteFiled(u)'
  BY <1>2 DEF ApplyFiled, DeleteFiled, InTransaction
<1>4. th[t].s.id \in Keys
  BY DEF BeginsApply, Applies, EndsApply, Types, ThreadTypes, Sessions
<1>5. Running
  <2>1. th[t].pc # "idle"
    BY DEF BeginsApply, Applies, EndsApply
  <2> QED
    BY <2>1, RestingShape, ThreadNames DEF Base, PhaseInv, Running
<1>6. \A k \in Keys : Opening(k) => th[t].pc = "apply" /\ th[t].s.id = k
  BY <1>2 DEF Opening, InTransaction
<1>7. \A k \in Keys : kern[k] # {} => Known(mem.sess, k) \/ Opening(k)
  BY <1>5 DEF AccountsHold, Tabled
<1>8. CASE BeginsApply(t)
  <2>1. \A k \in Keys : kern[k] # {} => Known(mem.sess, k)
    BY <1>6, <1>7, <1>8 DEF BeginsApply
  <2>2. Filed' /\ Tabled'
    BY <1>8, <2>1 DEF BeginsApply, Filed, Tabled, Known
  <2> QED
    BY <1>3, <1>8, <2>2 DEF BeginsApply, AccountsHold, ApplyFiled, DeleteFiled
<1>9. CASE Applies(t)
  <2>1. /\ kern' = [kern EXCEPT ![th[t].s.id] = @ \cup {th[t].i}]
        /\ th'[t].pc = "apply" /\ th'[t].s = th[t].s
    BY <1>9 DEF Applies
  <2>2. \A k \in Keys \ {th[t].s.id} : kern'[k] = kern[k]
    BY <2>1 DEF Types, GlobalTypes
  <2>3. disk.pend.id = th[t].s.id
    BY <1>9 DEF Applies, AccountsHold, ApplyFiled
  <2>4. Opening(th[t].s.id)'
    BY <2>1 DEF Opening
  <2>5. \A k \in Keys : k # th[t].s.id /\ kern'[k] # {} => Known(mem.sess, k) /\ (disk.pend.id = k \/ Known(disk.sess, k))
    BY <1>6, <1>7, <2>2 DEF AccountsHold, Filed
  <2>6. Filed'
    BY <1>9, <2>3, <2>5 DEF Applies, Filed
  <2>7. Tabled'
    BY <1>9, <2>4, <2>5 DEF Applies, Tabled
  <2> QED
    BY <1>3, <1>9, <2>1, <2>3, <2>6, <2>7 DEF Applies, AccountsHold, ApplyFiled, DeleteFiled
<1>10. CASE EndsApply(t)
  <2> DEFINE s == th[t].s
  <2>1. ExactlyApplied(s.id)
    <3> SUFFICES ASSUME ApplyMode PROVE kern[s.id] = Parts
      BY DEF ExactlyApplied
    <3>1. 1..(th[t].i - 1) \subseteq kern[s.id] /\ th[t].i = NCommands + 1
      BY <1>10 DEF EndsApply, Marked, ApplyMarked
    <3>2. 1..NCommands \subseteq kern[s.id]
      BY <3>1, ConfigAssumption
    <3> QED
      BY <1>4, <3>2 DEF Types, GlobalTypes, Parts
  <2>2. /\ kern' = kern /\ mem'.sess = mem.sess \cup {s}
        /\ disk' = disk \/ disk' = mem'
    BY <1>10, <2>1 DEF EndsApply
  <2>3. \A k \in Keys : kern[k] # {} => Known(mem.sess \cup {s}, k)
    BY <1>6, <1>7 DEF Known
  <2>4. Tabled'
    BY <2>2, <2>3 DEF Tabled
  <2>5. Filed'
    BY <2>2, <2>3 DEF AccountsHold, Filed, Known
  <2> QED
    BY <1>3, <1>10, <2>4, <2>5, RestingShape DEF EndsApply, AccountsHold, ApplyFiled, DeleteFiled
<1> QED
  BY <1>8, <1>9, <1>10

LEMMA AccountedNext == Base /\ Types /\ Marked /\ Accounted /\ [Next]_vars => Accounted'
<1> SUFFICES ASSUME Base, Types, Marked, Accounted, [Next]_vars, Tame' PROVE AccountsHold'
  BY DEF Accounted
<1>1. AccountsHold /\ ~Fault("command") /\ ~Fault("observe")
  BY TameBefore DEF Accounted, Marked
<1>2. CASE Starts
  <2>1. \A u \in Threads : th'[u].pc \notin InTransaction
    BY <1>2, RestingShape, ThreadNames DEF Starts, Moved, InTransaction, Base, PhaseInv, Running
  <2>2. \A k \in Keys : disk.pend.id # k
    BY <1>2, NoMarkerKey DEF Starts
  <2>3. Filed' /\ Tabled'
    BY <1>1, <1>2, <2>2 DEF Starts, AccountsHold, Filed, Tabled, Known
  <2> QED
    BY <2>1, <2>3 DEF AccountsHold, ApplyFiled, DeleteFiled, InTransaction
<1>3. CASE Dies
  BY <1>1, <1>3, RestingShape
     DEF Dies, AccountsHold, Filed, Tabled, ApplyFiled, DeleteFiled, Running, Known
<1> QED
  BY <1>1, <1>2, <1>3, Effects, AccountsCalm, AccountsDelete, AccountsApply DEF Transacts

LEMMA AccountedInvariance == Spec => []Accounted
BY AccountedInit, AccountedNext, BaseInvariance, TypesInvariance, MarkedInvariance, PTL DEF Spec

(* Every kernel object is accounted for in the state file, by a session or *)
(* by the transaction marker, whatever state writes and exchanges with the *)
(* Verifier fail and wherever the PEP crashes (activateHandler,            *)
(* cleanupExpiredSessionsUnderHistoryLock, setPendingPEPOperation).        *)
THEOREM KernelIsAccounted == Spec => []KernelAccounted
<1>1. Accounted => KernelAccounted
  BY DEF Accounted, Tame, AccountsHold, Filed, Known, KernelAccounted
<1> QED
  BY <1>1, AccountedInvariance, PTL

-----------------------------------------------------------------------------
(* The start-up: main comes to ask for a token after                       *)
(* validateRestoredSessions, and the PEP serves once it has one.           *)
Vetted == th["main"].pc \in {"token", "token_lock"} \/ tokMu = "main"

LEMMA MainStep ==
    ASSUME Base, Types, Step("main")
    PROVE  phase = "starting" /\ (phase' = "up" => Vetted) /\ (Vetted' => Vetted)
<1> DEFINE m == "main"
<1> USE ThreadNames DEF Vetted
<1>0. phase = "starting"
  <2>1. th[m].pc # "idle"
    BY DEF Step, CheckHealth, TakeTokenLock, TakeHistoryLock, BeginDelete, DeleteCommand, Drained,
       FinishDelete, PrepareEvidence, Post, AcceptToken, Timeout, Bind, BeginApply, ApplyCommand, FinishApply
  <2> QED
    BY <2>1, RestingShape DEF Base, PhaseInv
<1>1. CASE CheckHealth(m) \/ TakeTokenLock(m)
  BY <1>0, <1>1 DEF CheckHealth, TakeTokenLock
<1>2. CASE TakeHistoryLock(m)
  <2>1. th'[m].pc = "drain"
    BY <1>2 DEF TakeHistoryLock, Base, Shape, ThreadFields
  <2> QED
    BY <1>0, <1>2, <2>1 DEF TakeHistoryLock
<1>3. CASE PrepareEvidence(m) \/ Post(m) \/ AcceptToken(m) \/ Timeout(m)
  BY <1>0, <1>3 DEF Base, LockInv, TokenCS, PrepareEvidence, Post, AcceptToken, Timeout
<1>4. ASSUME DrainFailed(m) PROVE phase' # "up" /\ (Vetted' => Vetted)
  <2>1. CASE HoldsToken(m)
    BY <1>0, <1>4, <2>1, DrainFails DEF HoldsToken, Base
  <2>2. CASE ~HoldsToken(m)
    BY <1>4, <2>2, MovedRest DEF DrainFailed, HoldsToken, Release, Base
  <2> QED
    BY <2>1, <2>2
<1>5. ASSUME NEW d \in th[m].todo, BeginDelete(m, d) PROVE phase' # "up" /\ (Vetted' => Vetted)
  <2>1. CASE th' = [th EXCEPT ![m].pc = "delete", ![m].d = d, ![m].i = FirstCommand]
             /\ UNCHANGED <<phase, tokMu>>
    <3>1. th'[m].pc = "delete"
      BY <2>1 DEF Base, Shape, ThreadFields
    <3> QED
      BY <1>0, <2>1, <3>1
  <2> QED
    BY <1>4, <1>5, <2>1 DEF BeginDelete
<1>6. CASE DeleteCommand(m)
  <2>1. th'[m].pc = "delete"
    BY <1>6 DEF DeleteCommand, Base, Shape, ThreadFields
  <2> QED
    BY <1>0, <1>6, <2>1 DEF DeleteCommand
<1>7. ASSUME NEW o \in Observations(TRUE), FinishDelete(m, o) PROVE phase' # "up" /\ (Vetted' => Vetted)
  <2>1. CASE th' = [th EXCEPT ![m].pc = "drain", ![m].d = NoSess, ![m].i = 0, ![m].todo = @ \ {th[m].d}]
             /\ UNCHANGED <<phase, tokMu>>
    <3>1. th'[m].pc = "drain"
      BY <2>1 DEF Base, Shape, ThreadFields
    <3> QED
      BY <1>0, <2>1, <3>1
  <2> QED
    BY <1>4, <1>7, <2>1 DEF FinishDelete
<1>8. CASE Drained(m)
  BY <1>0, <1>8, MovedGoto DEF Drained, HoldsToken, Release, Base
<1>9. ~Bind(m) /\ ~BeginApply(m) /\ ~ApplyCommand(m) /\ \A o, left : ~FinishApply(m, o, left)
  BY DEF Types, ThreadTypes, Bind, BeginApply, ApplyCommand, FinishApply
<1> QED
  BY <1>0, <1>1, <1>2, <1>3, <1>5, <1>6, <1>7, <1>8, <1>9 DEF Step

LEMMA OtherStep ==
    ASSUME Base, NEW t \in Threads, t # "main", Step(t)
    PROVE  phase = "up" /\ phase' = "up"
<1>1. phase = "up"
  <2>1. th[t].pc # "idle"
    BY DEF Step, CheckHealth, TakeTokenLock, TakeHistoryLock, BeginDelete, DeleteCommand, Drained,
       FinishDelete, PrepareEvidence, Post, AcceptToken, Timeout, Bind, BeginApply, ApplyCommand, FinishApply
  <2> QED
    BY <2>1, RestingShape DEF Base, PhaseInv
<1>2. TokenRefused(t) \/ DrainFailed(t) => phase' = phase
  BY DEF TokenRefused, DrainFailed
<1>3. \A k : TokenReturned(t, k) => phase' = phase
  BY DEF TokenReturned
<1> QED
  BY <1>1, <1>2, <1>3 DEF Step, CheckHealth, TakeTokenLock, TakeHistoryLock, BeginDelete, DeleteCommand,
     Drained, FinishDelete, PrepareEvidence, Post, AcceptToken, Timeout, Bind, BeginApply, ApplyCommand,
     FinishApply

(* No restored session passes the validation: its observation has no source. *)
LEMMA NothingRestored ==
    ASSUME ApplyMode, validateRestoredSessions, Base
    PROVE  (phase' = "starting" => mem.sess = {}) /\ phase' # "up" /\ mem' = mem
<1>1. \A s : ~observationMeetsLocalProfile(RestoredObservation(s))
  BY DEF observationMeetsLocalProfile, RestoredObservation
<1>2. phase = "starting"
  BY RestingShape DEF validateRestoredSessions, Base, PhaseInv
<1> QED
  BY <1>1, <1>2 DEF validateRestoredSessions

LEMMA PhaseChanges ==
    ASSUME Base, Types, ApplyMode, [Next]_vars
    PROVE  /\ phase' = "up" => phase = "up" \/ (phase = "starting" /\ Vetted)
           /\ phase' = "starting" /\ Vetted' => (phase = "starting" /\ Vetted) \/ (mem.sess = {} /\ mem' = mem)
           /\ phase = "up" => phase' = "up" \/ Dies
<1>1. CASE Step("main")
  <2>1. phase = "starting" /\ (phase' = "up" => Vetted) /\ (Vetted' => Vetted)
    BY <1>1, MainStep
  <2> QED
    BY <2>1
<1>2. ASSUME NEW t \in Threads, t # "main", Step(t) PROVE phase = "up" /\ phase' = "up"
  BY <1>2, OtherStep
<1>3. CASE validateRestoredSessions
  <2>1. phase = "starting"
    BY <1>3, RestingShape DEF validateRestoredSessions, Base, PhaseInv
  <2> QED
    BY <1>3, <2>1, NothingRestored
<1>4. CASE Boot
  <2>1. tokMu # "main"
    BY <1>4, RestingShape, ThreadNames DEF Boot, Base, PhaseInv, LockInv, HistoryCS, TokenCS
  <2>2. th'["main"].pc = "history_lock"
    BY <1>4, MovedGoto, ThreadNames DEF Boot, Base
  <2>3. ~Vetted' /\ phase # "up" /\ phase' = "starting"
    BY <1>4, <2>1, <2>2 DEF Boot, Vetted
  <2> QED
    BY <2>3
<1>5. ASSUME NEW kept \in BOOLEAN, Crash(kept) PROVE Dies /\ phase' = "down"
  <2>1. \A k \in Keys : kern'[k] \in {kern[k], {}}
    BY <1>5 DEF Crash
  <2>2. phase' = "down" /\ crashes' = crashes + 1 /\ disk' = disk /\ mem' = disk
    BY <1>5, Zenon DEF Crash
  <2> QED
    BY <1>5, <2>1, <2>2 DEF Crash, Dies
<1>6. CASE Serve \/ (\E ev \in late : ServeLate(ev)) \/ Tick \/ UNCHANGED vars
  <2>1. UNCHANGED <<phase, th, tokMu>>
    BY <1>6 DEF Serve, ServeLate, Tick, vars
  <2> QED
    BY <2>1 DEF Vetted
<1>7. CASE Refresh \/ Reap \/ \E t \in Activators, k \in Keys, svc \in Services : Activate(t, k, svc)
  <2>1. phase = "up" /\ phase' = "up"
    BY <1>7 DEF Refresh, Reap, Activate
  <2> QED
    BY <2>1
<1> QED
  BY <1>1, <1>2, <1>3, <1>4, <1>5, <1>6, <1>7 DEF Next

(* Before the PEP first serves there is nothing, and no session survives   *)
(* the validation of a restart.                                            *)
Fresh ==
    /\ ApplyMode /\ phase = "starting" /\ Vetted => mem.sess = {}
    /\ ApplyMode /\ crashes = 0 /\ phase # "up" =>
           mem.sess = {} /\ disk.sess = {} /\ \A k \in Keys : kern[k] = {}

LEMMA FreshInit == Init => Fresh
BY DEF Init, Fresh, Empty

LEMMA SessionsShrink ==
    ASSUME Base, Types, [Next]_vars, phase # "up", ~Starts, ~Dies
    PROVE  /\ mem'.sess \subseteq mem.sess /\ disk'.sess \subseteq disk.sess \cup mem.sess
           /\ \A k \in Keys : kern'[k] \subseteq kern[k]
<1>1. ASSUME NEW t \in Threads, th[t].pc \in {"apply_lock", "apply"} PROVE FALSE
  BY <1>1, RestingShape, ThreadNames DEF Base, PhaseInv, Types, ThreadTypes
<1>2. CASE \E t \in Threads : Calm(t)
  BY <1>2 DEF Calm, SameDisk, Saved
<1>3. ASSUME NEW t \in Threads, NEW d \in th[t].todo, BeginsDelete(t, d)
      PROVE mem'.sess = mem.sess /\ disk'.sess = mem.sess /\ kern' = kern
  BY <1>3 DEF BeginsDelete
<1>4. ASSUME NEW t \in Threads, Deletes(t)
      PROVE mem' = mem /\ disk' = disk /\ \A k \in Keys : kern'[k] \subseteq kern[k]
  BY <1>4 DEF Deletes, Types, GlobalTypes
<1>5. ASSUME NEW t \in Threads, EndsDelete(t)
      PROVE mem'.sess \subseteq mem.sess /\ disk'.sess \in {disk.sess, mem'.sess} /\ kern' = kern
  BY <1>5 DEF EndsDelete
<1>6. ASSUME NEW t \in Threads PROVE ~BeginsApply(t) /\ ~Applies(t) /\ ~EndsApply(t)
  BY <1>1 DEF BeginsApply, Applies, EndsApply
<1> QED
  BY <1>2, <1>3, <1>4, <1>5, <1>6, Effects DEF Transacts

LEMMA FreshNext == Base /\ Types /\ Marked /\ Fresh /\ [Next]_vars => Fresh'
<1> SUFFICES ASSUME Base, Types, Marked, Fresh, [Next]_vars, ApplyMode PROVE Fresh'
  BY DEF Fresh
<1>1. ASSUME phase' = "starting", Vetted' PROVE mem'.sess = {}
  <2>1. CASE phase = "starting" /\ Vetted
    <3>1. ~Starts /\ ~Dies
      BY <1>1, <2>1 DEF Starts, Dies, Running
    <3> QED
      BY <2>1, <3>1, SessionsShrink DEF Fresh
  <2> QED
    BY <1>1, <2>1, PhaseChanges
<1>2. ASSUME crashes' = 0, phase' # "up"
      PROVE mem'.sess = {} /\ disk'.sess = {} /\ \A k \in Keys : kern'[k] = {}
  <2>1. ~Dies
    BY <1>2 DEF Dies, Marked, FaultLog
  <2>2. phase # "up"
    BY <1>2, <2>1, PhaseChanges
  <2>3. CASE Starts
    BY <1>2, <2>2, <2>3 DEF Starts, Fresh
  <2>4. CASE ~Starts
    <3>1. crashes = 0
      <4>1. CASE \E t \in Threads : Calm(t)
        BY <1>2, <4>1 DEF Calm
      <4>2. CASE Transacts
        BY <1>2, <2>1, <2>4, <4>2 DEF Transacts, BeginsDelete, Deletes, EndsDelete, BeginsApply, Applies,
           EndsApply, Steady
      <4> QED
        BY <4>1, <4>2, Effects
    <3>2. mem.sess = {} /\ disk.sess = {} /\ \A k \in Keys : kern[k] = {}
      BY <2>2, <3>1 DEF Fresh
    <3> QED
      BY <2>1, <2>2, <2>4, <3>2, SessionsShrink
  <2> QED
    BY <2>3, <2>4
<1> QED
  BY <1>1, <1>2 DEF Fresh

LEMMA FreshInvariance == Spec => []Fresh
BY FreshInit, FreshNext, BaseInvariance, TypesInvariance, MarkedInvariance, PTL DEF Spec

-----------------------------------------------------------------------------
(* The table and the kernel. *)
Matches(k) == kern[k] = IF \E s \in mem.sess : s.id = k THEN Parts ELSE {}

Trusted == crashes = 0 \/ Tame

Premise == phase = "up" /\ healthy /\ ApplyMode /\ ObserverMode # "ebpf" /\ Trusted

LEMMA TableServing ==
    ASSUME Base, Types, Marked, Accounted, Fresh, [Next]_vars, phase # "up", Premise', Trusted
    PROVE  TableIsKernel'
<1>1. phase = "starting" /\ Vetted /\ ApplyMode
  BY PhaseChanges DEF Premise
<1>2. \E t \in Threads : Calm(t)
  BY Effects, <1>1 DEF Transacts, BeginsDelete, Deletes, EndsDelete, BeginsApply, Applies, EndsApply, Starts,
     Dies, Steady, Premise, Running
<1>3. kern' = kern /\ mem'.sess = {}
  BY <1>1, <1>2 DEF Calm, Fresh
<1>4. \A k \in Keys : kern[k] = {}
  <2>1. CASE crashes = 0
    BY <1>1, <2>1 DEF Fresh
  <2>2. CASE Tame
    <3>1. \A k \in Keys : ~Opening(k)
      BY <1>1, ThreadNames, RestingShape DEF Opening, Base, PhaseInv, Types, ThreadTypes
    <3> QED
      BY <1>1, <2>2, <3>1 DEF Accounted, AccountsHold, Tabled, Running, Fresh, Known
  <2> QED
    BY <2>1, <2>2 DEF Trusted
<1> QED
  BY <1>3, <1>4 DEF TableIsKernel

LEMMA TableServed ==
    ASSUME Base, Types, Marked, [Next]_vars, Premise, Premise', TableIsKernel
    PROVE  TableIsKernel'
<1> USE DEF Premise
<1>1. \A k \in Keys : k # mem.pend.id => Matches(k)
  BY DEF TableIsKernel, Matches, Trusted, Tame
<1>2. SUFFICES \A k \in Keys : k # mem'.pend.id => Matches(k)'
  BY DEF TableIsKernel, Matches
<1>3. ASSUME NEW t \in Threads, th[t].pc \notin InTransaction, th[t].pc \in HistoryCS \/ histMu = Free
      PROVE \A k \in Keys : Matches(k)
  <2>1. mem.pend = NoMarker
    BY <1>3, Alone DEF Marked, Running
  <2> QED
    BY <1>1, <2>1, NoMarkerKey
<1>4. CASE \E t \in Threads : Calm(t)
  BY <1>1, <1>4 DEF Calm, Matches
<1>5. ASSUME NEW t \in Threads, NEW d \in th[t].todo, BeginsDelete(t, d)
      PROVE \A k \in Keys : Matches(k)'
  <2>1. \A k \in Keys : Matches(k)
    BY <1>3, <1>5 DEF BeginsDelete, InTransaction, HistoryCS
  <2> QED
    BY <1>5, <2>1 DEF BeginsDelete, Matches
<1>6. ASSUME NEW t \in Threads, Deletes(t) PROVE \A k \in Keys : k # mem'.pend.id => Matches(k)'
  <2>1. mem.pend.id = th[t].d.id
    BY <1>6 DEF Deletes, Marked, DeleteMarked
  <2>2. \A k \in Keys : k # th[t].d.id => kern'[k] = kern[k]
    BY <1>6 DEF Deletes, Types, GlobalTypes
  <2> QED
    BY <1>1, <1>6, <2>1, <2>2 DEF Deletes, Matches
<1>7. ASSUME NEW t \in Threads, EndsDelete(t) PROVE \A k \in Keys : k # mem'.pend.id => Matches(k)'
  <2>1. mem.pend.id = th[t].d.id
    BY <1>7 DEF EndsDelete, Marked, DeleteMarked
  <2>2. /\ kern' = kern /\ kern[th[t].d.id] = {}
        /\ mem'.sess = {s \in mem.sess : s.id # th[t].d.id}
    BY <1>7 DEF EndsDelete
  <2> QED
    BY <1>1, <2>1, <2>2 DEF Matches
<1>8. ASSUME NEW t \in Threads, BeginsApply(t) PROVE \A k \in Keys : Matches(k)'
  <2>1. \A k \in Keys : Matches(k)
    BY <1>3, <1>8 DEF BeginsApply, InTransaction
  <2> QED
    BY <1>8, <2>1 DEF BeginsApply, Matches
<1>9. ASSUME NEW t \in Threads, Applies(t) PROVE \A k \in Keys : k # mem'.pend.id => Matches(k)'
  <2>1. mem.pend.id = th[t].s.id
    BY <1>9 DEF Applies, Marked, ApplyMarked
  <2>2. \A k \in Keys : k # th[t].s.id => kern'[k] = kern[k]
    BY <1>9 DEF Applies, Types, GlobalTypes
  <2> QED
    BY <1>1, <1>9, <2>1, <2>2 DEF Applies, Matches
<1>10. ASSUME NEW t \in Threads, EndsApply(t) PROVE \A k \in Keys : k # mem'.pend.id => Matches(k)'
  <2>1. mem.pend.id = th[t].s.id /\ 1..(th[t].i - 1) \subseteq kern[th[t].s.id] /\ th[t].i = NCommands + 1
    BY <1>10 DEF EndsApply, Marked, ApplyMarked
  <2>2. th[t].s.id \in Keys
    BY <1>10 DEF EndsApply, Types, ThreadTypes, Sessions
  <2>3. kern[th[t].s.id] = Parts
    <3>1. 1..NCommands \subseteq kern[th[t].s.id]
      BY <2>1, ConfigAssumption
    <3> QED
      BY <2>2, <3>1 DEF Types, GlobalTypes, Parts
  <2>4. kern' = kern /\ mem'.sess = mem.sess \cup {th[t].s}
    BY <1>10 DEF EndsApply
  <2> QED
    BY <1>1, <2>1, <2>3, <2>4 DEF Matches
<1>11. ~Starts /\ ~Dies
  BY DEF Starts, Dies, Running
<1> QED
  BY <1>4, <1>5, <1>6, <1>7, <1>8, <1>9, <1>10, <1>11, Effects DEF Transacts

LEMMA TableNext ==
    Base /\ Types /\ Marked /\ Accounted /\ Fresh /\ TableIsKernel /\ [Next]_vars => TableIsKernel'
<1> SUFFICES ASSUME Base, Types, Marked, Accounted, Fresh, TableIsKernel, [Next]_vars, Premise'
             PROVE  TableIsKernel'
  BY DEF TableIsKernel, Premise, Trusted, Tame
<1>1. ~Dies
  BY DEF Dies, Premise
<1>2. Trusted
  <2>1. crashes' = 0 => crashes = 0
    <3>1. CASE \E t \in Threads : Calm(t)
      BY <3>1 DEF Calm
    <3>2. CASE Transacts
      BY <1>1, <3>2 DEF Transacts, BeginsDelete, Deletes, EndsDelete, BeginsApply, Applies, EndsApply,
         Starts, Steady
    <3> QED
      BY <3>1, <3>2, Effects
  <2> QED
    BY <2>1, TameBefore DEF Trusted, Premise, Marked
<1>3. CASE phase # "up"
  BY <1>2, <1>3, TableServing
<1>4. CASE phase = "up"
  <2>1. healthy
    <3>1. CASE \E t \in Threads : Calm(t)
      BY <3>1 DEF Calm, Premise
    <3>2. CASE Transacts
      BY <1>1, <1>4, <3>2 DEF Transacts, BeginsDelete, Deletes, EndsDelete, BeginsApply, Applies, EndsApply,
         Starts, Steady, Premise, Running
    <3> QED
      BY <3>1, <3>2, Effects
  <2> QED
    BY <1>2, <1>4, <2>1, TableServed DEF Premise
<1> QED
  BY <1>3, <1>4

(* A healthy PEP that serves has exactly the tunnels of its session table, *)
(* the one in transaction aside, after restarts that kept or lost the      *)
(* kernel state (validateRestoredSessions, activateHandler,                *)
(* cleanupExpiredSessionsUnderHistoryLock).                                *)
THEOREM TableMatchesKernel == Spec => []TableIsKernel
<1>1. Init => TableIsKernel
  BY DEF Init, TableIsKernel
<1> QED
  BY <1>1, TableNext, BaseInvariance, TypesInvariance, MarkedInvariance, AccountedInvariance, FreshInvariance,
     PTL DEF Spec

-----------------------------------------------------------------------------
(* Addresses.  The ones in use were handed out, and no two sessions, in    *)
(* the table, in the making or in the state file, have the same.           *)
Holders == mem.sess \cup {th[t].s : t \in Activators}

Addresses ==
    /\ \A t \in Activators : th[t].pc = "idle" => th[t].s = NoSess
    /\ Running => \A s \in Holders : s.ip <= next
    /\ Running => \A s, u \in Holders : s.ip = u.ip => s.id = u.id
    /\ \A s, u \in disk.sess : s.ip = u.ip => s.id = u.id

LEMMA AddressesInit == Init => Addresses
BY RestingShape, ThreadNames DEF Init, Addresses, Empty, Running

(* What a thread's step does to the session it is making. *)
Keeps(t) ==
    /\ next' = next
    /\ \/ th'[t].s = NoSess
       \/ th'[t].s.id = th[t].s.id /\ th'[t].s.ip = th[t].s.ip /\ th'[t].pc # "idle"

LEMMA KeepsGoto ==
    ASSUME Base, NEW t \in Threads, next' = next, NEW pc, pc # "idle", Goto(t, pc)
    PROVE  Keeps(t)
BY MovedGoto DEF Base, SameLocals, Keeps

LEMMA KeepsRest ==
    ASSUME Base, NEW t \in Threads, next' = next, Rest(t) \/ TokenRefused(t) \/ DrainFailed(t)
    PROVE  Keeps(t)
<1>1. CASE Rest(t)
  BY <1>1, MovedRest, RestingShape DEF Base, Keeps
<1>2. CASE TokenRefused(t)
  BY <1>2, MovedRefused, RestingShape DEF Base, Keeps
<1> QED
  BY <1>1, <1>2 DEF DrainFailed

LEMMA KeepsReturned ==
    ASSUME Base, NEW t \in Threads, next' = next, NEW k, TokenReturned(t, k)
    PROVE  Keeps(t)
BY MovedReturned, RestingShape DEF Base, SameLocals, Keeps

LEMMA KeepsStep ==
    ASSUME Base, NEW t \in Threads, Step(t)
    PROVE  Keeps(t)
<1>0. next' = next
  BY DEF Step, CheckHealth, TakeTokenLock, TakeHistoryLock, BeginDelete, DeleteCommand, Drained,
     FinishDelete, PrepareEvidence, Post, AcceptToken, Timeout, Bind, BeginApply, ApplyCommand, FinishApply
<1>1. CASE CheckHealth(t) \/ TakeTokenLock(t)
  BY <1>0, <1>1, KeepsGoto, KeepsRest, KeepsReturned DEF CheckHealth, TakeTokenLock
<1>2. CASE Drained(t) \/ PrepareEvidence(t) \/ Post(t)
  BY <1>0, <1>2, KeepsGoto, KeepsRest DEF Drained, PrepareEvidence, Post
<1>3. CASE AcceptToken(t) \/ Timeout(t)
  BY <1>0, <1>3, KeepsRest, KeepsReturned DEF AcceptToken, Timeout
<1>4. CASE TakeHistoryLock(t)
  <2>1. th'[t].s = th[t].s /\ th'[t].pc = "drain"
    BY <1>4 DEF TakeHistoryLock, Base, Shape, ThreadFields
  <2> QED
    BY <1>0, <2>1 DEF Keeps
<1>5. ASSUME NEW d \in th[t].todo, BeginDelete(t, d) PROVE Keeps(t)
  <2>1. CASE th' = [th EXCEPT ![t].pc = "delete", ![t].d = d, ![t].i = FirstCommand]
    <3>1. th'[t].s = th[t].s /\ th'[t].pc = "delete"
      BY <2>1 DEF Base, Shape, ThreadFields
    <3> QED
      BY <1>0, <3>1 DEF Keeps
  <2> QED
    BY <1>0, <1>5, <2>1, KeepsRest DEF BeginDelete
<1>6. CASE DeleteCommand(t)
  <2>1. th'[t].s = th[t].s /\ th'[t].pc = "delete"
    BY <1>6 DEF DeleteCommand, Base, Shape, ThreadFields
  <2> QED
    BY <1>0, <2>1 DEF Keeps
<1>7. ASSUME NEW o, FinishDelete(t, o) PROVE Keeps(t)
  <2>1. CASE th' = [th EXCEPT ![t].pc = "drain", ![t].d = NoSess, ![t].i = 0, ![t].todo = @ \ {th[t].d}]
    <3>1. th'[t].s = th[t].s /\ th'[t].pc = "drain"
      BY <2>1 DEF Base, Shape, ThreadFields
    <3> QED
      BY <1>0, <3>1 DEF Keeps
  <2> QED
    BY <1>0, <1>7, <2>1, KeepsRest DEF FinishDelete
<1>8. CASE Bind(t)
  <2>1. CASE th' = [th EXCEPT ![t].pc = "apply_lock", ![t].s.exp = clock + boundLifetime(th[t].tok)]
    <3>1. th'[t].s = [th[t].s EXCEPT !.exp = clock + boundLifetime(th[t].tok)] /\ th'[t].pc = "apply_lock"
      BY <2>1 DEF Base, Shape, ThreadFields
    <3>2. th'[t].s.id = th[t].s.id /\ th'[t].s.ip = th[t].s.ip
      BY <3>1 DEF Base, Shape, SessFields
    <3> QED
      BY <1>0, <3>1, <3>2 DEF Keeps
  <2> QED
    BY <1>0, <1>8, <2>1, KeepsRest DEF Bind
<1>9. CASE BeginApply(t)
  <2>1. CASE th' = [th EXCEPT ![t].pc = "apply", ![t].i = FirstCommand]
    <3>1. th'[t].s = th[t].s /\ th'[t].pc = "apply"
      BY <2>1 DEF Base, Shape, ThreadFields
    <3> QED
      BY <1>0, <3>1 DEF Keeps
  <2> QED
    BY <1>0, <1>9, <2>1, KeepsRest DEF BeginApply
<1>10. CASE ApplyCommand(t)
  <2>1. CASE th' = [th EXCEPT ![t].i = th[t].i + 1]
    <3>1. th'[t].s = th[t].s /\ th'[t].pc = "apply"
      BY <1>10, <2>1 DEF ApplyCommand, Base, Shape, ThreadFields
    <3> QED
      BY <1>0, <3>1 DEF Keeps
  <2> QED
    BY <1>0, <1>10, <2>1, KeepsRest DEF ApplyCommand
<1>11. ASSUME NEW o, NEW left, FinishApply(t, o, left) PROVE Keeps(t)
  BY <1>0, <1>11, KeepsRest DEF FinishApply
<1> QED
  BY <1>1, <1>2, <1>3, <1>4, <1>5, <1>6, <1>7, <1>8, <1>9, <1>10, <1>11 DEF Step

(* A step that hands out no address keeps the addresses apart. *)
LEMMA AddressesKept ==
    ASSUME Types, Addresses, Types', next' = next, Running' => Running,
           \A t \in Activators : th'[t].pc = "idle" => th'[t].s = NoSess,
           \A s \in Holders' : s = NoSess \/ \E u \in Holders : u.ip = s.ip /\ u.id = s.id,
           \/ disk'.sess = disk.sess
           \/ Running /\ \A s \in disk'.sess : \E u \in Holders : u.ip = s.ip /\ u.id = s.id
    PROVE  Addresses'
<1>1. \A s \in Holders : s = NoSess \/ s.ip >= 1
  <2>1. \A s \in mem.sess : s.ip \in 1..MaxHost
    BY DEF Types, GlobalTypes, Sessions
  <2>2. \A t \in Activators : th[t].s = NoSess \/ th[t].s.ip \in 1..MaxHost
    BY ThreadNames DEF Types, ThreadTypes, Addresses, Drafts
  <2> QED
    BY <2>1, <2>2, ConfigAssumption DEF Holders
<1>2. NoSess.ip = 0
  BY DEF NoSess
<1>3. ASSUME Running' PROVE \A s \in Holders' : s.ip <= next'
  BY <1>2, <1>3 DEF Addresses, Types, GlobalTypes
<1>4. ASSUME Running' PROVE \A s, u \in Holders' : s.ip = u.ip => s.id = u.id
  <2>1. \A s, u \in Holders : s.ip = u.ip => s.id = u.id
    BY <1>4 DEF Addresses
  <2> SUFFICES ASSUME NEW s \in Holders', NEW u \in Holders', s.ip = u.ip PROVE s.id = u.id
    OBVIOUS
  <2>2. CASE s = NoSess /\ u # NoSess
    <3>1. PICK v \in Holders : v.ip = u.ip /\ v.id = u.id
      BY <2>2
    <3>2. v = NoSess
      BY <1>1, <1>2, <2>2, <3>1
    <3> QED
      BY <2>2, <3>1, <3>2
  <2>3. CASE u = NoSess /\ s # NoSess
    <3>1. PICK v \in Holders : v.ip = s.ip /\ v.id = s.id
      BY <2>3
    <3>2. v = NoSess
      BY <1>1, <1>2, <2>3, <3>1
    <3> QED
      BY <2>3, <3>1, <3>2
  <2>4. CASE s # NoSess /\ u # NoSess
    BY <2>1, <2>4
  <2> QED
    BY <2>2, <2>3, <2>4
<1>5. \A s, u \in disk'.sess : s.ip = u.ip => s.id = u.id
  <2>1. CASE disk'.sess = disk.sess
    BY <2>1 DEF Addresses
  <2>2. CASE Running /\ \A s \in disk'.sess : \E u \in Holders : u.ip = s.ip /\ u.id = s.id
    BY <2>2 DEF Addresses
  <2> QED
    BY <2>1, <2>2
<1> QED
  BY <1>3, <1>4, <1>5 DEF Addresses

LEMMA AddressesStep ==
    ASSUME Base, Types, Marked, Types', Addresses, [Next]_vars, NEW t \in Threads, Step(t)
    PROVE  Addresses'
<1> DEFINE Contained == mem'.sess \subseteq Holders /\ (disk'.sess = disk.sess \/ disk'.sess \subseteq Holders)
<1>1. Keeps(t)
  BY KeepsStep
<1>2. Moved(t)
  BY BaseTokenSteps, BaseDeleteSteps, BaseEvidenceSteps, BaseApplySteps DEF Step
<1>3. Running
  <2>1. th[t].pc # "idle"
    BY DEF Step, CheckHealth, TakeTokenLock, TakeHistoryLock, BeginDelete, DeleteCommand, Drained,
       FinishDelete, PrepareEvidence, Post, AcceptToken, Timeout, Bind, BeginApply, ApplyCommand, FinishApply
  <2> QED
    BY <2>1, RestingShape, ThreadNames DEF Base, PhaseInv, Running
<1>4. crashes' = crashes
  BY DEF Step, CheckHealth, TakeTokenLock, TakeHistoryLock, BeginDelete, DeleteCommand, Drained,
     FinishDelete, PrepareEvidence, Post, AcceptToken, Timeout, Bind, BeginApply, ApplyCommand, FinishApply
<1>5. Contained
  <2>1. CASE \E u \in Threads : Calm(u)
    BY <2>1 DEF Calm, Holders, SameDisk, Saved
  <2>2. ASSUME NEW u \in Threads,
               \/ \E d \in th[u].todo : BeginsDelete(u, d)
               \/ Deletes(u) \/ EndsDelete(u) \/ BeginsApply(u) \/ Applies(u)
        PROVE Contained
    BY <2>2 DEF BeginsDelete, Deletes, EndsDelete, BeginsApply, Applies, Holders
  <2>3. ASSUME NEW u \in Threads, EndsApply(u) PROVE Contained
    <3>1. u \in Activators
      BY <2>3 DEF EndsApply, Types, ThreadTypes
    <3> QED
      BY <2>3, <3>1 DEF EndsApply, Holders
  <2>4. ~Starts
    BY <1>3 DEF Starts
  <2>5. ~Dies
    BY <1>4 DEF Dies, Marked, FaultLog
  <2> QED
    BY <2>1, <2>2, <2>3, <2>4, <2>5, Effects DEF Transacts
<1>6. \A u \in Activators : \/ th'[u].s = NoSess
                            \/ th'[u].s.id = th[u].s.id /\ th'[u].s.ip = th[u].s.ip
  BY <1>1, <1>2, ThreadNames DEF Keeps, Moved
<1>7. \A u \in Activators : th'[u].pc = "idle" => th'[u].s = NoSess
  BY <1>1, <1>2, ThreadNames DEF Keeps, Moved, Addresses
<1>8. \A s \in Holders' : s = NoSess \/ \E u \in Holders : u.ip = s.ip /\ u.id = s.id
  <2> TAKE s \in Holders'
  <2>1. CASE s \in mem'.sess
    BY <1>5, <2>1
  <2>2. ASSUME NEW u \in Activators, s = th'[u].s
        PROVE s = NoSess \/ \E v \in Holders : v.ip = s.ip /\ v.id = s.id
    <3>1. th[u].s \in Holders
      BY DEF Holders
    <3> QED
      BY <1>6, <2>2, <3>1
  <2> QED
    BY <2>1, <2>2 DEF Holders
<1> QED
  BY <1>1, <1>3, <1>5, <1>7, <1>8, AddressesKept DEF Keeps

LEMMA AddressesActivate ==
    ASSUME Base, Types, Types', Addresses, NEW t \in Activators, NEW k \in Keys, NEW svc \in Services, Activate(t, k, svc)
    PROVE  Addresses'
<1>1. next' = next + 1 /\ next \in Nat
  <2>1. next' = next + 1
    BY Zenon DEF Activate
  <2> QED
    BY <2>1 DEF Types, GlobalTypes
<1>2. mem' = mem /\ disk' = disk /\ phase' = phase /\ phase = "up"
  BY DEF Activate
<1>3. \A s \in Holders : s.ip <= next /\ (s = NoSess \/ s.ip \in Nat)
  <2>1. \A s \in mem.sess : s.ip \in 1..MaxHost
    BY DEF Types, GlobalTypes, Sessions
  <2>2. \A u \in Activators : th[u].s = NoSess \/ th[u].s.ip \in 1..MaxHost
    BY ThreadNames DEF Types, ThreadTypes, Addresses, Drafts
  <2> QED
    BY <1>2, <2>1, <2>2, ConfigAssumption DEF Addresses, Running, Holders
<1>4. NoSess.ip = 0
  BY DEF NoSess
<1>5. CASE th' = th
  BY <1>1, <1>2, <1>3, <1>4, <1>5 DEF Addresses, Holders, Running
<1>6. CASE th' = [th EXCEPT ![t] = [Resting EXCEPT !.pc = "token",
                                    !.s = [id |-> k, ip |-> next', exp |-> NoTime, svc |-> svc]]]
  <2>1. th'[t].s = [id |-> k, ip |-> next', exp |-> NoTime, svc |-> svc] /\ th'[t].pc = "token"
    BY <1>6, ThreadNames, RestingShape DEF Base, Shape, ThreadFields
  <2>2. \A u \in Activators \ {t} : th'[u] = th[u]
    BY <1>6, ThreadNames DEF Base, Shape
  <2>3. \A s \in Holders' : s \in Holders \/ (s.ip = next' /\ s.id = k)
    BY <1>2, <2>1, <2>2 DEF Holders
  <2>4. \A s \in Holders' : s.ip <= next'
    BY <1>1, <1>3, <1>4, <2>3
  <2>5. \A s \in Holders : s.ip # next'
    BY <1>1, <1>3, <1>4
  <2>6. \A s, u \in Holders' : s.ip = u.ip => s.id = u.id
    BY <1>2, <2>3, <2>5 DEF Addresses, Running
  <2> QED
    BY <1>2, <2>1, <2>2, <2>4, <2>6 DEF Addresses
<1> QED
  BY <1>5, <1>6 DEF Activate

LEMMA AddressesOther ==
    ASSUME Base, Types, Types', Addresses,
           \/ Refresh \/ Reap \/ Boot \/ validateRestoredSessions
           \/ Serve \/ (\E ev \in late : ServeLate(ev)) \/ Tick
           \/ \E kept \in BOOLEAN : Crash(kept)
           \/ UNCHANGED vars
    PROVE  Addresses'
<1> USE ThreadNames
<1>1. CASE Boot
  <2>1. mem'.sess = disk.sess /\ disk' = disk
    BY <1>1 DEF Boot, historyAppend, RestoredState, Base, Shape, StateFields
  <2>2. \A u \in Activators : th'[u] = Resting
    BY <1>1, MovedGoto DEF Boot, Base, PhaseInv, Moved
  <2>3. \A s \in disk.sess : s.ip <= next' /\ s.ip \in 1..MaxHost
    BY <1>1, HighestProperty DEF Boot, Types, GlobalTypes, Sessions
  <2>4. next' \in Nat
    BY DEF Types, GlobalTypes
  <2>5. Holders' \subseteq disk.sess \cup {NoSess} /\ NoSess.ip = 0
    BY <2>1, <2>2, RestingShape DEF Holders, NoSess
  <2>6. \A s \in Holders' : s.ip <= next'
    BY <2>3, <2>4, <2>5
  <2>7. \A s, u \in Holders' : s.ip = u.ip => s.id = u.id
    BY <2>3, <2>5, ConfigAssumption DEF Addresses
  <2> QED
    BY <2>1, <2>2, <2>6, <2>7, RestingShape DEF Addresses
<1>2. CASE \E kept \in BOOLEAN : Crash(kept)
  <2>1. phase' = "down" /\ disk' = disk /\ \A u \in Activators : th'[u] = Resting
    BY <1>2 DEF Crash
  <2> QED
    BY <2>1, RestingShape DEF Addresses, Running
<1>3. CASE Refresh \/ Reap \/ validateRestoredSessions \/ Serve \/ (\E ev \in late : ServeLate(ev)) \/ Tick
           \/ UNCHANGED vars
  <2>1. next' = next /\ mem' = mem /\ disk' = disk
    BY <1>3 DEF Refresh, Reap, validateRestoredSessions, Serve, ServeLate, Tick, vars
  <2>2. \A u \in Activators : th'[u] = th[u]
    <3>1. CASE Refresh
      BY <3>1, MovedGoto DEF Refresh, Base, Moved
    <3>2. CASE Reap
      BY <3>2 DEF Reap, Base, Shape
    <3>3. CASE validateRestoredSessions
      BY <3>3, MovedGoto, MovedRest DEF validateRestoredSessions, Base, Moved
    <3>4. CASE th' = th
      BY <3>4
    <3> QED
      BY <1>3, <3>1, <3>2, <3>3, <3>4 DEF Serve, ServeLate, Tick, vars
  <2>3. Running' => Running
    BY <1>3, RestingShape
       DEF Refresh, Reap, validateRestoredSessions, Serve, ServeLate, Tick, vars, Running, Base, PhaseInv
  <2>4. Holders' = Holders
    BY <2>1, <2>2 DEF Holders
  <2> QED
    BY <2>1, <2>2, <2>3, <2>4 DEF Addresses
<1> QED
  BY <1>1, <1>2, <1>3

LEMMA AddressesNext == Base /\ Types /\ Marked /\ Addresses /\ [Next]_vars => Addresses'
<1> SUFFICES ASSUME Base, Types, Marked, Addresses, [Next]_vars PROVE Addresses'
  OBVIOUS
<1>1. Types'
  BY TypesNext
<1> QED
  BY <1>1, AddressesStep, AddressesActivate, AddressesOther DEF Next

(* No two sessions of the table or in the making share an inner address or *)
(* ReqID, although the allocators restart from the restored sessions       *)
(* (allocateClientInnerIP, initAllocators).                                *)
THEOREM AddressesDistinct == Spec => []DistinctAddresses
<1>1. Addresses => DistinctAddresses
  BY DEF Addresses, DistinctAddresses, Holders
<1> QED
  BY <1>1, AddressesInit, AddressesNext, BaseInvariance, TypesInvariance, MarkedInvariance, PTL DEF Spec

-----------------------------------------------------------------------------
(* What the history says.  Events are of these kinds, with these fields.   *)
PEPEvents ==
    {e \in [type : AllowedTypes, key : Keys \cup {NoKey}, service : Services \cup {NoService},
            whole : BOOLEAN, plan : Keys \cup {NoPlan}, exp : Int, ts : Int,
            obs : {NoObs} \cup Observations(TRUE) \cup Observations(FALSE)] :
        IF e.type \in SessionTypes THEN e.key \in Keys /\ (e.whole <=> e.service # NoService)
        ELSE e.service = NoService}

LEMMA SessionEventIn ==
    ASSUME Types, NEW s \in Sessions, NEW type \in SessionTypes, NEW plan \in Keys \cup {NoPlan},
           NEW o \in {NoObs} \cup Observations(TRUE) \cup Observations(FALSE)
    PROVE  /\ Event(type, s, plan, o) \in PEPEvents
           /\ Event(type, s, plan, o) = [type |-> type, key |-> s.id, service |-> s.svc, whole |-> s.svc # NoService,
                                         plan |-> plan, exp |-> s.exp, ts |-> clock, obs |-> o]
<1>0. MaxTime \in Int /\ SALifetime \in Int
  BY ConfigAssumption
<1>1. s.id \in Keys /\ s.svc \in Services /\ s.exp \in Int /\ clock \in Int /\ type \in AllowedTypes
  <2>1. s.id \in Keys /\ s.svc \in Services /\ s.exp \in 0..(MaxTime + SALifetime) /\ clock \in 0..MaxTime
    BY DEF Sessions, Types, GlobalTypes
  <2>2. type \in AllowedTypes
    BY DEF AllowedTypes
  <2> QED
    BY <1>0, <2>1, <2>2
<1>3. Event(type, s, plan, o) = [type |-> type, key |-> s.id, service |-> s.svc, whole |-> s.svc # NoService,
                                 plan |-> plan, exp |-> s.exp, ts |-> clock, obs |-> o]
  BY DEF Event
<1> DEFINE e == [type |-> type, key |-> s.id, service |-> s.svc, whole |-> s.svc # NoService,
                 plan |-> plan, exp |-> s.exp, ts |-> clock, obs |-> o]
           O == {NoObs} \cup Observations(TRUE) \cup Observations(FALSE)
<1>4. e \in PEPEvents
  <2>1. o \in O
    OBVIOUS
  <2> HIDE DEF O
  <2>2. e \in [type : AllowedTypes, key : Keys \cup {NoKey}, service : Services \cup {NoService},
               whole : BOOLEAN, plan : Keys \cup {NoPlan}, exp : Int, ts : Int, obs : O]
    BY <1>1, <2>1
  <2> QED
    BY <1>1, <2>2 DEF PEPEvents, O
<1> QED
  BY <1>3, <1>4

LEMMA RemarkIn ==
    ASSUME Types, NEW type \in AllowedTypes \ SessionTypes
    PROVE  /\ PlainEvent(type, NoSess) \in PEPEvents
           /\ PlainEvent(type, NoSess).type = type /\ PlainEvent(type, NoSess).key = NoKey
           /\ PlainEvent(type, NoSess).service = NoService
<1>1. NoSess.id = NoKey /\ NoSess.svc = NoService /\ NoSess.exp \in Int /\ clock \in Int
  BY ConfigAssumption DEF NoSess, NoTime, Types, GlobalTypes
<1>2. PlainEvent(type, NoSess) = [type |-> type, key |-> NoKey, service |-> NoService, whole |-> FALSE,
                                  plan |-> NoPlan, exp |-> NoSess.exp, ts |-> clock, obs |-> NoObs]
  BY <1>1 DEF PlainEvent, Event
<1> QED
  BY <1>1, <1>2 DEF PEPEvents

LEMMA RemarkTypes == {"pep_start", "capacity_requested", "capacity_accepted"} \subseteq AllowedTypes \ SessionTypes
BY DEF AllowedTypes, SessionTypes

LEMMA RangeOfConcat ==
    ASSUME NEW S, NEW a \in Seq(S), NEW b \in Seq(S)
    PROVE  a \o b \in Seq(S) /\ Range(a \o b) = Range(a) \cup Range(b)
<1>1. /\ a \o b \in Seq(S) /\ DOMAIN a = 1..Len(a) /\ DOMAIN b = 1..Len(b) /\ Len(a) \in Nat /\ Len(b) \in Nat
      /\ DOMAIN (a \o b) = 1..(Len(a) + Len(b))
      /\ \A i \in 1..Len(a) : (a \o b)[i] = a[i]
      /\ \A i \in 1..Len(b) : (a \o b)[Len(a) + i] = b[i]
  OBVIOUS
<1> DEFINE c == a \o b
<1> HIDE DEF c
<1>2. ASSUME NEW x \in Range(c) PROVE x \in Range(a) \cup Range(b)
  <2>1. PICK i \in 1..(Len(a) + Len(b)) : c[i] = x
    BY <1>1, <1>2 DEF Range, c
  <2>2. i \in 1..Len(a) \/ (i - Len(a) \in 1..Len(b) /\ Len(a) + (i - Len(a)) = i)
    BY <1>1
  <2> QED
    BY <1>1, <2>1, <2>2 DEF Range, c
<1>3. Range(a) \subseteq Range(c)
  BY <1>1 DEF Range, c
<1>4. Range(b) \subseteq Range(c)
  <2>1. \A i \in 1..Len(b) : Len(a) + i \in 1..(Len(a) + Len(b))
    BY <1>1
  <2> QED
    BY <1>1, <2>1 DEF Range, c
<1> QED
  BY <1>1, <1>2, <1>3, <1>4 DEF c

LEMMA RangeOfPrefix ==
    ASSUME NEW a, NEW b, IsLog(a), IsLog(b), IsPrefix(a, b)
    PROVE  Range(a) \subseteq Range(b)
<1>1. Len(a) <= Len(b) /\ \A i \in 1..Len(a) : a[i] = b[i]
  BY PrefixElements
<1>2. DOMAIN a = 1..Len(a) /\ DOMAIN b = 1..Len(b) /\ Len(a) \in Nat /\ Len(b) \in Nat
  BY DEF IsLog
<1> QED
  BY <1>1, <1>2 DEF Range

LEMMA RangeOfShort ==
    /\ Range(<<>>) = {}
    /\ \A a : Range(<<a>>) = {a}
    /\ \A a, b : Range(<<a, b>>) = {a, b}
<1>1. \A a : Range(<<a>>) = {a}
  <2> TAKE a
  <2>1. DOMAIN <<a>> = {1} /\ <<a>>[1] = a
    OBVIOUS
  <2> QED
    BY <2>1 DEF Range
<1>2. \A a, b : Range(<<a, b>>) = {a, b}
  <2> TAKE a, b
  <2>1. DOMAIN <<a, b>> = {1, 2} /\ <<a, b>>[1] = a /\ <<a, b>>[2] = b
    OBVIOUS
  <2> QED
    BY <2>1 DEF Range
<1>3. Range(<<>>) = {}
  BY DEF Range
<1> QED
  BY <1>1, <1>2, <1>3

(* The events a step appends to log are es, about session k at most. *)
LEMMA AppendedEvents ==
    ASSUME NEW log \in Seq(PEPEvents), NEW e \in PEPEvents
    PROVE  /\ log \o <<e>> \in Seq(PEPEvents) /\ Range(log \o <<e>>) = Range(log) \cup {e}
           /\ log \o <<e>> = Append(log, e)
<1>1. <<e>> \in Seq(PEPEvents) /\ log \o <<e>> = Append(log, e)
  OBVIOUS
<1> QED
  BY <1>1, RangeOfConcat, RangeOfShort

LEMMA AppendedTwo ==
    ASSUME NEW log \in Seq(PEPEvents), NEW a \in PEPEvents, NEW b \in PEPEvents
    PROVE  /\ log \o <<a, b>> \in Seq(PEPEvents) /\ Range(log \o <<a, b>>) = Range(log) \cup {a, b}
           /\ log \o <<a, b>> = Append(Append(log, a), b)
<1>1. <<a, b>> \in Seq(PEPEvents)
  OBVIOUS
<1>2. log \o <<a, b>> = Append(Append(log, a), b)
  <2> DEFINE one == log \o <<a, b>>
             two == Append(Append(log, a), b)
  <2>1. /\ one \in Seq(PEPEvents) /\ Len(one) = Len(log) + 2
        /\ \A i \in 1..Len(log) : one[i] = log[i]
        /\ one[Len(log) + 1] = a /\ one[Len(log) + 2] = b
    BY <1>1
  <2>2. /\ two \in Seq(PEPEvents) /\ Len(two) = Len(log) + 2
        /\ \A i \in 1..Len(log) : two[i] = log[i]
        /\ two[Len(log) + 1] = a /\ two[Len(log) + 2] = b
    OBVIOUS
  <2>3. Len(log) \in Nat
    OBVIOUS
  <2> HIDE DEF one, two
  <2>4. \A i \in 1..(Len(log) + 2) : one[i] = two[i]
    BY <2>1, <2>2, <2>3
  <2>5. one = [i \in 1..Len(one) |-> one[i]] /\ two = [i \in 1..Len(two) |-> two[i]]
    BY <2>1, <2>2
  <2>6. one = two
    BY <2>1, <2>2, <2>4, <2>5
  <2> QED
    BY <2>6 DEF one, two
<1>3. log \o <<a, b>> \in Seq(PEPEvents) /\ Range(log \o <<a, b>>) = Range(log) \cup Range(<<a, b>>)
  BY <1>1, RangeOfConcat, Zenon
<1>4. Range(<<a, b>>) = {a, b}
  BY RangeOfShort, Zenon
<1> QED
  BY <1>2, <1>3, <1>4, Zenon

Mentioned(log, k) == \E e \in Range(log) : e.key = k
Activated(log, k) == \E e \in Range(log) : e.type = "session_activated" /\ e.key = k
Closed(log, k)    == \E e \in Range(log) : /\ e.type = "xfrm_delete_observed" /\ e.key = k
                                           /\ ProfileSatisfied(e.obs)

LEMMA IntendedIs == \A log, k : Intended(log, k) <=> \E e \in Range(log) : e.type = "xfrm_apply_intent" /\ e.key = k
BY DEF Intended, Range

LEMMA ObservationIn ==
    ASSUME NEW X \in BOOLEAN, NEW o \in Observations(X)
    PROVE  o \in {NoObs} \cup Observations(TRUE) \cup Observations(FALSE)
OBVIOUS

(* What the steps add to the history, in these terms. *)
About(e, type, s, plan, o) ==
    /\ e \in PEPEvents
    /\ e = [type |-> type, key |-> s.id, service |-> s.svc, whole |-> s.svc # NoService,
            plan |-> plan, exp |-> s.exp, ts |-> clock, obs |-> o]

Remark(e) == e \in PEPEvents /\ e.key = NoKey /\ e.service = NoService /\ e.type \in AllowedTypes \ SessionTypes

Adds(log, e) == /\ mem'.log = Append(log, e) /\ mem'.log \in Seq(PEPEvents)
                /\ Range(mem'.log) = Range(log) \cup {e}

AddsTwo(log, a, b) == /\ mem'.log = Append(Append(log, a), b) /\ mem'.log \in Seq(PEPEvents)
                      /\ Range(mem'.log) = Range(log) \cup {a, b}

Logs == mem.log \in Seq(PEPEvents) /\ disk.log \in Seq(PEPEvents)

LEMMA SessionEventAbout ==
    ASSUME Types, NEW s \in Sessions, NEW type \in SessionTypes, NEW o \in {NoObs} \cup Observations(TRUE) \cup Observations(FALSE)
    PROVE  About(Event(type, s, s.id, o), type, s, s.id, o) /\ About(PlainEvent(type, s), type, s, NoPlan, NoObs)
<1>1. s.id \in Keys \cup {NoPlan} /\ NoPlan \in Keys \cup {NoPlan}
  BY DEF Sessions
<1>2. About(Event(type, s, s.id, o), type, s, s.id, o)
  BY <1>1, SessionEventIn, Zenon DEF About
<1>3. NoObs \in {NoObs} \cup Observations(TRUE) \cup Observations(FALSE)
  OBVIOUS
<1>4. About(Event(type, s, NoPlan, NoObs), type, s, NoPlan, NoObs)
  BY <1>1, <1>3, SessionEventIn, Zenon DEF About
<1> QED
  BY <1>2, <1>4 DEF PlainEvent

LEMMA CalmHistory ==
    ASSUME Types, Logs, NEW t \in Threads, Calm(t)
    PROVE  mem'.log = mem.log \/ \E e : Remark(e) /\ Adds(mem.log, e)
<1>1. ASSUME NEW type \in {"capacity_requested", "capacity_accepted"},
             mem'.log = mem.log \o <<PlainEvent(type, NoSess)>>
      PROVE  \E e : Remark(e) /\ Adds(mem.log, e)
  <2> DEFINE e == PlainEvent(type, NoSess)
  <2>1. type \in AllowedTypes \ SessionTypes
    BY RemarkTypes
  <2>2. e \in PEPEvents /\ e.type = type /\ e.key = NoKey /\ e.service = NoService
    BY <2>1, RemarkIn, Zenon
  <2> HIDE DEF e
  <2>3. mem'.log = mem.log \o <<e>>
    BY <1>1 DEF e
  <2>4. Adds(mem.log, e)
    BY <2>2, <2>3, AppendedEvents DEF Adds, Logs
  <2> QED
    BY <2>1, <2>2, <2>4 DEF Remark
<1> QED
  BY <1>1 DEF Calm, Notes

LEMMA StartHistory ==
    ASSUME Types, Logs, Starts
    PROVE  \E e : Remark(e) /\ Adds(disk.log, e)
<1> DEFINE e == PlainEvent("pep_start", NoSess)
<1>1. "pep_start" \in AllowedTypes \ SessionTypes
  BY RemarkTypes
<1>2. e \in PEPEvents /\ e.type = "pep_start" /\ e.key = NoKey /\ e.service = NoService
  BY <1>1, RemarkIn, Zenon
<1>3. mem'.log = disk.log \o <<e>>
  BY DEF Starts, StartRecorded
<1> HIDE DEF e
<1>4. Adds(disk.log, e)
  BY <1>2, <1>3, AppendedEvents DEF Adds, Logs
<1> QED
  BY <1>1, <1>2, <1>4 DEF Remark

LEMMA ExpiryHistory ==
    ASSUME Types, Logs, NEW t \in Threads, NEW d \in Sessions, BeginsDelete(t, d)
    PROVE  \E a, b : /\ About(a, "session_expired", d, NoPlan, NoObs) /\ About(b, "xfrm_delete_intent", d, d.id, NoObs)
                     /\ AddsTwo(mem.log, a, b)
<1> DEFINE a == PlainEvent("session_expired", d)
           b == Event("xfrm_delete_intent", d, d.id, NoObs)
<1>1. "session_expired" \in SessionTypes /\ "xfrm_delete_intent" \in SessionTypes
      /\ NoObs \in {NoObs} \cup Observations(TRUE) \cup Observations(FALSE)
  BY DEF SessionTypes
<1>2. About(a, "session_expired", d, NoPlan, NoObs)
  BY <1>1, SessionEventAbout, Zenon
<1>3. About(b, "xfrm_delete_intent", d, d.id, NoObs)
  BY <1>1, SessionEventAbout, Zenon
<1>4. mem'.log = mem.log \o <<a, b>>
  BY DEF BeginsDelete, ExpiryRecorded
<1> HIDE DEF a, b
<1>5. a \in PEPEvents /\ b \in PEPEvents /\ mem.log \in Seq(PEPEvents)
  BY <1>2, <1>3 DEF About, Logs
<1>6. /\ mem.log \o <<a, b>> \in Seq(PEPEvents) /\ Range(mem.log \o <<a, b>>) = Range(mem.log) \cup {a, b}
      /\ mem.log \o <<a, b>> = Append(Append(mem.log, a), b)
  BY <1>5, AppendedTwo, Zenon
<1>7. AddsTwo(mem.log, a, b)
  BY <1>4, <1>6, Zenon DEF AddsTwo
<1> QED
  BY <1>2, <1>3, <1>7

LEMMA DeletionHistory ==
    ASSUME Types, Logs, NEW t \in Threads, EndsDelete(t)
    PROVE  LET d == th[t].d IN
           \E o, e :
             /\ o \in Observations(ExactlyDeleted(d.id))
             /\ About(e, "xfrm_delete_observed", d, d.id, o) /\ Adds(mem.log, e)
             /\ \/ /\ observationMeetsLocalProfile(o) /\ disk' = mem'
                   /\ mem'.sess = {s \in mem.sess : s.id # d.id} /\ th'[t].pc = "drain"
                   /\ th'[t].s = th[t].s /\ th'[t].todo = th[t].todo \ {d} /\ th'[t].now = th[t].now
                \/ Fault("persist") /\ Stops(t)
                \/ (ExactlyDeleted(d.id) => Fault("observe")) /\ Stops(t)
<1> DEFINE d == th[t].d
<1>1. PICK o \in Observations(ExactlyDeleted(d.id)) :
             /\ mem'.log = mem.log \o <<Event("xfrm_delete_observed", d, d.id, o)>>
             /\ \/ /\ observationMeetsLocalProfile(o) /\ disk' = mem'
                   /\ mem'.sess = {s \in mem.sess : s.id # d.id} /\ th'[t].pc = "drain"
                   /\ th'[t].s = th[t].s /\ th'[t].todo = th[t].todo \ {d} /\ th'[t].now = th[t].now
                \/ Fault("persist") /\ Stops(t)
                \/ (ExactlyDeleted(d.id) => Fault("observe")) /\ Stops(t)
  BY Zenon DEF EndsDelete, DeletionRecorded
<1> DEFINE e == Event("xfrm_delete_observed", d, d.id, o)
<1>2. "xfrm_delete_observed" \in SessionTypes /\ d \in Sessions
  BY DEF SessionTypes, EndsDelete, Types, ThreadTypes
<1>3. o \in {NoObs} \cup Observations(TRUE) \cup Observations(FALSE)
  <2>1. ExactlyDeleted(d.id) \in BOOLEAN
    BY ConfigAssumption DEF ExactlyDeleted
  <2> QED
    BY <2>1, ObservationIn
<1>4. About(e, "xfrm_delete_observed", d, d.id, o)
  BY <1>2, <1>3, SessionEventAbout, Zenon
<1>5. mem'.log = mem.log \o <<e>>
  BY <1>1
<1> HIDE DEF e
<1>6. Adds(mem.log, e)
  BY <1>4, <1>5, AppendedEvents DEF Adds, Logs, About
<1> QED
  BY <1>1, <1>4, <1>6, Zenon

LEMMA IntentHistory ==
    ASSUME Types, Logs, NEW t \in Threads, BeginsApply(t)
    PROVE  \E e : About(e, "xfrm_apply_intent", th[t].s, th[t].s.id, NoObs) /\ Adds(mem.log, e)
<1> DEFINE s == th[t].s
           e == Event("xfrm_apply_intent", s, s.id, NoObs)
<1>1. "xfrm_apply_intent" \in SessionTypes /\ s \in Sessions
      /\ NoObs \in {NoObs} \cup Observations(TRUE) \cup Observations(FALSE)
  BY DEF SessionTypes, BeginsApply, Types, ThreadTypes
<1>2. About(e, "xfrm_apply_intent", s, s.id, NoObs)
  BY <1>1, SessionEventAbout, Zenon
<1>3. mem'.log = mem.log \o <<e>>
  BY DEF BeginsApply, IntentRecorded
<1> HIDE DEF e
<1>4. Adds(mem.log, e)
  BY <1>2, <1>3, AppendedEvents DEF Adds, Logs, About
<1> QED
  BY <1>2, <1>4

LEMMA ActivationHistory ==
    ASSUME Types, Logs, NEW t \in Threads, EndsApply(t)
    PROVE  LET s == th[t].s IN
           \E o, a, b :
             /\ o \in Observations(ExactlyApplied(s.id))
             /\ About(a, "xfrm_apply_observed", s, s.id, o) /\ About(b, "session_activated", s, NoPlan, NoObs)
             /\ \/ /\ observationMeetsLocalProfile(o) /\ disk' = mem'
                   /\ AddsTwo(mem.log, a, b) /\ mem'.sess = mem.sess \cup {s}
                \/ /\ Fault("persist") /\ disk' = disk
                   /\ AddsTwo(mem.log, a, b) /\ mem'.sess = mem.sess \cup {s}
                \/ /\ ExactlyApplied(s.id) => Fault("observe")
                   /\ disk' = disk /\ Adds(mem.log, a) /\ mem'.sess = mem.sess
<1> DEFINE s == th[t].s
           A(o) == Event("xfrm_apply_observed", s, s.id, o)
           b == PlainEvent("session_activated", s)
<1>1. PICK o \in Observations(ExactlyApplied(s.id)) :
             \/ /\ observationMeetsLocalProfile(o) /\ disk' = mem'
                /\ mem'.log = (mem.log \o <<A(o)>>) \o <<b>> /\ mem'.sess = mem.sess \cup {s}
             \/ /\ Fault("persist") /\ disk' = disk
                /\ mem'.log = (mem.log \o <<A(o)>>) \o <<b>> /\ mem'.sess = mem.sess \cup {s}
             \/ /\ ExactlyApplied(s.id) => Fault("observe")
                /\ disk' = disk /\ mem'.log = mem.log \o <<A(o)>> /\ mem'.sess = mem.sess
  BY Zenon DEF EndsApply, ActivationRecorded
<1> DEFINE a == A(o)
<1>2. "xfrm_apply_observed" \in SessionTypes /\ "session_activated" \in SessionTypes /\ s \in Sessions
  BY DEF SessionTypes, EndsApply, Types, ThreadTypes
<1>3. o \in {NoObs} \cup Observations(TRUE) \cup Observations(FALSE)
  <2>1. ExactlyApplied(s.id) \in BOOLEAN
    BY ConfigAssumption DEF ExactlyApplied
  <2> QED
    BY <2>1, ObservationIn
<1>4. About(a, "xfrm_apply_observed", s, s.id, o) /\ About(b, "session_activated", s, NoPlan, NoObs)
  BY <1>2, <1>3, SessionEventAbout, Zenon
<1> HIDE DEF s, A, a, b
<1>5. a \in PEPEvents /\ b \in PEPEvents /\ mem.log \in Seq(PEPEvents)
  BY <1>4 DEF About, Logs
<1>6. /\ mem.log \o <<a>> = Append(mem.log, a) /\ mem.log \o <<a>> \in Seq(PEPEvents)
      /\ Range(mem.log \o <<a>>) = Range(mem.log) \cup {a}
  BY <1>5, AppendedEvents
<1>7. /\ (mem.log \o <<a>>) \o <<b>> = Append(Append(mem.log, a), b) /\ (mem.log \o <<a>>) \o <<b>> \in Seq(PEPEvents)
      /\ Range((mem.log \o <<a>>) \o <<b>>) = Range(mem.log) \cup {a, b}
  <2> DEFINE l == mem.log \o <<a>>
  <2>1. l \in Seq(PEPEvents) /\ l = Append(mem.log, a) /\ Range(l) = Range(mem.log) \cup {a}
    BY <1>6
  <2> HIDE DEF l
  <2>2. l \o <<b>> = Append(l, b) /\ l \o <<b>> \in Seq(PEPEvents) /\ Range(l \o <<b>>) = Range(l) \cup {b}
    BY <1>5, <2>1, AppendedEvents
  <2>3. Range(l) \cup {b} = Range(mem.log) \cup {a, b}
    BY <2>1
  <2>4. l \o <<b>> = Append(Append(mem.log, a), b)
    BY <2>1, <2>2, Zenon
  <2> QED
    BY <2>2, <2>3, <2>4 DEF l
<1>8. mem'.log = (mem.log \o <<a>>) \o <<b>> => AddsTwo(mem.log, a, b)
  BY <1>7, Zenon DEF AddsTwo
<1>9. mem'.log = mem.log \o <<a>> => Adds(mem.log, a)
  BY <1>6, Zenon DEF Adds
<1>10. A(o) = a
  BY DEF a
<1>11. \/ /\ observationMeetsLocalProfile(o) /\ disk' = mem'
          /\ AddsTwo(mem.log, a, b) /\ mem'.sess = mem.sess \cup {s}
       \/ /\ Fault("persist") /\ disk' = disk
          /\ AddsTwo(mem.log, a, b) /\ mem'.sess = mem.sess \cup {s}
       \/ /\ ExactlyApplied(s.id) => Fault("observe")
          /\ disk' = disk /\ Adds(mem.log, a) /\ mem'.sess = mem.sess
  BY <1>1, <1>8, <1>9, <1>10, Zenon
<1> QED
  BY <1>4, <1>11, Zenon DEF s

-----------------------------------------------------------------------------
(* The story.  Whatever fails: a session is not mentioned in the history   *)
(* before its transaction; the sessions of the table are recorded as       *)
(* activated, one for each key; the history knows no more of a session in  *)
(* its apply transaction than the intent; and what a cleanup is about to   *)
(* delete is in the table and has expired.                                 *)
Virgin ==
    /\ \A k \in Keys : k \notin used => ~Mentioned(mem.log, k)
    /\ \A t \in Activators : th[t].s.id \in Keys =>
         /\ th[t].s.id \in used
         /\ th[t].pc # "apply" => ~Mentioned(mem.log, th[t].s.id)
         /\ \A u \in Activators \ {t} : th[u].s.id # th[t].s.id

Unique(S)   == \A s, u \in S : s.id = u.id => s = u
Recorded(m) == Unique(m.sess) /\ \A s \in m.sess : Activated(m.log, s.id)

Opened(t) ==
    th[t].pc = "apply" =>
        /\ disk.pend # NoMarker
        /\ Intended(mem.log, th[t].s.id)
        /\ \A e \in Range(mem.log) : e.key = th[t].s.id => e.type = "xfrm_apply_intent"

Due(t) ==
    /\ th[t].now \in 0..clock
    /\ th[t].pc \in {"drain", "delete"} => th[t].todo \subseteq mem.sess /\ \A d \in th[t].todo : d.exp <= clock
    /\ th[t].pc = "delete" => th[t].d \in th[t].todo
    /\ th[t].pc = "apply_lock" => th[t].s.exp <= clock + MaxSALifetime

Story == Logs /\ Virgin /\ Recorded(mem) /\ Recorded(disk) /\ \A t \in Threads : Opened(t) /\ Due(t)

LEMMA StoryInit == Init => Story
<1> SUFFICES ASSUME Init PROVE Story
  OBVIOUS
<1>1. mem.log = <<>> /\ disk.log = <<>> /\ mem.sess = {} /\ disk.sess = {}
  BY DEF Init, Empty
<1>2. Logs
  BY <1>1 DEF Logs
<1>3. \A k : ~Mentioned(mem.log, k)
  BY <1>1, RangeOfShort DEF Mentioned
<1>4. \A t \in Threads : th[t] = Resting /\ NoSess.id = NoKey
  BY DEF Init, NoSess
<1>5. Virgin
  BY <1>3, <1>4, RestingShape, ThreadNames, ConfigAssumption DEF Virgin
<1>6. \A t \in Threads : Opened(t) /\ Due(t)
  BY <1>4, RestingShape DEF Opened, Due, Init
<1> QED
  BY <1>1, <1>2, <1>5, <1>6 DEF Story, Recorded, Unique

(* Nobody else is in a critical section of historyTransactionMu. *)
LEMMA OneInside ==
    ASSUME Base, NEW t \in Threads, th[t].pc \in HistoryCS \/ histMu = Free
    PROVE  \A u \in Threads \ {t} : th[u].pc \notin HistoryCS
BY ThreadNames DEF Base, LockInv

LEMMA DueOther ==
    ASSUME Types, NEW u \in Threads, Due(u), th'[u] = th[u], clock' \in {clock, clock + 1},
           th[u].pc \in {"drain", "delete"} => mem'.sess = mem.sess
    PROVE  Due(u)'
<1>1. clock \in Int /\ clock <= clock' /\ clock' \in Int /\ MaxSALifetime \in Int
  BY ConfigAssumption DEF Types, GlobalTypes
<1>2. \A d \in th[u].todo : d.exp \in Int
  <2>1. MaxTime \in Int /\ SALifetime \in Int
    BY ConfigAssumption
  <2> QED
    BY <2>1 DEF Types, ThreadTypes, Sessions
<1>3. th[u].pc = "apply_lock" => th[u].s.exp \in Int
  <2>1. MaxTime \in Int /\ SALifetime \in Int
    BY ConfigAssumption
  <2> QED
    BY <2>1 DEF Types, ThreadTypes, Sessions
<1>4. th'[u].now \in 0..clock'
  BY <1>1 DEF Due
<1>5. th'[u].pc \in {"drain", "delete"} => th'[u].todo \subseteq mem'.sess /\ \A d \in th'[u].todo : d.exp <= clock'
  BY <1>1, <1>2 DEF Due
<1>6. th'[u].pc = "apply_lock" => th'[u].s.exp <= clock' + MaxSALifetime
  BY <1>1, <1>3 DEF Due
<1> QED
  BY <1>4, <1>5, <1>6 DEF Due

(* A step of t that mentions at most the session t is applying. *)
LEMMA VirginStep ==
    ASSUME Virgin, NEW t \in Threads, \A u \in Threads \ {t} : th'[u] = th[u], used' = used,
           th'[t].s.id \in {NoKey, th[t].s.id},
           \/ /\ th[t].pc # "apply"
              /\ \A k \in Keys : Mentioned(mem'.log, k) => Mentioned(mem.log, k)
           \/ /\ t \in Activators /\ th[t].s.id \in Keys /\ (th'[t].s.id = NoKey \/ th'[t].pc = "apply")
              /\ \A k \in Keys : Mentioned(mem'.log, k) => Mentioned(mem.log, k) \/ k = th[t].s.id
    PROVE  Virgin'
<1>1. NoKey \notin Keys
  BY ConfigAssumption
<1>2. \A k \in Keys : k \notin used' => ~Mentioned(mem'.log, k)
  BY DEF Virgin
<1>3. ASSUME NEW u \in Activators, th'[u].s.id \in Keys
      PROVE  /\ th[u].s.id = th'[u].s.id /\ th'[u].s.id \in used'
             /\ th'[u].pc # "apply" => ~Mentioned(mem'.log, th'[u].s.id)
  BY <1>1, <1>3, ThreadNames DEF Virgin
<1>4. ASSUME NEW u \in Activators, th'[u].s.id \in Keys, NEW v \in Activators \ {u}
      PROVE  th'[v].s.id # th'[u].s.id
  <2>1. th[u].s.id = th'[u].s.id
    BY <1>3, <1>4
  <2>2. CASE th'[v].s.id \in Keys
    <3>1. th[v].s.id = th'[v].s.id
      BY <1>3, <2>2
    <3> QED
      BY <1>4, <2>1, <3>1 DEF Virgin
  <2> QED
    BY <1>4, <2>2
<1> QED
  BY <1>2, <1>3, <1>4 DEF Virgin

LEMMA VirginCalm ==
    ASSUME Virgin, NEW t \in Threads, Calm(t),
           \A k \in Keys : Mentioned(mem'.log, k) => Mentioned(mem.log, k)
    PROVE  Virgin'
<1>1. NoKey \notin Keys
  BY ConfigAssumption
<1>2. used \subseteq used'
  BY DEF Calm, Notes
<1>3. \A k \in Keys : k \notin used' => ~Mentioned(mem'.log, k)
  BY <1>2 DEF Virgin
<1>4. CASE th' = th
  BY <1>2, <1>3, <1>4 DEF Virgin
<1>5. CASE Moved(t) /\ th[t].pc \notin InTransaction /\ th'[t].pc \notin InTransaction /\ Aims(t)
  <2>1. \A u \in Threads \ {t} : th'[u] = th[u]
    BY <1>5 DEF Moved
  <2>2. th[t].pc # "apply" /\ th'[t].pc # "apply"
    BY <1>5 DEF InTransaction
  <2>3. \/ th'[t].s.id \in {NoKey, th[t].s.id}
        \/ t \in Activators /\ th'[t].s.id \in Keys \ used /\ used' = used \cup {th'[t].s.id}
    BY <1>5 DEF Aims
  <2>4. ASSUME NEW u \in Activators, th'[u].s.id \in Keys
        PROVE  /\ th'[u].s.id \in used'
               /\ th'[u].pc # "apply" => ~Mentioned(mem'.log, th'[u].s.id)
               /\ th[u].s.id = th'[u].s.id \/ (u = t /\ th'[u].s.id \notin used)
    <3>1. CASE u # t \/ th'[t].s.id = th[t].s.id
      BY <1>2, <2>1, <2>2, <2>4, <3>1, ThreadNames DEF Virgin
    <3>2. CASE u = t /\ th'[t].s.id \in Keys \ used /\ used' = used \cup {th'[t].s.id}
      BY <3>2 DEF Virgin
    <3> QED
      BY <1>1, <2>3, <2>4, <3>1, <3>2
  <2>5. ASSUME NEW u \in Activators, th'[u].s.id \in Keys, NEW v \in Activators \ {u}
        PROVE  th'[v].s.id # th'[u].s.id
    <3>1. CASE th'[v].s.id \in Keys
      <4>1. th[u].s.id = th'[u].s.id \/ (u = t /\ th'[u].s.id \notin used)
        BY <2>4, <2>5
      <4>2. th[v].s.id = th'[v].s.id \/ (v = t /\ th'[v].s.id \notin used)
        BY <2>4, <3>1
      <4> QED
        BY <2>5, <3>1, <4>1, <4>2 DEF Virgin
    <3> QED
      BY <2>5, <3>1
  <2> QED
    BY <1>3, <2>4, <2>5 DEF Virgin
<1> QED
  BY <1>4, <1>5 DEF Calm

LEMMA StoryCalm ==
    ASSUME Base, Types, Types', Story, NEW t \in Threads, Calm(t)
    PROVE  Story'
<1>1. mem'.log = mem.log \/ \E e : Remark(e) /\ Adds(mem.log, e)
  BY CalmHistory DEF Story
<1>2. /\ mem'.log \in Seq(PEPEvents) /\ Range(mem.log) \subseteq Range(mem'.log)
      /\ \A e \in Range(mem'.log) : e \in Range(mem.log) \/ e.key = NoKey
  BY <1>1 DEF Story, Logs, Adds, Remark
<1>3. NoKey \notin Keys
  BY ConfigAssumption
<1>4. disk' = disk \/ (th[t].pc \in TokenCS /\ disk' = mem')
  BY DEF Calm, Notes
<1>5. Logs'
  BY <1>2, <1>4 DEF Story, Logs
<1>6. Virgin'
  BY <1>2, <1>3, VirginCalm DEF Story, Mentioned
<1>7. Recorded(mem)' /\ Recorded(disk)'
  <2>1. Recorded(mem)'
    BY <1>2 DEF Calm, Story, Recorded, Activated
  <2> QED
    BY <1>4, <2>1 DEF Story, Recorded
<1>8. ASSUME NEW u \in Threads PROVE Opened(u)'
  <2> SUFFICES ASSUME th'[u].pc = "apply" PROVE Opened(u)'
    BY DEF Opened
  <2>1. th'[u] = th[u] /\ th[u].pc = "apply"
    BY DEF Calm, Moved, InTransaction
  <2>2. disk' = disk
    <3>1. CASE th[t].pc \in TokenCS
      <4>1. th[t].pc \in HistoryCS /\ th[t].pc # "apply" /\ th[u].pc \in HistoryCS
        BY <2>1, <3>1 DEF HistoryCS, TokenCS
      <4> QED
        BY <2>1, <4>1, OneInside
    <3> QED
      BY <1>4, <3>1
  <2>3. th[u].s.id \in Keys
    BY <2>1 DEF Types, ThreadTypes, Sessions
  <2>4. Intended(mem'.log, th[u].s.id)
    BY <1>2, <2>1, IntendedIs DEF Story, Opened
  <2>5. \A e \in Range(mem'.log) : e.key = th[u].s.id => e.type = "xfrm_apply_intent"
    BY <1>2, <1>3, <2>1, <2>3 DEF Story, Opened
  <2> QED
    BY <2>1, <2>2, <2>4, <2>5 DEF Story, Opened
<1>9. ASSUME NEW u \in Threads PROVE Due(u)'
  <2>1. clock' \in {clock, clock + 1} /\ mem'.sess = mem.sess
    BY DEF Calm, Notes
  <2>2. CASE th'[u] = th[u]
    BY <2>1, <2>2, DueOther DEF Story
  <2>3. CASE u = t /\ Aims(t) /\ th'[t].pc \notin InTransaction
    <3>1. clock \in 0..MaxTime /\ MaxTime \in Int /\ SALifetime \in Int /\ MaxSALifetime \in Int /\ clock <= clock'
          /\ clock' \in Int
      BY <2>1, ConfigAssumption DEF Types, GlobalTypes
    <3>2. th[t].now \in 0..clock
      BY DEF Story, Due
    <3>3. th'[t].now \in 0..clock'
      BY <2>3, <3>1, <3>2 DEF Aims
    <3>4. ASSUME th'[t].pc = "drain"
          PROVE  th'[t].todo \subseteq mem'.sess /\ \A d \in th'[t].todo : d.exp <= clock'
      <4>1. PICK now \in {th[t].now, clock} : th'[t].todo = Expired(now)
        BY <2>3, <3>4 DEF Aims
      <4>2. \A s \in mem.sess : s.exp \in Int
        BY <3>1 DEF Types, GlobalTypes, Sessions
      <4>3. now \in Int /\ now <= clock
        BY <3>1, <3>2
      <4> QED
        BY <2>1, <3>1, <4>1, <4>2, <4>3 DEF Expired
    <3>5. ASSUME th'[t].pc = "apply_lock" PROVE th'[t].s.exp <= clock' + MaxSALifetime
      <4>1. th'[t].s.exp <= clock + MaxSALifetime
        BY <2>3, <3>5 DEF Aims
      <4>2. th'[t].s.exp \in Int
        BY <3>1, <3>5 DEF Types, ThreadTypes, Sessions
      <4> QED
        BY <3>1, <4>1, <4>2
    <3> QED
      BY <2>3, <3>3, <3>4, <3>5 DEF Due, InTransaction
  <2> QED
    BY <2>2, <2>3 DEF Calm, Moved
<1> QED
  BY <1>5, <1>6, <1>7, <1>8, <1>9 DEF Story

LEMMA StoryDelete ==
    ASSUME Base, Types, Story, NEW t \in Threads,
           (\E d \in th[t].todo : BeginsDelete(t, d)) \/ Deletes(t) \/ EndsDelete(t)
    PROVE  Story'
<1>1. th[t].pc \in HistoryCS /\ th[t].pc \in {"drain", "delete"} /\ Moved(t) /\ th'[t].pc # "apply"
      /\ clock' = clock /\ used' = used
  BY DEF BeginsDelete, Deletes, EndsDelete, HistoryCS, ExpiryRecorded, Stays, DeletionRecorded, InTransaction
<1>2. \A u \in Threads \ {t} : th[u].pc \notin HistoryCS /\ th'[u] = th[u]
  BY <1>1, OneInside DEF Moved
<1>3. \A u \in Threads : Opened(u)'
  BY <1>1, <1>2 DEF Opened, HistoryCS
<1>4. \A u \in Threads \ {t} : Due(u)'
  BY <1>1, <1>2, DueOther DEF Story, HistoryCS
<1>5. \A d \in th[t].todo : d \in mem.sess /\ d \in Sessions /\ d.exp <= clock /\ Mentioned(mem.log, d.id)
  BY <1>1 DEF Story, Due, Types, GlobalTypes, Recorded, Activated, Mentioned
<1>6. ASSUME NEW d \in th[t].todo, BeginsDelete(t, d) PROVE Story'
  <2>1. PICK a, b : /\ About(a, "session_expired", d, NoPlan, NoObs) /\ About(b, "xfrm_delete_intent", d, d.id, NoObs)
                    /\ AddsTwo(mem.log, a, b)
    BY <1>5, <1>6, ExpiryHistory DEF Story
  <2>2. a.key = d.id /\ b.key = d.id /\ Range(mem'.log) = Range(mem.log) \cup {a, b}
    BY <2>1 DEF About, AddsTwo
  <2>3. disk'.log = mem.log /\ disk'.sess = mem.sess /\ mem'.sess = mem.sess
    BY <1>6 DEF BeginsDelete, ExpiryRecorded
  <2>4. Logs'
    BY <2>1, <2>3 DEF AddsTwo, Story, Logs
  <2>5. \A k \in Keys : Mentioned(mem'.log, k) => Mentioned(mem.log, k)
    BY <1>5, <2>2 DEF Mentioned
  <2>6. th'[t].s = th[t].s /\ th'[t].todo = th[t].todo /\ th'[t].now = th[t].now /\ th'[t].d = d
    BY <1>6 DEF BeginsDelete, ExpiryRecorded, Stays
  <2>7. Virgin'
    BY <1>1, <1>2, <2>5, <2>6, VirginStep DEF Story
  <2>8. Recorded(mem)' /\ Recorded(disk)'
    BY <2>2, <2>3 DEF Story, Recorded, Activated
  <2>9. Due(t)'
    BY <1>1, <1>5, <1>6, <2>3, <2>6 DEF Story, Due, BeginsDelete
  <2> QED
    BY <1>3, <1>4, <2>4, <2>7, <2>8, <2>9 DEF Story
<1>7. CASE Deletes(t)
  <2>1. mem' = mem /\ disk' = disk /\ th'[t].s = th[t].s /\ th'[t].todo = th[t].todo /\ th'[t].now = th[t].now
        /\ th'[t].d = th[t].d /\ th'[t].pc = th[t].pc
    BY <1>7 DEF Deletes, Stays
  <2>2. Virgin'
    BY <1>1, <1>2, <2>1, VirginStep DEF Story
  <2>3. Due(t)'
    BY <1>1, <2>1 DEF Story, Due
  <2> QED
    BY <1>3, <1>4, <2>1, <2>2, <2>3 DEF Story, Logs, Recorded
<1>8. CASE EndsDelete(t)
  <2> DEFINE d == th[t].d
  <2>1. PICK o, e :
             /\ o \in Observations(ExactlyDeleted(d.id))
             /\ About(e, "xfrm_delete_observed", d, d.id, o) /\ Adds(mem.log, e)
             /\ \/ /\ observationMeetsLocalProfile(o) /\ disk' = mem'
                   /\ mem'.sess = {s \in mem.sess : s.id # d.id} /\ th'[t].pc = "drain"
                   /\ th'[t].s = th[t].s /\ th'[t].todo = th[t].todo \ {d} /\ th'[t].now = th[t].now
                \/ Fault("persist") /\ Stops(t)
                \/ (ExactlyDeleted(d.id) => Fault("observe")) /\ Stops(t)
    BY <1>8, DeletionHistory, Zenon DEF Story
  <2>2. d \in th[t].todo
    BY <1>8 DEF EndsDelete, Story, Due
  <2> HIDE DEF d
  <2>3. e.key = d.id /\ Range(mem'.log) = Range(mem.log) \cup {e} /\ mem'.log \in Seq(PEPEvents)
    BY <2>1 DEF About, Adds
  <2>4. mem'.sess \subseteq mem.sess
    BY <1>8 DEF EndsDelete
  <2>5. \/ /\ disk' = mem' /\ mem'.sess = {s \in mem.sess : s.id # d.id} /\ th'[t].pc = "drain"
           /\ th'[t].s = th[t].s /\ th'[t].todo = th[t].todo \ {d} /\ th'[t].now = th[t].now
        \/ Stops(t)
    BY <2>1
  <2>6. Logs'
    BY <2>3, <2>5 DEF Story, Logs, Stops
  <2>7. \A k \in Keys : Mentioned(mem'.log, k) => Mentioned(mem.log, k)
    BY <1>5, <2>2, <2>3 DEF Mentioned
  <2>8. th'[t].s.id \in {NoKey, th[t].s.id}
    BY <2>5 DEF Stops
  <2>9. Virgin'
    BY <1>1, <1>2, <2>7, <2>8, VirginStep DEF Story
  <2>10. Recorded(mem)'
    BY <2>3, <2>4 DEF Story, Recorded, Activated, Unique
  <2>11. Recorded(disk)'
    BY <2>5, <2>10 DEF Story, Recorded, Stops
  <2>12. Due(t)'
    <3>1. CASE Stops(t)
      <4>1. clock \in Nat
        BY ConfigAssumption DEF Types, GlobalTypes
      <4> QED
        BY <1>1, <3>1, <4>1 DEF Stops, Due
    <3>2. CASE ~Stops(t)
      <4>1. th[t].todo \ {d} \subseteq mem'.sess
        BY <1>5, <2>2, <2>5, <3>2 DEF Story, Recorded, Unique
      <4> QED
        BY <1>1, <1>5, <2>5, <3>2, <4>1 DEF Story, Due
    <3> QED
      BY <3>1, <3>2
  <2> QED
    BY <1>3, <1>4, <2>6, <2>9, <2>10, <2>11, <2>12 DEF Story
<1> QED
  BY <1>6, <1>7, <1>8

LEMMA StoryApply ==
    ASSUME Base, Types, Story, NEW t \in Threads, BeginsApply(t) \/ Applies(t) \/ EndsApply(t)
    PROVE  Story'
<1> DEFINE s == th[t].s
<1>1. /\ th[t].pc \in HistoryCS \/ histMu = Free
      /\ Moved(t) /\ clock' = clock /\ used' = used /\ t \in Activators /\ s \in Sessions /\ s.id \in Keys
      /\ (th'[t].pc = "apply" /\ th'[t].s = s /\ th'[t].now = th[t].now) \/ th'[t] = Resting
  <2>1. t \in Activators /\ s \in Sessions
    BY DEF BeginsApply, Applies, EndsApply, Types, ThreadTypes
  <2>2. th[t].pc \in HistoryCS \/ histMu = Free
    BY DEF BeginsApply, Applies, EndsApply, HistoryCS
  <2>3. Moved(t) /\ clock' = clock /\ used' = used
    BY DEF BeginsApply, Applies, EndsApply, IntentRecorded, Stays, ActivationRecorded
  <2>4. (th'[t].pc = "apply" /\ th'[t].s = s /\ th'[t].now = th[t].now) \/ th'[t] = Resting
    BY DEF BeginsApply, Applies, EndsApply, IntentRecorded, Stays
  <2> QED
    BY <2>1, <2>2, <2>3, <2>4 DEF Sessions
<1>2. \A u \in Threads \ {t} : th[u].pc \notin HistoryCS /\ th'[u] = th[u]
  BY <1>1, OneInside DEF Moved
<1>3. \A u \in Threads \ {t} : Opened(u)' /\ Due(u)'
  <2>1. \A u \in Threads \ {t} : Opened(u)'
    BY <1>2 DEF Opened, HistoryCS
  <2>2. \A u \in Threads \ {t} : Due(u)'
    BY <1>1, <1>2, DueOther DEF Story, HistoryCS
  <2> QED
    BY <2>1, <2>2
<1>4. NoSess.id = NoKey /\ Resting.s.id = NoKey
  BY RestingShape DEF NoSess
<1>5. ASSUME \A k \in Keys : Mentioned(mem'.log, k) => Mentioned(mem.log, k) \/ k = s.id
      PROVE  Virgin'
  <2>1. th'[t].s.id \in {NoKey, th[t].s.id} /\ (th'[t].s.id = NoKey \/ th'[t].pc = "apply")
    BY <1>1, <1>4
  <2> QED
    BY <1>1, <1>2, <1>5, <2>1, VirginStep DEF Story
<1>6. Due(t)'
  <2>1. CASE th'[t] = Resting
    <3>1. clock \in Nat
      BY ConfigAssumption DEF Types, GlobalTypes
    <3> QED
      BY <1>1, <2>1, <3>1, RestingShape DEF Due
  <2>2. CASE th'[t].pc = "apply" /\ th'[t].now = th[t].now
    BY <1>1, <2>2 DEF Story, Due
  <2> QED
    BY <1>1, <2>1, <2>2
<1>7. th'[t] = Resting => Opened(t)'
  BY RestingShape DEF Opened
<1> HIDE DEF s
<1>8. CASE BeginsApply(t)
  <2>1. PICK e : About(e, "xfrm_apply_intent", s, s.id, NoObs) /\ Adds(mem.log, e)
    BY <1>8, IntentHistory DEF Story, s
  <2>2. e.key = s.id /\ e.type = "xfrm_apply_intent" /\ Range(mem'.log) = Range(mem.log) \cup {e}
        /\ mem'.log \in Seq(PEPEvents)
    BY <2>1 DEF About, Adds
  <2>3. disk'.log = mem.log /\ disk'.sess = mem.sess /\ mem'.sess = mem.sess /\ disk'.pend.op = "xfrm_apply"
        /\ th'[t].pc = "apply" /\ th'[t].s = s
    BY <1>8 DEF BeginsApply, IntentRecorded, s
  <2>4. Logs'
    BY <2>2, <2>3 DEF Story, Logs
  <2>5. Virgin'
    BY <1>5, <2>2 DEF Mentioned
  <2>6. Recorded(mem)' /\ Recorded(disk)'
    BY <2>2, <2>3 DEF Story, Recorded, Activated
  <2>7. Opened(t)'
    <3>1. ~Mentioned(mem.log, s.id)
      <4>1. th[t].pc = "apply_lock" /\ th[t].s.id \in Keys /\ t \in Activators
        BY <1>1, <1>8 DEF BeginsApply, s
      <4> QED
        BY <4>1 DEF Story, Virgin, s
    <3>2. disk'.pend # NoMarker
      <4>1. NoMarker.op = ""
        BY DEF NoMarker
      <4> QED
        BY <2>3, <4>1
    <3>3. Intended(mem'.log, s.id)
      BY <2>2, IntendedIs
    <3> QED
      BY <2>2, <2>3, <3>1, <3>2, <3>3 DEF Opened, Mentioned
  <2> QED
    BY <1>3, <1>6, <2>4, <2>5, <2>6, <2>7 DEF Story
<1>9. CASE Applies(t)
  <2>1. mem' = mem /\ disk' = disk /\ th[t].pc = "apply"
    BY <1>9 DEF Applies
  <2>2. Virgin'
    BY <1>5, <2>1
  <2>3. Opened(t)'
    BY <1>1, <1>7, <2>1 DEF Story, Opened, s
  <2> QED
    BY <1>3, <1>6, <2>1, <2>2, <2>3 DEF Story, Logs, Recorded
<1>10. CASE EndsApply(t)
  <2>1. PICK o, a, b :
             /\ About(a, "xfrm_apply_observed", s, s.id, o) /\ About(b, "session_activated", s, NoPlan, NoObs)
             /\ disk' \in {disk, mem'}
             /\ \/ AddsTwo(mem.log, a, b) /\ mem'.sess = mem.sess \cup {s}
                \/ Adds(mem.log, a) /\ mem'.sess = mem.sess
    BY <1>10, ActivationHistory, Zenon DEF Story, s
  <2>2. a.key = s.id /\ b.key = s.id /\ b.type = "session_activated"
    BY <2>1 DEF About
  <2>3. /\ mem'.log \in Seq(PEPEvents) /\ Range(mem.log) \subseteq Range(mem'.log)
        /\ Range(mem'.log) \subseteq Range(mem.log) \cup {a, b}
        /\ (mem'.sess = mem.sess \cup {s} /\ b \in Range(mem'.log)) \/ mem'.sess = mem.sess
    BY <2>1 DEF Adds, AddsTwo
  <2>4. Logs'
    BY <2>1, <2>3 DEF Story, Logs
  <2>5. Virgin'
    BY <1>5, <2>2, <2>3 DEF Mentioned
  <2>6. \A u \in mem.sess : u.id # s.id
    BY <1>10 DEF Story, Recorded, Activated, Opened, EndsApply, s
  <2>7. Unique(mem'.sess)
    BY <2>3, <2>6 DEF Story, Recorded, Unique
  <2>8. \A u \in mem'.sess : Activated(mem'.log, u.id)
    BY <2>2, <2>3 DEF Story, Recorded, Activated
  <2>9. Recorded(mem)' /\ Recorded(disk)'
    BY <2>1, <2>7, <2>8 DEF Story, Recorded
  <2> QED
    BY <1>3, <1>6, <1>7, <1>10, <2>4, <2>5, <2>9 DEF Story, EndsApply
<1> QED
  BY <1>8, <1>9, <1>10

(* A restart goes on from the state file, which says no more than memory. *)
LEMMA StoryLife ==
    ASSUME Base, Types, Links, Story, Starts \/ Dies
    PROVE  Story'
<1>1. Range(disk.log) \subseteq Range(mem.log)
  BY RangeOfPrefix DEF Links, Linked
<1>2. \A t \in Threads : th'[t] = Resting \/ (t = "main" /\ th'[t].pc = "history_lock" /\ th'[t].s.id = NoKey /\ th'[t].now = 0)
  <2>1. CASE Dies
    BY <2>1 DEF Dies
  <2>2. CASE Starts
    <3>1. \A t \in Threads : th[t] = Resting
      BY <2>2 DEF Starts, Base, PhaseInv, Running
    <3> QED
      BY <2>2, <3>1 DEF Starts, StartRecorded, Moved
  <2> QED
    BY <2>1, <2>2
<1>3. disk' = disk /\ mem'.sess = disk.sess /\ clock' = clock /\ used' = used
  BY DEF Starts, StartRecorded, Dies
<1>4. /\ mem'.log \in Seq(PEPEvents) /\ Range(disk.log) \subseteq Range(mem'.log)
      /\ \A e \in Range(mem'.log) : e \in Range(disk.log) \/ e.key = NoKey
  <2>1. CASE Dies
    BY <2>1 DEF Dies, Story, Logs
  <2>2. CASE Starts
    <3>1. PICK e : Remark(e) /\ Adds(disk.log, e)
      BY <2>2, StartHistory DEF Story
    <3> QED
      BY <3>1 DEF Remark, Adds
  <2> QED
    BY <2>1, <2>2
<1>5. NoKey \notin Keys
  BY ConfigAssumption
<1>6. \A k \in Keys : Mentioned(mem'.log, k) => Mentioned(mem.log, k)
  BY <1>1, <1>4, <1>5 DEF Mentioned
<1>7. \A t \in Activators : th'[t].s.id = NoKey
  BY <1>2, RestingShape, ThreadNames DEF NoSess
<1>8. Virgin'
  BY <1>3, <1>5, <1>6, <1>7 DEF Story, Virgin
<1>9. Recorded(mem)' /\ Recorded(disk)'
  BY <1>3, <1>4 DEF Story, Recorded, Activated
<1>10. ASSUME NEW t \in Threads PROVE Opened(t)' /\ Due(t)'
  <2>1. clock \in Nat
    BY ConfigAssumption DEF Types, GlobalTypes
  <2>2. th'[t].pc \in {"idle", "history_lock"} /\ th'[t].now = 0
    BY <1>2, RestingShape
  <2> QED
    BY <1>3, <2>1, <2>2 DEF Opened, Due
<1> QED
  BY <1>3, <1>4, <1>8, <1>9, <1>10 DEF Story, Logs

LEMMA StoryNext == Base /\ Types /\ Links /\ Story /\ [Next]_vars => Story'
<1> SUFFICES ASSUME Base, Types, Links, Story, [Next]_vars PROVE Story'
  OBVIOUS
<1>1. Types'
  BY TypesNext
<1> QED
  BY <1>1, Effects, StoryCalm, StoryDelete, StoryApply, StoryLife DEF Transacts

LEMMA StoryInvariance == Sentinels /\ Spec => []Story
<1>1. ChainInv => Links
  BY DEF ChainInv
<1> QED
  BY <1>1, StoryInit, StoryNext, BaseInvariance, TypesInvariance, ChainInvariance, PTL DEF Spec

-----------------------------------------------------------------------------
(* The kernel and the history.  An object in the kernel was intended, and  *)
(* the state file says so or has a marker; a session that was observed to  *)
(* be gone is gone, as long as what could deceive the observer did not     *)
(* happen.                                                                 *)
Unfailing == Only({"persist", "observe", "network"})      \* no command has failed

Installed == \A k \in Keys : kern[k] # {} =>
    /\ Running => Intended(mem.log, k)
    /\ Intended(disk.log, k) \/ disk.pend # NoMarker

Gone == Sighted => \A k \in Keys : Closed(mem.log, k) => kern[k] = {}

Removed(t) == th[t].pc = "delete" /\ Unfailing => kern[th[t].d.id] \subseteq th[t].i..NCommands

Traced == Installed /\ Gone /\ \A t \in Threads : Removed(t)

LEMMA TracedInit == Init => Traced
BY RestingShape DEF Init, Traced, Installed, Gone, Removed

LEMMA OnlyBefore ==
    ASSUME FaultLog, [Next]_vars
    PROVE  \A kinds : Only(kinds)' => Only(kinds) /\ \A kind : Fault(kind) => kind \in kinds
<1>1. CASE NoFault
  BY <1>1, FaultRecorded DEF NoFault, Only
<1>2. CASE \E kind \in {"persist", "command", "observe", "network"} : Fault(kind)
  BY <1>2, FaultRecorded
<1> QED
  BY <1>1, <1>2, FaultSteps

LEMMA SightedBefore ==
    ASSUME FaultLog, [Next]_vars
    PROVE  (Unfailing' => Unfailing /\ ~Fault("command")) /\ (Sighted' => Sighted)
BY OnlyBefore DEF Unfailing, Sighted

(* A lookup does not take what is there for gone. *)
LEMMA ObservedGone ==
    ASSUME Marked, NEW k \in Keys, NEW o \in Observations(ExactlyDeleted(k)), ProfileSatisfied(o),
           ObserverMode # "ebpf"
    PROVE  kern[k] = {}
<1> SUFFICES ASSUME kern[k] # {} PROVE FALSE
  OBVIOUS
<1>1. ApplyMode
  BY ConfigAssumption DEF Marked
<1>2. ExactlyDeleted(k) = FALSE
  BY <1>1 DEF ExactlyDeleted
<1>3. o \in Observations(FALSE)
  BY <1>2
<1>4. RequiredObserver # "dry-run" /\ ObserverMode \in {"posthoc", "hybrid"}
  BY <1>1, ConfigAssumption, ProfileAssumption
<1>5. o.value = "false"
  BY <1>1, <1>3, <1>4 DEF Observations
<1> QED
  BY <1>4, <1>5 DEF ProfileSatisfied

LEMMA TracedCalm ==
    ASSUME Base, Types, Story, Traced, NEW t \in Threads, Calm(t), Unfailing' => Unfailing, Sighted' => Sighted
    PROVE  Traced'
<1>1. mem'.log = mem.log \/ \E e : Remark(e) /\ Adds(mem.log, e)
  BY CalmHistory DEF Story
<1>2. Range(mem.log) \subseteq Range(mem'.log) /\ \A e \in Range(mem'.log) : e \in Range(mem.log) \/ e.type \notin SessionTypes
  BY <1>1 DEF Adds, Remark
<1>3. \A k : Closed(mem'.log, k) => Closed(mem.log, k)
  BY <1>2 DEF Closed, SessionTypes
<1>4. \A k : Intended(mem.log, k) => Intended(mem'.log, k)
  BY <1>2, IntendedIs
<1>5. kern' = kern /\ (Running' => Running)
  BY DEF Calm
<1>6. Installed'
  <2>1. CASE disk' = disk
    BY <1>4, <1>5, <2>1 DEF Traced, Installed
  <2>2. CASE th[t].pc \in TokenCS /\ disk' = mem'
    <3>1. Running
      BY <2>2, RestingShape, ThreadNames DEF Base, PhaseInv, Running, TokenCS
    <3> QED
      BY <1>4, <1>5, <2>2, <3>1 DEF Traced, Installed
  <2> QED
    BY <2>1, <2>2 DEF Calm, Notes
<1>7. Gone'
  BY <1>3, <1>5 DEF Traced, Gone
<1>8. \A u \in Threads : Removed(u)'
  <2>1. \A u \in Threads : th'[u].pc = "delete" => th'[u] = th[u]
    BY DEF Calm, Moved, InTransaction
  <2> QED
    BY <1>5, <2>1 DEF Traced, Removed
<1> QED
  BY <1>6, <1>7, <1>8 DEF Traced

LEMMA TracedDelete ==
    ASSUME Base, Types, Marked, Story, Traced, NEW t \in Threads,
           Unfailing' => Unfailing /\ ~Fault("command"), Sighted' => Sighted,
           (\E d \in th[t].todo : BeginsDelete(t, d)) \/ Deletes(t) \/ EndsDelete(t)
    PROVE  Traced'
<1>1. th[t].pc \in HistoryCS /\ th[t].pc \in {"drain", "delete"} /\ Moved(t)
  BY DEF BeginsDelete, Deletes, EndsDelete, HistoryCS
<1>2. \A u \in Threads \ {t} : Removed(u)'
  BY <1>1, OneInside DEF Moved, HistoryCS, Removed
<1>3. Running
  BY <1>1, RestingShape, ThreadNames DEF Base, PhaseInv, Running
<1>4. ASSUME NEW d \in th[t].todo, BeginsDelete(t, d) PROVE Traced'
  <2>1. d \in Sessions
    BY DEF Types, ThreadTypes
  <2>2. PICK a, b : /\ About(a, "session_expired", d, NoPlan, NoObs) /\ About(b, "xfrm_delete_intent", d, d.id, NoObs)
                    /\ AddsTwo(mem.log, a, b)
    BY <1>4, <2>1, ExpiryHistory DEF Story
  <2>3. a.type = "session_expired" /\ b.type = "xfrm_delete_intent" /\ Range(mem'.log) = Range(mem.log) \cup {a, b}
    BY <2>2 DEF About, AddsTwo
  <2>4. kern' = kern /\ disk'.pend.op = "xfrm_delete" /\ th'[t].i = FirstCommand /\ th'[t].d = d
    BY <1>4 DEF BeginsDelete
  <2>5. Gone'
    BY <2>3, <2>4 DEF Traced, Gone, Closed
  <2>6. Installed'
    <3>1. NoMarker.op = ""
      BY DEF NoMarker
    <3>2. \A k : Intended(mem.log, k) => Intended(mem'.log, k)
      BY <2>3, IntendedIs
    <3> QED
      BY <1>3, <2>4, <3>1, <3>2 DEF Traced, Installed
  <2>7. Removed(t)'
    <3>1. CASE ApplyMode
      <4>1. kern[d.id] \subseteq 1..NCommands
        BY <2>1 DEF Types, GlobalTypes, Parts, Sessions
      <4> QED
        BY <2>4, <3>1, <4>1 DEF Removed, FirstCommand
    <3>2. CASE ~ApplyMode
      BY <2>1, <2>4, <3>2 DEF Removed, Marked, Sessions
    <3> QED
      BY <3>1, <3>2
  <2> QED
    BY <1>2, <2>5, <2>6, <2>7 DEF Traced
<1>5. CASE Deletes(t)
  <2> DEFINE d == th[t].d
  <2>1. mem' = mem /\ disk' = disk /\ th'[t].d = d /\ th'[t].i = th[t].i + 1 /\ th[t].i \in Parts /\ phase' = phase
    BY <1>5 DEF Deletes, Steady
  <2>2. d.id \in Keys
    BY <1>5 DEF Deletes, Types, ThreadTypes, Sessions
  <2>3. \A k \in Keys : kern'[k] \subseteq kern[k]
    BY <1>5 DEF Deletes, Types, GlobalTypes
  <2>4. Installed' /\ Gone'
    BY <1>3, <2>1, <2>3 DEF Traced, Installed, Gone, Running
  <2>5. ASSUME Unfailing' PROVE kern'[d.id] \subseteq (th[t].i + 1)..NCommands
    <3>1. kern' = [kern EXCEPT ![d.id] = @ \ {th[t].i}]
      BY <1>5, <2>5 DEF Deletes
    <3>2. kern[d.id] \subseteq th[t].i..NCommands /\ kern'[d.id] = kern[d.id] \ {th[t].i}
      BY <1>5, <2>2, <2>5, <3>1 DEF Traced, Removed, Deletes, Types, GlobalTypes
    <3>3. th[t].i \in Int /\ NCommands \in Int
      BY <2>1, ConfigAssumption DEF Parts
    <3> HIDE DEF d
    <3> QED
      BY <3>2, <3>3
  <2>6. Removed(t)'
    BY <2>1, <2>5 DEF Removed
  <2> QED
    BY <1>2, <2>4, <2>6 DEF Traced
<1>6. CASE EndsDelete(t)
  <2> DEFINE d == th[t].d
  <2>1. PICK o, e :
             /\ o \in Observations(ExactlyDeleted(d.id))
             /\ About(e, "xfrm_delete_observed", d, d.id, o) /\ Adds(mem.log, e) /\ disk' \in {disk, mem'}
    <3>1. PICK o, e :
             /\ o \in Observations(ExactlyDeleted(d.id))
             /\ About(e, "xfrm_delete_observed", d, d.id, o) /\ Adds(mem.log, e)
             /\ \/ /\ observationMeetsLocalProfile(o) /\ disk' = mem'
                   /\ mem'.sess = {s \in mem.sess : s.id # d.id} /\ th'[t].pc = "drain"
                   /\ th'[t].s = th[t].s /\ th'[t].todo = th[t].todo \ {d} /\ th'[t].now = th[t].now
                \/ Fault("persist") /\ Stops(t)
                \/ (ExactlyDeleted(d.id) => Fault("observe")) /\ Stops(t)
      BY <1>6, DeletionHistory, Zenon DEF Story
    <3>2. disk' \in {disk, mem'}
      BY <3>1 DEF Stops
    <3> QED
      BY <3>1, <3>2
  <2>2. e.type = "xfrm_delete_observed" /\ e.key = d.id /\ e.obs = o /\ Range(mem'.log) = Range(mem.log) \cup {e}
    BY <2>1 DEF About, Adds
  <2>3. kern' = kern /\ th'[t].pc # "delete" /\ th[t].i = NCommands + 1 /\ th[t].pc = "delete" /\ d.id \in Keys
    BY <1>6 DEF EndsDelete, InTransaction, Types, ThreadTypes, Sessions
  <2>4. Removed(t)'
    BY <2>3 DEF Removed
  <2>5. Installed'
    <3>1. \A k : Intended(mem.log, k) => Intended(mem'.log, k)
      BY <2>2, IntendedIs
    <3> QED
      BY <1>3, <2>1, <2>3, <3>1 DEF Traced, Installed
  <2>6. ASSUME Sighted', ProfileSatisfied(o) PROVE kern[d.id] = {}
    <3>1. CASE ObserverMode # "ebpf"
      BY <2>1, <2>3, <2>6, <3>1, ObservedGone
    <3>2. CASE ObserverMode = "ebpf"
      <4>1. Unfailing
        BY <2>6, <3>2 DEF Sighted, Unfailing
      <4>2. kern[d.id] \subseteq (NCommands + 1)..NCommands
        BY <2>3, <4>1 DEF Traced, Removed
      <4> HIDE DEF d
      <4> QED
        BY <4>2, ConfigAssumption
    <3> QED
      BY <3>1, <3>2
  <2>7. Gone'
    <3> HIDE DEF d
    <3>1. ASSUME Sighted', NEW k \in Keys, Closed(mem'.log, k) PROVE kern'[k] = {}
      <4>1. Closed(mem.log, k) \/ (k = d.id /\ ProfileSatisfied(o))
        BY <2>2, <3>1 DEF Closed
      <4> QED
        BY <2>3, <2>6, <3>1, <4>1 DEF Traced, Gone
    <3> QED
      BY <3>1 DEF Gone
  <2> QED
    BY <1>2, <2>4, <2>5, <2>7 DEF Traced
<1> QED
  BY <1>4, <1>5, <1>6

LEMMA TracedApply ==
    ASSUME Base, Types, Story, Traced, NEW t \in Threads, Sighted' => Sighted,
           BeginsApply(t) \/ Applies(t) \/ EndsApply(t)
    PROVE  Traced'
<1> DEFINE s == th[t].s
<1>1. /\ th[t].pc \in HistoryCS \/ histMu = Free
      /\ Moved(t) /\ th'[t].pc # "delete" /\ th[t].pc # "idle" /\ s.id \in Keys
  <2>1. th[t].pc \in HistoryCS \/ histMu = Free
    BY DEF BeginsApply, Applies, EndsApply, HistoryCS
  <2>2. Moved(t) /\ th'[t].pc # "delete" /\ th[t].pc # "idle"
    BY RestingShape DEF BeginsApply, Applies, EndsApply
  <2>3. s.id \in Keys
    BY DEF BeginsApply, Applies, EndsApply, Types, ThreadTypes, Sessions
  <2> QED
    BY <2>1, <2>2, <2>3
<1>2. \A u \in Threads : Removed(u)'
  BY <1>1, OneInside DEF Moved, HistoryCS, Removed
<1>3. Running
  BY <1>1, RestingShape, ThreadNames DEF Base, PhaseInv, Running
<1>4. CASE BeginsApply(t)
  <2>1. PICK e : About(e, "xfrm_apply_intent", s, s.id, NoObs) /\ Adds(mem.log, e)
    BY <1>4, IntentHistory DEF Story
  <2>2. e.type = "xfrm_apply_intent" /\ Range(mem'.log) = Range(mem.log) \cup {e}
    BY <2>1 DEF About, Adds
  <2>3. kern' = kern /\ disk'.pend.op = "xfrm_apply"
    BY <1>4 DEF BeginsApply
  <2>4. Gone'
    BY <2>2, <2>3 DEF Traced, Gone, Closed
  <2>5. Installed'
    <3>1. NoMarker.op = ""
      BY DEF NoMarker
    <3>2. \A k : Intended(mem.log, k) => Intended(mem'.log, k)
      BY <2>2, IntendedIs
    <3> QED
      BY <1>3, <2>3, <3>1, <3>2 DEF Traced, Installed
  <2> QED
    BY <1>2, <2>4, <2>5 DEF Traced
<1>5. CASE Applies(t)
  <2>1. mem' = mem /\ disk' = disk /\ th[t].pc = "apply" /\ phase' = phase
    BY <1>5 DEF Applies
  <2>2. /\ disk.pend # NoMarker /\ Intended(mem.log, s.id)
        /\ \A e \in Range(mem.log) : e.key = s.id => e.type = "xfrm_apply_intent"
    BY <2>1 DEF Story, Opened
  <2>3. ~Closed(mem.log, s.id)
    BY <2>2 DEF Closed
  <2>4. \A k \in Keys : k # s.id => kern'[k] = kern[k]
    BY <1>5 DEF Applies, Types, GlobalTypes
  <2>5. Installed'
    BY <1>3, <2>1, <2>2, <2>4 DEF Traced, Installed
  <2>6. Gone'
    BY <2>1, <2>3, <2>4 DEF Traced, Gone
  <2> QED
    BY <1>2, <2>5, <2>6 DEF Traced
<1>6. CASE EndsApply(t)
  <2>1. PICK o, a, b :
             /\ About(a, "xfrm_apply_observed", s, s.id, o) /\ About(b, "session_activated", s, NoPlan, NoObs)
             /\ disk' \in {disk, mem'}
             /\ \/ AddsTwo(mem.log, a, b) /\ mem'.sess = mem.sess \cup {s}
                \/ Adds(mem.log, a) /\ mem'.sess = mem.sess
    BY <1>6, ActivationHistory, Zenon DEF Story
  <2>2. a.type = "xfrm_apply_observed" /\ b.type = "session_activated"
    BY <2>1 DEF About
  <2>3. Range(mem.log) \subseteq Range(mem'.log) /\ Range(mem'.log) \subseteq Range(mem.log) \cup {a, b}
    BY <2>1 DEF Adds, AddsTwo
  <2>4. \A k \in Keys : kern'[k] \subseteq kern[k]
    BY <1>6 DEF EndsApply
  <2>5. Gone'
    <3>1. \A k : Closed(mem'.log, k) => Closed(mem.log, k)
      BY <2>2, <2>3 DEF Closed
    <3> QED
      BY <2>4, <3>1 DEF Traced, Gone
  <2>6. Installed'
    <3>1. \A k : Intended(mem.log, k) => Intended(mem'.log, k)
      BY <2>3, IntendedIs
    <3> QED
      BY <1>3, <2>1, <2>4, <3>1 DEF Traced, Installed
  <2> QED
    BY <1>2, <2>5, <2>6 DEF Traced
<1> QED
  BY <1>4, <1>5, <1>6

LEMMA TracedLife ==
    ASSUME Base, Types, Links, Story, Traced, Sighted' => Sighted, Starts \/ Dies
    PROVE  Traced'
<1>1. Range(disk.log) \subseteq Range(mem.log)
  BY RangeOfPrefix DEF Links, Linked
<1>2. /\ Range(disk.log) \subseteq Range(mem'.log)
      /\ \A e \in Range(mem'.log) : e \in Range(disk.log) \/ e.type \notin SessionTypes
  <2>1. CASE Dies
    BY <2>1 DEF Dies
  <2>2. CASE Starts
    <3>1. PICK e : Remark(e) /\ Adds(disk.log, e)
      BY <2>2, StartHistory DEF Story
    <3> QED
      BY <3>1 DEF Remark, Adds
  <2> QED
    BY <2>1, <2>2
<1>3. disk' = disk /\ \A k \in Keys : kern'[k] \in {kern[k], {}}
  BY DEF Starts, Dies
<1>4. Gone'
  <2>1. \A k : Closed(mem'.log, k) => Closed(mem.log, k)
    BY <1>1, <1>2 DEF Closed, SessionTypes
  <2> QED
    BY <1>3, <2>1 DEF Traced, Gone
<1>5. Installed'
  <2>1. \A k : Intended(disk.log, k) => Intended(mem'.log, k)
    BY <1>2, IntendedIs
  <2>2. Running' => disk.pend = NoMarker
    BY DEF Starts, Dies, Running
  <2> QED
    BY <1>3, <2>1, <2>2 DEF Traced, Installed
<1>6. \A t \in Threads : Removed(t)'
  <2>1. \A t \in Threads : th'[t].pc # "delete"
    BY RestingShape DEF Starts, Dies, Base, PhaseInv, Running, Moved
  <2> QED
    BY <2>1 DEF Removed
<1> QED
  BY <1>4, <1>5, <1>6 DEF Traced

LEMMA TracedNext == Base /\ Types /\ Marked /\ Links /\ Story /\ Traced /\ [Next]_vars => Traced'
<1> SUFFICES ASSUME Base, Types, Marked, Links, Story, Traced, [Next]_vars PROVE Traced'
  OBVIOUS
<1>1. (Unfailing' => Unfailing /\ ~Fault("command")) /\ (Sighted' => Sighted)
  BY SightedBefore DEF Marked
<1> QED
  BY <1>1, Effects, TracedCalm, TracedDelete, TracedApply, TracedLife DEF Transacts

LEMMA TracedInvariance == Sentinels /\ Spec => []Traced
<1>1. ChainInv => Links
  BY DEF ChainInv
<1> QED
  BY <1>1, TracedInit, TracedNext, BaseInvariance, TypesInvariance, MarkedInvariance, ChainInvariance,
     StoryInvariance, PTL DEF Spec

-----------------------------------------------------------------------------
(* The Verifier's record.  It changes when the Verifier accepts the        *)
(* pending submission, which is a part of the history.                     *)
LEMMA VerifierSteps ==
    ASSUME ChainInv, [Next]_vars
    PROVE  \/ ver' = ver
           \/ /\ UNCHANGED <<mem, disk, kern, th, faults>> /\ mem.cap # NoEvidence /\ ver'.cp = mem.cap.cp
              /\ Acceptable(mem.cap) /\ ver'.active = Appraised(mem.cap).active
<1>1. ASSUME NEW ev, Flies(ev), Submit(ev), UNCHANGED <<mem, disk, kern, th, faults>>, ver' # ver
      PROVE  /\ mem.cap # NoEvidence /\ ver'.cp = mem.cap.cp
             /\ Acceptable(mem.cap) /\ ver'.active = Appraised(mem.cap).active
  <2>1. Acceptable(ev) /\ ver'.cp = ev.cp /\ ver'.active = Appraised(ev).active
    BY <1>1 DEF Submit
  <2>2. EpochOf(ver.cp) \in Nat /\ ev.cp.epoch = EpochOf(ver.cp) + 1
    BY <1>1, <2>1, SubmitMoves DEF Acceptable, VerifyHistoryEvidence
  <2>3. mem.cap # NoEvidence /\ ev = mem.cap
    BY <1>1, <2>2 DEF Flies, EvSound
  <2> QED
    BY <2>1, <2>3
<1>2. CASE Serve
  <2>1. Flies(rpc.ev) /\ Submit(rpc.ev) /\ UNCHANGED <<mem, disk, kern, th, faults>>
    BY <1>2 DEF Serve, Flies, ChainInv, Traffic, Links, Linked
  <2> QED
    BY <1>1, <2>1
<1>3. ASSUME NEW ev \in late, ServeLate(ev)
      PROVE  Flies(ev) /\ Submit(ev) /\ UNCHANGED <<mem, disk, kern, th, faults>>
  BY <1>3 DEF ServeLate, ChainInv, Traffic
<1>4. ASSUME NEW t \in Threads, Step(t) PROVE ver' = ver
  BY <1>4 DEF Step, CheckHealth, TakeTokenLock, TakeHistoryLock, BeginDelete, DeleteCommand, Drained,
     FinishDelete, PrepareEvidence, Post, AcceptToken, Timeout, Bind, BeginApply, ApplyCommand, FinishApply
<1>5. ASSUME \/ \E t \in Activators, k \in Keys, svc \in Services : Activate(t, k, svc)
             \/ Refresh \/ Reap \/ Boot \/ validateRestoredSessions \/ (\E kept \in BOOLEAN : Crash(kept))
             \/ Tick \/ UNCHANGED vars
      PROVE  ver' = ver
  BY <1>5 DEF Activate, Refresh, Reap, Boot, validateRestoredSessions, Crash, Tick, vars
<1> QED
  BY <1>1, <1>2, <1>3, <1>4, <1>5 DEF Next

(* The pending submission changes when a new one is built from the history, *)
(* or when it is accepted and dropped.                                      *)
Built ==
    /\ mem'.cap.events = SubSeq(mem'.log, Len(LogOf(mem.acc)) + 1, Len(mem'.log))
    /\ mem'.cap.cp.log = mem'.log /\ mem'.cap.cp.created = clock

LEMMA SubmissionSteps ==
    ASSUME Base, Links, [Next]_vars
    PROVE  \/ mem'.cap \in {mem.cap, NoEvidence}
           \/ /\ \E t \in Threads : th[t].pc = "evidence" /\ th'[t].pc = "post" /\ Moved(t)
              /\ Built /\ mem'.acc = mem.acc
<1> USE DEF Base
<1>0. mem.cap = disk.cap /\ DOMAIN mem = StateFields /\ DOMAIN disk = StateFields
  BY DEF Links, Shape
<1>1. ASSUME NEW t \in Threads,
             \/ CheckHealth(t) \/ TakeTokenLock(t) \/ TakeHistoryLock(t) \/ DeleteCommand(t) \/ Drained(t)
             \/ Post(t) \/ Timeout(t) \/ Bind(t) \/ ApplyCommand(t)
      PROVE  mem' = mem
  BY <1>1 DEF CheckHealth, TakeTokenLock, TakeHistoryLock, DeleteCommand, Drained, Post, Timeout, Bind, ApplyCommand
<1>2. \A m, es : DOMAIN m = StateFields => /\ historyAppend(m, es).cap = m.cap /\ DOMAIN historyAppend(m, es) = StateFields
                                           /\ historyAppend(m, es).acc = m.acc /\ historyAppend(m, es).log = m.log \o es
  BY DEF historyAppend, StateFields
<1>3. \A m, x : DOMAIN m = StateFields => /\ [m EXCEPT !.pend = x].cap = m.cap /\ DOMAIN [m EXCEPT !.pend = x] = StateFields
                                          /\ [m EXCEPT !.sess = x].cap = m.cap /\ DOMAIN [m EXCEPT !.sess = x] = StateFields
  BY DEF StateFields
<1>4. ASSUME NEW t \in Threads, NEW d \in th[t].todo, BeginDelete(t, d) PROVE mem'.cap = mem.cap
  <2> DEFINE m == [mem EXCEPT !.pend = [op |-> "xfrm_delete", id |-> d.id]]
             es == <<PlainEvent("session_expired", d), Event("xfrm_delete_intent", d, d.id, NoObs)>>
  <2>1. mem' = mem \/ mem' = historyAppend(m, es)
    BY <1>4 DEF BeginDelete
  <2>2. m.cap = mem.cap /\ DOMAIN m = StateFields
    BY <1>0, <1>3
  <2> HIDE DEF m, es
  <2> QED
    BY <1>2, <2>1, <2>2
<1>5. ASSUME NEW t \in Threads, BeginApply(t) PROVE mem'.cap = mem.cap
  <2> DEFINE s == th[t].s
             m == [mem EXCEPT !.pend = [op |-> "xfrm_apply", id |-> s.id]]
             es == <<Event("xfrm_apply_intent", s, s.id, NoObs)>>
  <2>1. mem' = mem \/ mem' = historyAppend(m, es)
    BY <1>5 DEF BeginApply
  <2>2. m.cap = mem.cap /\ DOMAIN m = StateFields
    BY <1>0, <1>3
  <2> HIDE DEF m, es
  <2> QED
    BY <1>2, <2>1, <2>2
<1>6. ASSUME NEW t \in Threads, NEW o \in Observations(TRUE), FinishDelete(t, o) PROVE mem'.cap = mem.cap
  <2> DEFINE seen == historyAppend(mem, <<Event("xfrm_delete_observed", th[t].d, th[t].d.id, o)>>)
             gone == [seen EXCEPT !.sess = {s \in @ : s.id # th[t].d.id}]
             clear == [gone EXCEPT !.pend = NoMarker]
  <2>1. seen.cap = mem.cap /\ DOMAIN seen = StateFields
    BY <1>0, <1>2
  <2>2. mem' \in {seen, gone, clear}
    BY <1>6 DEF FinishDelete
  <2> HIDE DEF seen
  <2>3. gone.cap = mem.cap /\ DOMAIN gone = StateFields
    BY <1>3, <2>1
  <2> HIDE DEF gone
  <2>4. clear.cap = mem.cap
    BY <1>3, <2>3
  <2> QED
    BY <2>1, <2>2, <2>3, <2>4
<1>7. ASSUME NEW t \in Threads, NEW o \in Observations(TRUE), NEW left \in SUBSET Parts, FinishApply(t, o, left)
      PROVE  mem'.cap = mem.cap
  <2> DEFINE s == th[t].s
             seen == historyAppend(mem, <<Event("xfrm_apply_observed", s, s.id, o)>>)
             more == [seen EXCEPT !.sess = @ \cup {s}]
             live == historyAppend(more, <<PlainEvent("session_activated", s)>>)
             clear == [live EXCEPT !.pend = NoMarker]
  <2>1. seen.cap = mem.cap /\ DOMAIN seen = StateFields
    BY <1>0, <1>2
  <2>2. mem' \in {seen, live, clear}
    BY <1>7 DEF FinishApply
  <2> HIDE DEF seen
  <2>3. more.cap = mem.cap /\ DOMAIN more = StateFields
    BY <1>3, <2>1
  <2> HIDE DEF more
  <2>4. live.cap = mem.cap /\ DOMAIN live = StateFields
    BY <1>2, <2>3
  <2> HIDE DEF live
  <2>5. clear.cap = mem.cap
    BY <1>3, <2>4
  <2> QED
    BY <2>1, <2>2, <2>4, <2>5
<1>8. ASSUME NEW t \in Threads, AcceptToken(t) PROVE mem'.cap \in {mem.cap, NoEvidence}
  <2> DEFINE taken == MarkCheckpointAccepted(mem, mem.cap.cp)
             marked == historyAppend(taken, <<PlainEvent("capacity_accepted", NoSess)>>)
             m == [marked EXCEPT !.cap = NoEvidence]
  <2>1. taken.cap = mem.cap /\ DOMAIN taken = StateFields
    BY <1>0 DEF MarkCheckpointAccepted, StateFields
  <2>2. mem' \in {marked, m, mem}
    BY <1>8 DEF AcceptToken
  <2> HIDE DEF taken
  <2>3. marked.cap = mem.cap /\ DOMAIN marked = StateFields
    BY <1>2, <2>1
  <2> HIDE DEF marked
  <2>4. m.cap = NoEvidence
    BY <2>3 DEF StateFields
  <2> QED
    BY <2>2, <2>3, <2>4
<1>9. ASSUME NEW t \in Threads, PrepareEvidence(t), mem'.cap # mem.cap
      PROVE  th[t].pc = "evidence" /\ th'[t].pc = "post" /\ Moved(t) /\ Built /\ mem'.acc = mem.acc
  <2> DEFINE asked == historyAppend(mem, <<PlainEvent("capacity_requested", NoSess)>>)
             m     == [asked EXCEPT !.cap = BuildEvidence(asked)]
  <2>1. asked.cap = mem.cap /\ DOMAIN asked = StateFields /\ asked.acc = mem.acc
    BY <1>0, <1>2
  <2>2. th[t].pc = "evidence" /\ (mem' \in {mem, asked} \/ (mem' = m /\ Goto(t, "post")))
    BY <1>9 DEF PrepareEvidence
  <2> HIDE DEF asked
  <2>3. mem' = m /\ Goto(t, "post")
    BY <1>9, <2>1, <2>2
  <2>4. m.log = asked.log /\ m.cap = BuildEvidence(asked) /\ m.acc = mem.acc
    BY <2>1 DEF StateFields
  <2>5. /\ BuildEvidence(asked).events = SubSeq(asked.log, Len(LogOf(asked.acc)) + 1, Len(asked.log))
        /\ BuildEvidence(asked).cp.log = asked.log /\ BuildEvidence(asked).cp.created = clock
    BY DEF BuildEvidence
  <2> HIDE DEF m
  <2>6. mem'.log = asked.log /\ mem'.cap = BuildEvidence(asked) /\ mem'.acc = mem.acc
    BY <2>3, <2>4
  <2>7. Built
    BY <2>1, <2>5, <2>6 DEF Built
  <2> QED
    BY <2>2, <2>3, <2>6, <2>7, MovedGoto
<1>10. CASE Boot
  BY <1>0, <1>2, <1>10 DEF Boot, RestoredState
<1>11. CASE \E kept \in BOOLEAN : Crash(kept)
  BY <1>0, <1>11, Zenon DEF Crash
<1>12. ASSUME \/ \E t \in Activators, k \in Keys, svc \in Services : Activate(t, k, svc)
              \/ Refresh \/ Reap \/ Serve \/ (\E ev \in late : ServeLate(ev)) \/ validateRestoredSessions
              \/ Tick \/ UNCHANGED vars
       PROVE  mem' = mem
  BY <1>12 DEF Activate, Refresh, Reap, Serve, ServeLate, validateRestoredSessions, Tick, vars
<1>13. ASSUME NEW t \in Threads, Step(t)
       PROVE  \/ mem'.cap \in {mem.cap, NoEvidence}
              \/ th[t].pc = "evidence" /\ th'[t].pc = "post" /\ Moved(t) /\ Built /\ mem'.acc = mem.acc
  BY <1>1, <1>4, <1>5, <1>6, <1>7, <1>8, <1>9, <1>13 DEF Step
<1> QED
  BY <1>10, <1>11, <1>12, <1>13 DEF Next

(* What is submitted is made of such events. *)
Submitted == mem.cap # NoEvidence => mem.cap.events \in Seq(PEPEvents) /\ mem.cap.cp.created \in Int

LEMMA SubmittedNext ==
    Base /\ Types /\ ChainInv /\ Story /\ Submitted /\ [Next]_vars => Submitted'
<1> SUFFICES ASSUME Base, Types, ChainInv, Story, Submitted, [Next]_vars PROVE Submitted'
  OBVIOUS
<1>1. Links /\ Links' /\ Story'
  BY ChainNext, StoryNext DEF ChainInv
<1>2. CASE mem'.cap \in {mem.cap, NoEvidence}
  BY <1>2 DEF Submitted
<1>3. CASE Built /\ mem'.acc = mem.acc
  <2>1. mem'.log \in Seq(PEPEvents) /\ IsLog(mem'.log) /\ CpSound(mem'.acc) /\ IsPrefix(LogOf(mem'.acc), mem'.log)
    BY <1>1 DEF Links, Linked, Story, Logs
  <2>2. IsLog(LogOf(mem'.acc))
    BY <2>1, LogOfSound
  <2>3. Len(LogOf(mem'.acc)) \in Nat /\ Len(LogOf(mem'.acc)) <= Len(mem'.log)
    BY <2>1, <2>2, PrefixElements, LenNat
  <2> DEFINE n == Len(LogOf(mem'.acc))
             l == mem'.log
  <2>4. mem'.cap.events = SubSeq(l, n + 1, Len(l)) /\ mem'.cap.cp.created = clock
    BY <1>3 DEF Built
  <2> HIDE DEF n, l
  <2>5. l \in Seq(PEPEvents) /\ n \in Nat /\ n <= Len(l)
    BY <2>1, <2>3 DEF n, l
  <2>6. SubSeq(l, n + 1, Len(l)) \in Seq(PEPEvents)
    BY <2>5
  <2>7. clock \in Int
    BY ConfigAssumption DEF Types, GlobalTypes
  <2> QED
    BY <2>4, <2>6, <2>7 DEF Submitted
<1> QED
  BY <1>1, <1>2, <1>3, SubmissionSteps

LEMMA SubmittedInvariance == Sentinels /\ Spec => []Submitted
<1>1. Init => Submitted
  BY DEF Init, Submitted, Empty
<1> QED
  BY <1>1, SubmittedNext, BaseInvariance, TypesInvariance, ChainInvariance, StoryInvariance, PTL DEF Spec

-----------------------------------------------------------------------------
(* The loop of verifyEnforcementPolicy, whose lemmas are those of          *)
(* AppraisalHistoryProofs, here for the events of this PEP.                *)
Histories == INSTANCE AppraisalHistoryProofs
             WITH Candidates <- PEPEvents, Times <- {}, Scope <- Scope,
                  MaxDelta <- 0, MaxEvents <- 0, delta <- <<>>, accepted <- <<>>, active <- <<>>

LEMMA SameLoop ==
    ASSUME NEW events, NEW sessions, NEW maxLife, NEW scope
    PROVE  Histories!PolicyLoop(events, sessions, maxLife, scope) = PolicyLoop(events, sessions, maxLife, scope)
BY Zenon
DEF PolicyLoop, Histories!PolicyLoop, PolicyStep, Histories!PolicyStep, Admits, Histories!Admits,
    AdmitsSessionEvent, Histories!AdmitsSessionEvent, AfterEvent, Histories!AfterEvent,
    verifyObservedEvent, Histories!verifyObservedEvent, ProfileSatisfied, Histories!ProfileSatisfied,
    validateSessionLifetime, Histories!validateSessionLifetime,
    validateExpirationEvent, Histories!validateExpirationEvent,
    InScope, Histories!InScope, contains, Histories!contains, Stage, Histories!Stage,
    NoSession, Histories!NoSession, NoPlan, Histories!NoPlan, NoTime, Histories!NoTime,
    NoService, Histories!NoService, AllowedTypes, Histories!AllowedTypes,
    SessionTypes, Histories!SessionTypes,
    FoldLeft, Histories!FoldLeft, MapThenFoldSet, Histories!MapThenFoldSet, Max, Histories!Max

LEMMA SameTerms ==
    /\ Histories!NoSession = NoSession /\ Histories!Incomplete = Incomplete
    /\ Histories!SessionTypes = SessionTypes
    /\ \A o : Histories!ProfileSatisfied(o) <=> ProfileSatisfied(o)
<1>1. Histories!NoSession = NoSession
  BY DEF NoSession, Histories!NoSession, NoPlan, Histories!NoPlan, NoTime, Histories!NoTime
<1>2. Histories!Incomplete = Incomplete
  BY DEF Incomplete, Histories!Incomplete
<1>3. Histories!SessionTypes = SessionTypes
  BY DEF SessionTypes, Histories!SessionTypes
<1>4. \A o : Histories!ProfileSatisfied(o) <=> ProfileSatisfied(o)
  BY Zenon DEF ProfileSatisfied, Histories!ProfileSatisfied
<1> QED
  BY <1>1, <1>2, <1>3, <1>4

LEMMA CandidatesFit ==
    /\ \A e \in PEPEvents : (e.type \in Histories!SessionTypes => e.key \in Keys) /\ e.exp \in Int /\ e.ts \in Int
    /\ MaxSALifetime \in Int
<1>1. \A e \in PEPEvents : (e.type \in SessionTypes => e.key \in Keys) /\ e.exp \in Int /\ e.ts \in Int
  BY DEF PEPEvents
<1> QED
  BY <1>1, SameTerms, ConfigAssumption

LEMMA PEPLoopAccounts ==
    ASSUME NEW events \in Seq(PEPEvents), NEW sessions, DOMAIN sessions = Keys, NEW maxLife, NEW scope,
           PolicyLoop(events, sessions, maxLife, scope).ok,
           NEW k \in Keys, sessions[k] # NoSession \/ Intended(events, k)
    PROVE  \/ PolicyLoop(events, sessions, maxLife, scope).active[k] # NoSession
           \/ PolicyLoop(events, sessions, maxLife, scope).stage[k].phase \in Incomplete
           \/ Closed(events, k)
<1> DEFINE s == PolicyLoop(events, sessions, maxLife, scope)
<1>1. s = Histories!PolicyLoop(events, sessions, maxLife, scope)
  BY SameLoop
<1>2. Histories!IntendedIn(events, k) <=> Intended(events, k)
  BY DEF Histories!IntendedIn, Intended
<1>3. Histories!ClosedIn(events, k) <=> Closed(events, k)
  BY SameTerms DEF Histories!ClosedIn, Closed, Range
<1>4. \/ Histories!PolicyLoop(events, sessions, maxLife, scope).active[k] # Histories!NoSession
      \/ Histories!PolicyLoop(events, sessions, maxLife, scope).stage[k].phase \in Histories!Incomplete
      \/ Histories!ClosedIn(events, k)
  <2>1. Histories!PolicyLoop(events, sessions, maxLife, scope).ok
    BY <1>1
  <2>2. sessions[k] # Histories!NoSession \/ Histories!IntendedIn(events, k)
    BY <1>2, SameTerms
  <2> QED
    BY <2>1, <2>2, CandidatesFit, ProfileAssumption, Histories!LoopAccounts
<1> QED
  BY <1>1, <1>3, <1>4, SameTerms

LEMMA PEPLoopShape ==
    ASSUME NEW events \in Seq(PEPEvents), NEW sessions, DOMAIN sessions = Keys, NEW maxLife, NEW scope
    PROVE  /\ DOMAIN PolicyLoop(events, sessions, maxLife, scope).active = Keys
           /\ PolicyLoop(events, sessions, maxLife, scope).ok \in BOOLEAN
<1>1. Histories!Shaped(Histories!PolicyLoop(events, sessions, maxLife, scope))
  BY CandidatesFit, ProfileAssumption, Histories!LoopTurns
<1> QED
  BY <1>1, SameLoop DEF Histories!Shaped

-----------------------------------------------------------------------------
(* The Verifier tracks what it was told to be intended until it is told    *)
(* that it is gone.                                                        *)
Followed ==
    /\ DOMAIN ver.active = Keys
    /\ \A k \in Keys : Intended(LogOf(ver.cp), k) => ver.active[k] # NoSession \/ Closed(LogOf(ver.cp), k)

LEMMA AcceptedPart ==
    ASSUME Links
    PROVE  IsLog(LogOf(ver.cp)) /\ IsPrefix(LogOf(ver.cp), mem.log)
<1>1. CASE ver.cp = mem.acc
  BY <1>1, LogOfSound DEF Links, Linked
<1>2. CASE mem.cap # NoEvidence /\ ver.cp = mem.cap.cp
  BY <1>2 DEF Links, Linked, EvSound, LogOf
<1> QED
  BY <1>1, <1>2 DEF Links, Linked

LEMMA PrefixTyped ==
    ASSUME NEW S, NEW a, IsLog(a), NEW b \in Seq(S), IsPrefix(a, b)
    PROVE  a \in Seq(S)
<1>1. IsLog(b)
  BY DEF IsLog
<1>2. Len(a) <= Len(b) /\ \A i \in 1..Len(a) : a[i] = b[i]
  BY <1>1, PrefixElements
<1> PICK T : a \in Seq(T)
  BY DEF IsLog
<1>3. a = [i \in 1..Len(a) |-> a[i]] /\ Len(a) \in Nat /\ Len(b) \in Nat
  OBVIOUS
<1>4. \A i \in 1..Len(a) : a[i] \in S
  BY <1>2, <1>3
<1> QED
  BY <1>3, <1>4

LEMMA FollowedNext ==
    ChainInv /\ Story /\ Submitted /\ Followed /\ [Next]_vars => Followed'
<1> SUFFICES ASSUME ChainInv, Story, Submitted, Followed, [Next]_vars PROVE Followed'
  OBVIOUS
<1>1. CASE ver' = ver
  BY <1>1 DEF Followed
<1>2. CASE /\ mem.cap # NoEvidence /\ ver'.cp = mem.cap.cp
           /\ Acceptable(mem.cap) /\ ver'.active = Appraised(mem.cap).active
  <2> DEFINE es == mem.cap.events
             s == PolicyLoop(es, ver.active, MaxSALifetime, Scope)
             old == LogOf(ver.cp)
             new == LogOf(ver'.cp)
  <2>1. es \in Seq(PEPEvents) /\ DOMAIN ver.active = Keys
    BY <1>2 DEF Submitted, Followed
  <2>2. ver'.active = s.active /\ s.ok /\ \A k \in Keys : s.stage[k].phase \notin Incomplete
    BY <1>2 DEF Acceptable, Appraised, verifyEnforcementPolicy
  <2>3. mem.log \in Seq(PEPEvents) /\ Links
    BY DEF Story, Logs, ChainInv
  <2>4. old \in Seq(PEPEvents)
    BY <2>3, AcceptedPart, PrefixTyped
  <2>5. new = old \o es
    <3>1. mem.cap.cp # NoCp
      BY <1>2 DEF ChainInv, Links, Linked, EvSound
    <3>2. mem.cap.cp.log = old \o es
      BY <1>2 DEF Acceptable, VerifyHistoryEvidence
    <3> QED
      BY <1>2, <3>1, <3>2 DEF LogOf
  <2>6. DOMAIN s.active = Keys
    BY <2>1, PEPLoopShape
  <2>7. \A k \in Keys : ver.active[k] # NoSession \/ Intended(es, k) => s.active[k] # NoSession \/ Closed(es, k)
    BY <2>1, <2>2, PEPLoopAccounts
  <2> HIDE DEF es, s, old, new
  <2>8. Range(new) = Range(old) \cup Range(es)
    BY <2>1, <2>4, <2>5, RangeOfConcat
  <2>9. \A k : /\ Intended(new, k) => Intended(old, k) \/ Intended(es, k)
               /\ Closed(old, k) \/ Closed(es, k) => Closed(new, k)
    BY <2>8, IntendedIs DEF Closed
  <2>10. \A k \in Keys : Intended(old, k) => ver.active[k] # NoSession \/ Closed(old, k)
    BY DEF Followed, old
  <2>11. \A k \in Keys : Intended(new, k) => s.active[k] # NoSession \/ Closed(new, k)
    BY <2>7, <2>9, <2>10
  <2> QED
    BY <2>2, <2>6, <2>11 DEF Followed, new
<1> QED
  BY <1>1, <1>2, VerifierSteps

LEMMA FollowedInvariance == Sentinels /\ Spec => []Followed
<1>1. Init => Followed
  <2> SUFFICES ASSUME Init PROVE Followed
    OBVIOUS
  <2>1. LogOf(ver.cp) = <<>> /\ DOMAIN ver.active = Keys
    BY DEF Init, LogOf
  <2>2. \A k : ~Intended(<<>>, k)
    BY RangeOfShort, IntendedIs
  <2> QED
    BY <2>1, <2>2 DEF Followed
<1> QED
  BY <1>1, FollowedNext, ChainInvariance, StoryInvariance, SubmittedInvariance, PTL DEF Spec

(* Each kernel object of a running PEP belongs to a session whose apply    *)
(* intent is in its history, and the Verifier does not take for closed or  *)
(* never opened what the kernel still has: with crashes, failing commands, *)
(* observations and writes, and a network that loses and delays; for an    *)
(* observer that looks no object up, as long as no command fails           *)
(* (maybeDeleteXFRM, AppendEvent, verifyEnforcementPolicy).                *)
THEOREM TunnelsAreKnown == Sentinels /\ Spec => []NoHiddenTunnel
<1>1. ASSUME ChainInv, Traced, Followed PROVE NoHiddenTunnel
  <2> SUFFICES ASSUME NEW k \in Keys, kern[k] # {}
               PROVE  /\ Running => Intended(mem.log, k)
                      /\ Sighted /\ Intended(LogOf(ver.cp), k) => ver.active[k] # NoSession
    BY DEF NoHiddenTunnel
  <2>1. Running => Intended(mem.log, k)
    BY <1>1 DEF Traced, Installed
  <2>2. Sighted => ~Closed(mem.log, k)
    BY <1>1 DEF Traced, Gone
  <2>3. Range(LogOf(ver.cp)) \subseteq Range(mem.log)
    BY <1>1, AcceptedPart, RangeOfPrefix DEF ChainInv, Links, Linked
  <2>4. Closed(LogOf(ver.cp), k) => Closed(mem.log, k)
    BY <2>3 DEF Closed
  <2> QED
    BY <1>1, <2>1, <2>2, <2>4 DEF Followed
<1> QED
  BY <1>1, ChainInvariance, TracedInvariance, FollowedInvariance, PTL DEF Spec

-----------------------------------------------------------------------------
(* Submissions.  The whole history of the PEP, appraised in one piece.     *)
NoneTracked == [k \in Keys |-> NoSession]
Whole(log)  == PolicyLoop(log, NoneTracked, MaxSALifetime, Scope)

LEMMA SameStep ==
    /\ \A s, e, m, sc : Histories!Admits(s, e, m, sc) <=> Admits(s, e, m, sc)
    /\ \A s, e : Histories!AfterEvent(s, e) = AfterEvent(s, e)
<1>1. ASSUME NEW s, NEW e, NEW m, NEW sc PROVE Histories!Admits(s, e, m, sc) <=> Admits(s, e, m, sc)
  BY Zenon
  DEF Admits, Histories!Admits, AdmitsSessionEvent, Histories!AdmitsSessionEvent,
      verifyObservedEvent, Histories!verifyObservedEvent, ProfileSatisfied, Histories!ProfileSatisfied,
      validateSessionLifetime, Histories!validateSessionLifetime,
      validateExpirationEvent, Histories!validateExpirationEvent,
      InScope, Histories!InScope, contains, Histories!contains,
      NoSession, Histories!NoSession, NoPlan, Histories!NoPlan, NoTime, Histories!NoTime,
      NoService, Histories!NoService, AllowedTypes, Histories!AllowedTypes,
      SessionTypes, Histories!SessionTypes
<1>2. ASSUME NEW s, NEW e PROVE Histories!AfterEvent(s, e) = AfterEvent(s, e)
  BY Zenon
  DEF AfterEvent, Histories!AfterEvent, Stage, Histories!Stage,
      NoSession, Histories!NoSession, NoPlan, Histories!NoPlan, NoTime, Histories!NoTime
<1> QED
  BY <1>1, <1>2

(* The loop goes on with an event about a service the PEP may serve, if it *)
(* admits it.                                                              *)
Serves(e)      == e.type \in SessionTypes => e.service # NoService /\ contains(Scope, e.service)
InService(log) == \A e \in Range(log) : Serves(e)

Fits(log, e) ==
    /\ Serves(e)
    /\ e.type \in SessionTypes => AdmitsSessionEvent(Whole(log), e, MaxSALifetime)

LEMMA WholeStep ==
    ASSUME NEW log \in Seq(PEPEvents), NEW e \in PEPEvents, Whole(log).ok, Fits(log, e)
    PROVE  /\ Histories!Shaped(Whole(log)) /\ Whole(Append(log, e)).ok
           /\ Whole(Append(log, e)) = AfterEvent(Whole(log), e)
<1>1. DOMAIN NoneTracked = Keys
  BY DEF NoneTracked
<1> DEFINE s == Histories!PolicyLoop(log, NoneTracked, MaxSALifetime, Scope)
           r == Histories!PolicyLoop(Append(log, e), NoneTracked, MaxSALifetime, Scope)
<1>2. s = Whole(log) /\ r = Whole(Append(log, e))
  BY SameLoop DEF Whole
<1>3. /\ Histories!Shaped(s)
      /\ r.ok <=> s.ok /\ Histories!Admits(s, e, MaxSALifetime, Scope)
      /\ r.ok => r = Histories!AfterEvent(s, e)
  BY <1>1, CandidatesFit, ProfileAssumption, Histories!LoopGoesOn
<1> HIDE DEF s, r
<1>4. /\ e.type \in AllowedTypes
      /\ e.service = NoService \/ (e.type \in SessionTypes /\ e.whole /\ contains(Scope, e.service))
      /\ e.type \in SessionTypes => e.whole
  BY DEF PEPEvents, Fits, Serves
<1>5. Admits(Whole(log), e, MaxSALifetime, Scope)
  BY <1>4 DEF Admits, InScope, Fits
<1>6. Histories!Admits(s, e, MaxSALifetime, Scope)
  BY <1>2, <1>5, SameStep
<1>7. r.ok /\ r = AfterEvent(s, e)
  BY <1>2, <1>3, <1>6, SameStep
<1> QED
  BY <1>2, <1>3, <1>7

LEMMA WholeRemark ==
    ASSUME NEW log \in Seq(PEPEvents), NEW e, Remark(e), Whole(log).ok
    PROVE  Whole(Append(log, e)) = Whole(log)
<1>1. e \in PEPEvents /\ e.type \notin SessionTypes
  BY DEF Remark
<1>2. Whole(Append(log, e)) = AfterEvent(Whole(log), e)
  BY <1>1, WholeStep DEF Fits, Serves
<1>3. AfterEvent(Whole(log), e) = Whole(log)
  BY <1>1 DEF AfterEvent, SessionTypes
<1> QED
  BY <1>2, <1>3

(* r is s after an event of that type and plan about session k. *)
Advanced(s, r, type, k, plan, exp) ==
    /\ r.ok
    /\ \A x \in Keys \ {k} : r.active[x] = s.active[x] /\ r.stage[x] = s.stage[x]
    /\ r.stage[k].phase = Histories!PhaseAfter(type)
    /\ r.stage[k].plan = IF type \in {"xfrm_apply_intent", "xfrm_delete_intent"} THEN plan
                         ELSE IF type = "session_expired" THEN s.active[k].plan
                         ELSE s.stage[k].plan
    /\ r.active[k] = IF type = "session_activated" THEN [exp |-> exp, plan |-> s.stage[k].plan]
                     ELSE IF type = "xfrm_delete_observed" THEN NoSession
                     ELSE s.active[k]

LEMMA WholeAdvances ==
    ASSUME NEW log \in Seq(PEPEvents), NEW e \in PEPEvents, Whole(log).ok, Fits(log, e), e.type \in SessionTypes
    PROVE  e.key \in Keys /\ Advanced(Whole(log), Whole(Append(log, e)), e.type, e.key, e.plan, e.exp)
<1> DEFINE s == Whole(log)
           r == Histories!AfterEvent(s, e)
<1>1. e.key \in Keys /\ e.type \in Histories!SessionTypes
  BY SameTerms DEF PEPEvents
<1>2. Histories!Shaped(s) /\ Whole(Append(log, e)).ok /\ Whole(Append(log, e)) = r
  BY WholeStep, SameStep
<1> HIDE DEF s
<1>3. /\ \A x \in Keys : x # e.key => r.active[x] = s.active[x] /\ r.stage[x] = s.stage[x]
      /\ r.stage[e.key].phase = Histories!PhaseAfter(e.type)
      /\ r.stage[e.key].plan
           = IF e.type \in {"xfrm_apply_intent", "xfrm_delete_intent"} THEN e.plan
             ELSE IF e.type = "session_expired" THEN s.active[e.key].plan
             ELSE s.stage[e.key].plan
      /\ r.active[e.key]
           = IF e.type = "session_activated" THEN [exp |-> e.exp, plan |-> s.stage[e.key].plan]
             ELSE IF e.type = "xfrm_delete_observed" THEN Histories!NoSession
             ELSE s.active[e.key]
  BY <1>1, <1>2, CandidatesFit, ProfileAssumption, Histories!AfterSession
<1> HIDE DEF r
<1>4. Advanced(s, r, e.type, e.key, e.plan, e.exp)
  BY <1>2, <1>3, SameTerms, Zenon DEF Advanced
<1> QED
  BY <1>1, <1>2, <1>4 DEF s

(* Nothing is open in the history but what is about K, and it tracks the   *)
(* sessions of the table S.                                                *)
Settled(log, K) == Whole(log).ok /\ \A k \in Keys \ K : Whole(log).stage[k].phase \notin Incomplete

Carries(log, S) ==
    /\ \A s \in S : Whole(log).active[s.id] = [exp |-> s.exp, plan |-> s.id]
    /\ \A k \in Keys : Whole(log).active[k] # NoSession => Known(S, k)

Open(log, S, k, at) ==
    /\ Settled(log, {k}) /\ Carries(log, S)
    /\ Whole(log).stage[k].phase = at /\ Whole(log).stage[k].plan = k

LEMMA IntentOpens ==
    ASSUME Types, NEW log \in Seq(PEPEvents), NEW S \in SUBSET Sessions, NEW s \in Sessions, NEW e,
           About(e, "xfrm_apply_intent", s, s.id, NoObs), Serves(e), s.exp <= clock + MaxSALifetime,
           Settled(log, {}), Carries(log, S), ~Mentioned(log, s.id)
    PROVE  Open(Append(log, e), S, s.id, "apply_intent")
<1> DEFINE w == Whole(log)
           r == Whole(Append(log, e))
<1>0. MaxTime \in Int /\ SALifetime \in Int /\ MaxSALifetime \in Int /\ MaxSALifetime > 0
      /\ NoPlan \notin Keys
  BY ConfigAssumption
<1>1. s.id \in Keys /\ s.exp \in Int /\ s.exp >= 0 /\ clock \in Int
  BY <1>0 DEF Sessions, Types, GlobalTypes
<1>2. /\ e \in PEPEvents /\ e.type = "xfrm_apply_intent" /\ e.key = s.id /\ e.plan = s.id
      /\ e.exp = s.exp /\ e.ts = clock
  BY DEF About
<1>3. w.active[s.id] = NoSession /\ w.stage[s.id].phase = "none"
  <2>1. DOMAIN NoneTracked = Keys /\ NoneTracked[s.id] = NoSession
    BY <1>1 DEF NoneTracked
  <2>2. \A i \in DOMAIN log : log[i].key # s.id
    BY DEF Mentioned, Range
  <2>3. Histories!PolicyLoop(log, NoneTracked, MaxSALifetime, Scope) = w
    BY SameLoop DEF Whole
  <2>4. /\ Histories!PolicyLoop(log, NoneTracked, MaxSALifetime, Scope).active[s.id] = NoneTracked[s.id]
        /\ Histories!PolicyLoop(log, NoneTracked, MaxSALifetime, Scope).stage[s.id].phase = "none"
    BY <1>1, <2>1, <2>2, CandidatesFit, ProfileAssumption, Histories!LoopIgnores
  <2> QED
    BY <2>1, <2>3, <2>4
<1>4. validateSessionLifetime(e, MaxSALifetime)
  BY <1>0, <1>1, <1>2 DEF validateSessionLifetime, NoTime
<1>5. w.ok
  BY DEF Settled
<1> HIDE DEF w
<1>6. AdmitsSessionEvent(w, e, MaxSALifetime)
  BY <1>0, <1>1, <1>2, <1>3, <1>4 DEF AdmitsSessionEvent
<1>7. Fits(log, e) /\ e.type \in SessionTypes
  BY <1>2, <1>6 DEF Fits, SessionTypes, w
<1>8. Advanced(w, r, "xfrm_apply_intent", s.id, s.id, s.exp)
  BY <1>2, <1>5, <1>7, WholeAdvances DEF w
<1> HIDE DEF r
<1>9. /\ r.ok /\ r.stage[s.id].phase = "apply_intent" /\ r.stage[s.id].plan = s.id
      /\ \A x \in Keys : r.active[x] = w.active[x] /\ (x # s.id => r.stage[x] = w.stage[x])
  BY <1>8 DEF Advanced, Histories!PhaseAfter
<1>10. Settled(Append(log, e), {s.id})
  BY <1>9 DEF Settled, w, r
<1>11. Carries(Append(log, e), S)
  BY <1>9 DEF Carries, Sessions, w, r
<1> QED
  BY <1>9, <1>10, <1>11 DEF Open, r

(* An event about a session that the loop admits advances the loop. *)
LEMMA EventAdvances ==
    ASSUME NEW log \in Seq(PEPEvents), NEW s \in Sessions, NEW type \in SessionTypes, NEW plan, NEW o, NEW e,
           About(e, type, s, plan, o), Serves(e), Whole(log).ok, AdmitsSessionEvent(Whole(log), e, MaxSALifetime)
    PROVE  /\ s.id \in Keys /\ Append(log, e) \in Seq(PEPEvents)
           /\ Advanced(Whole(log), Whole(Append(log, e)), type, s.id, plan, s.exp)
<1>1. /\ e \in PEPEvents /\ e.type = type /\ e.key = s.id /\ e.plan = plan /\ e.exp = s.exp
  BY DEF About
<1>2. Fits(log, e)
  BY <1>1 DEF Fits
<1>3. e.key \in Keys /\ Advanced(Whole(log), Whole(Append(log, e)), e.type, e.key, e.plan, e.exp)
  BY <1>1, <1>2, WholeAdvances
<1> QED
  BY <1>1, <1>3

LEMMA ObservationOpens ==
    ASSUME NEW log \in Seq(PEPEvents), NEW S \in SUBSET Sessions, NEW s \in Sessions, NEW o, NEW e,
           About(e, "xfrm_apply_observed", s, s.id, o), Serves(e), ProfileSatisfied(o), Open(log, S, s.id, "apply_intent")
    PROVE  Append(log, e) \in Seq(PEPEvents) /\ Open(Append(log, e), S, s.id, "apply_observed")
<1> DEFINE w == Whole(log)
           r == Whole(Append(log, e))
<1>1. s.id \in Keys /\ s.id # NoPlan
  BY ConfigAssumption DEF Sessions
<1>2. e.type = "xfrm_apply_observed" /\ e.key = s.id /\ e.plan = s.id /\ e.obs = o
  BY DEF About
<1>3. w.ok /\ w.stage[s.id].phase = "apply_intent" /\ w.stage[s.id].plan = s.id
  BY DEF Open, Settled
<1> HIDE DEF w
<1>4. AdmitsSessionEvent(w, e, MaxSALifetime)
  BY <1>1, <1>2, <1>3 DEF AdmitsSessionEvent, verifyObservedEvent
<1>5. "xfrm_apply_observed" \in SessionTypes
  BY DEF SessionTypes
<1>6. Append(log, e) \in Seq(PEPEvents) /\ Advanced(w, r, "xfrm_apply_observed", s.id, s.id, s.exp)
  BY <1>3, <1>4, <1>5, EventAdvances DEF w
<1> HIDE DEF r
<1>7. /\ r.ok /\ r.stage[s.id].phase = "apply_observed" /\ r.stage[s.id].plan = s.id
      /\ \A x \in Keys : r.active[x] = w.active[x] /\ (x # s.id => r.stage[x] = w.stage[x])
  BY <1>3, <1>6 DEF Advanced, Histories!PhaseAfter
<1>8. Settled(Append(log, e), {s.id})
  BY <1>7 DEF Open, Settled, w, r
<1>9. Carries(Append(log, e), S)
  BY <1>7 DEF Open, Carries, Sessions, w, r
<1> QED
  BY <1>6, <1>7, <1>8, <1>9 DEF Open, r

LEMMA ActivationSettles ==
    ASSUME NEW log \in Seq(PEPEvents), NEW S \in SUBSET Sessions, NEW s \in Sessions, NEW e,
           About(e, "session_activated", s, NoPlan, NoObs), Serves(e), Open(log, S, s.id, "apply_observed"),
           \A u \in S : u.id # s.id
    PROVE  Settled(Append(log, e), {}) /\ Carries(Append(log, e), S \cup {s})
<1> DEFINE w == Whole(log)
           r == Whole(Append(log, e))
<1>0. MaxTime \in Int /\ SALifetime \in Int
  BY ConfigAssumption
<1>1. s.id \in Keys /\ s.exp \in Int /\ s.exp >= 0
  BY <1>0 DEF Sessions
<1>2. e.type = "session_activated" /\ e.key = s.id /\ e.exp = s.exp
  BY DEF About
<1>3. w.ok /\ w.stage[s.id].phase = "apply_observed" /\ w.stage[s.id].plan = s.id
  BY DEF Open, Settled
<1> HIDE DEF w
<1>4. AdmitsSessionEvent(w, e, MaxSALifetime)
  BY <1>1, <1>2, <1>3 DEF AdmitsSessionEvent, NoTime
<1>5. "session_activated" \in SessionTypes
  BY DEF SessionTypes
<1>6. Advanced(w, r, "session_activated", s.id, NoPlan, s.exp)
  BY <1>3, <1>4, <1>5, EventAdvances DEF w
<1> HIDE DEF r
<1>7. /\ r.ok /\ r.stage[s.id].phase = "active" /\ r.active[s.id] = [exp |-> s.exp, plan |-> s.id]
      /\ \A x \in Keys : x # s.id => r.active[x] = w.active[x] /\ r.stage[x] = w.stage[x]
  BY <1>3, <1>6 DEF Advanced, Histories!PhaseAfter
<1>8. Settled(Append(log, e), {})
  BY <1>7 DEF Open, Settled, Incomplete, w, r
<1>9. \A u \in S \cup {s} : r.active[u.id] = [exp |-> u.exp, plan |-> u.id]
  BY <1>7 DEF Open, Carries, Sessions, w
<1>10. \A k \in Keys : r.active[k] # NoSession => Known(S \cup {s}, k)
  BY <1>7 DEF Open, Carries, Known, w
<1> QED
  BY <1>8, <1>9, <1>10 DEF Carries, r

LEMMA ExpiryOpens ==
    ASSUME Types, NEW log \in Seq(PEPEvents), NEW S \in SUBSET Sessions, NEW d \in S, d.exp <= clock, NEW e,
           About(e, "session_expired", d, NoPlan, NoObs), Serves(e), Settled(log, {}), Carries(log, S)
    PROVE  Append(log, e) \in Seq(PEPEvents) /\ Open(Append(log, e), S, d.id, "expired")
<1> DEFINE w == Whole(log)
           r == Whole(Append(log, e))
<1>0. MaxTime \in Int /\ SALifetime \in Int /\ NoPlan \notin Keys
  BY ConfigAssumption
<1>1. d \in Sessions /\ d.id \in Keys /\ d.exp \in Int /\ clock \in Int
  BY <1>0 DEF Sessions, Types, GlobalTypes
<1>2. e.type = "session_expired" /\ e.key = d.id /\ e.exp = d.exp /\ e.ts = clock
  BY DEF About
<1>3. w.ok /\ w.active[d.id] = [exp |-> d.exp, plan |-> d.id]
  BY DEF Settled, Carries
<1>4. w.active[d.id] # NoSession /\ w.active[d.id].exp = d.exp /\ w.active[d.id].plan = d.id
  BY <1>0, <1>1, <1>3 DEF NoSession
<1> HIDE DEF w
<1>5. AdmitsSessionEvent(w, e, MaxSALifetime)
  BY <1>1, <1>2, <1>4 DEF AdmitsSessionEvent, validateExpirationEvent
<1>6. "session_expired" \in SessionTypes
  BY DEF SessionTypes
<1>7. Append(log, e) \in Seq(PEPEvents) /\ Advanced(w, r, "session_expired", d.id, NoPlan, d.exp)
  BY <1>1, <1>3, <1>5, <1>6, EventAdvances DEF w
<1> HIDE DEF r
<1>8. /\ r.ok /\ r.stage[d.id].phase = "expired" /\ r.stage[d.id].plan = d.id
      /\ \A x \in Keys : r.active[x] = w.active[x] /\ (x # d.id => r.stage[x] = w.stage[x])
  BY <1>4, <1>7 DEF Advanced, Histories!PhaseAfter
<1>9. Settled(Append(log, e), {d.id})
  BY <1>8 DEF Settled, w, r
<1>10. Carries(Append(log, e), S)
  BY <1>8 DEF Carries, Sessions, w, r
<1> QED
  BY <1>7, <1>8, <1>9, <1>10 DEF Open, r

LEMMA DeleteIntentOpens ==
    ASSUME NEW log \in Seq(PEPEvents), NEW S \in SUBSET Sessions, NEW d \in S, NEW e,
           About(e, "xfrm_delete_intent", d, d.id, NoObs), Serves(e), Open(log, S, d.id, "expired")
    PROVE  Open(Append(log, e), S, d.id, "delete_intent")
<1> DEFINE w == Whole(log)
           r == Whole(Append(log, e))
<1>1. d \in Sessions /\ d.id \in Keys /\ d.id # NoPlan
  BY ConfigAssumption DEF Sessions
<1>2. e.type = "xfrm_delete_intent" /\ e.key = d.id /\ e.plan = d.id
  BY DEF About
<1>3. w.ok /\ w.stage[d.id].phase = "expired" /\ w.active[d.id] = [exp |-> d.exp, plan |-> d.id]
  BY DEF Open, Settled, Carries
<1>4. w.active[d.id] # NoSession /\ w.active[d.id].plan = d.id
  BY <1>1, <1>3 DEF NoSession
<1> HIDE DEF w
<1>5. AdmitsSessionEvent(w, e, MaxSALifetime)
  BY <1>1, <1>2, <1>3, <1>4 DEF AdmitsSessionEvent
<1>6. "xfrm_delete_intent" \in SessionTypes
  BY DEF SessionTypes
<1>7. Advanced(w, r, "xfrm_delete_intent", d.id, d.id, d.exp)
  BY <1>1, <1>3, <1>5, <1>6, EventAdvances DEF w
<1> HIDE DEF r
<1>8. /\ r.ok /\ r.stage[d.id].phase = "delete_intent" /\ r.stage[d.id].plan = d.id
      /\ \A x \in Keys : r.active[x] = w.active[x] /\ (x # d.id => r.stage[x] = w.stage[x])
  BY <1>7 DEF Advanced, Histories!PhaseAfter
<1>9. Settled(Append(log, e), {d.id})
  BY <1>8 DEF Open, Settled, w, r
<1>10. Carries(Append(log, e), S)
  BY <1>8 DEF Open, Carries, Sessions, w, r
<1> QED
  BY <1>8, <1>9, <1>10 DEF Open, r

LEMMA DeletionSettles ==
    ASSUME NEW log \in Seq(PEPEvents), NEW S \in SUBSET Sessions, NEW d \in Sessions, NEW o, NEW e,
           About(e, "xfrm_delete_observed", d, d.id, o), Serves(e), ProfileSatisfied(o), Open(log, S, d.id, "delete_intent")
    PROVE  Settled(Append(log, e), {}) /\ Carries(Append(log, e), {s \in S : s.id # d.id})
<1> DEFINE w == Whole(log)
           r == Whole(Append(log, e))
<1>1. d.id \in Keys /\ d.id # NoPlan
  BY ConfigAssumption DEF Sessions
<1>2. e.type = "xfrm_delete_observed" /\ e.key = d.id /\ e.plan = d.id /\ e.obs = o
  BY DEF About
<1>3. w.ok /\ w.stage[d.id].phase = "delete_intent" /\ w.stage[d.id].plan = d.id
  BY DEF Open, Settled
<1> HIDE DEF w
<1>4. AdmitsSessionEvent(w, e, MaxSALifetime)
  BY <1>1, <1>2, <1>3 DEF AdmitsSessionEvent, verifyObservedEvent
<1>5. "xfrm_delete_observed" \in SessionTypes
  BY DEF SessionTypes
<1>6. Advanced(w, r, "xfrm_delete_observed", d.id, d.id, d.exp)
  BY <1>3, <1>4, <1>5, EventAdvances DEF w
<1> HIDE DEF r
<1>7. /\ r.ok /\ r.stage[d.id].phase = "deleted" /\ r.active[d.id] = NoSession
      /\ \A x \in Keys : x # d.id => r.active[x] = w.active[x] /\ r.stage[x] = w.stage[x]
  BY <1>6 DEF Advanced, Histories!PhaseAfter
<1>8. Settled(Append(log, e), {})
  BY <1>7 DEF Open, Settled, Incomplete, w, r
<1>9. \A u \in {s \in S : s.id # d.id} : r.active[u.id] = [exp |-> u.exp, plan |-> u.id]
  BY <1>7 DEF Open, Carries, Sessions, w
<1>10. \A k \in Keys : r.active[k] # NoSession => Known({s \in S : s.id # d.id}, k)
  BY <1>7 DEF Open, Carries, Known, w
<1> QED
  BY <1>8, <1>9, <1>10 DEF Carries, r

(* The PEP's own profile is that of the Verifier. *)
LEMMA ProfilesAgree == \A o : observationMeetsLocalProfile(o) => ProfileSatisfied(o)
BY ProfileAssumption DEF observationMeetsLocalProfile, ProfileSatisfied

-----------------------------------------------------------------------------
(* As long as nothing but the network fails, the history is settled when   *)
(* no transaction is in progress and tracks the sessions of the table, in  *)
(* memory and in the state file; during a transaction it is open at the    *)
(* session of the transaction alone.  All this of a history that tells of  *)
(* no session out of scope.                                                *)
Smooth   == Only({"network"})
Sound(m) == Settled(m.log, {}) /\ Carries(m.log, m.sess)

Opens(t) ==
    /\ th[t].pc = "apply" => Open(mem.log, mem.sess, th[t].s.id, "apply_intent")
    /\ th[t].pc = "delete" => Open(mem.log, mem.sess, th[t].d.id, "delete_intent")

MemoryInOrder ==
    /\ (\A t \in Threads : th[t].pc \notin InTransaction) => Sound(mem)
    /\ \A t \in Threads : Opens(t)

OrderHolds == (InService(disk.log) => Sound(disk)) /\ (InService(mem.log) => MemoryInOrder)

Ordered == Smooth => OrderHolds

LEMMA WholeStart ==
    /\ Settled(<<>>, {}) /\ Carries(<<>>, {})
    /\ \A k \in Keys : Whole(<<>>).active[k] = NoSession
<1>1. Histories!PolicyLoop(<<>>, NoneTracked, MaxSALifetime, Scope) = Whole(<<>>)
  BY SameLoop DEF Whole
<1>2. Histories!PolicyLoop(<<>>, NoneTracked, MaxSALifetime, Scope) = Histories!Start(NoneTracked)
  BY CandidatesFit, ProfileAssumption, Histories!LoopEmpty
<1>3. Whole(<<>>) = Histories!Start(NoneTracked)
  BY <1>1, <1>2
<1>4. /\ Whole(<<>>).ok
      /\ \A k \in Keys : Whole(<<>>).active[k] = NoSession /\ Whole(<<>>).stage[k].phase = "none"
  BY <1>3 DEF Histories!Start, Histories!Stage, NoneTracked
<1> QED
  BY <1>4 DEF Settled, Carries, Incomplete

LEMMA OrderedInit == Init => Ordered
<1> SUFFICES ASSUME Init PROVE OrderHolds
  BY DEF Ordered
<1>1. mem.log = <<>> /\ disk.log = <<>> /\ mem.sess = {} /\ disk.sess = {}
  BY DEF Init, Empty
<1>2. \A t \in Threads : th[t].pc = "idle"
  BY RestingShape DEF Init
<1> QED
  BY <1>1, <1>2, WholeStart DEF OrderHolds, MemoryInOrder, Sound, Opens

(* A longer history is in service only if the shorter one is. *)
LEMMA ServiceBefore ==
    ASSUME NEW log, NEW longer, Range(log) \subseteq Range(longer), InService(longer)
    PROVE  InService(log)
BY DEF InService

LEMMA RemarkKeeps ==
    ASSUME NEW log \in Seq(PEPEvents), NEW e, Remark(e), Whole(log).ok
    PROVE  /\ \A K : Settled(Append(log, e), K) <=> Settled(log, K)
           /\ \A S : Carries(Append(log, e), S) <=> Carries(log, S)
           /\ \A S, k, at : Open(Append(log, e), S, k, at) <=> Open(log, S, k, at)
<1>1. Whole(Append(log, e)) = Whole(log)
  BY WholeRemark
<1> QED
  BY <1>1 DEF Settled, Carries, Open

LEMMA OrderedCalm ==
    ASSUME Base, Types, Story, OrderHolds, NEW t \in Threads, Calm(t)
    PROVE  OrderHolds'
<1>1. \A u \in Threads : th'[u].pc \in InTransaction \/ th[u].pc \in InTransaction => th'[u] = th[u]
  BY DEF Calm, Moved
<1>2. mem'.log = mem.log \/ \E e : Remark(e) /\ Adds(mem.log, e)
  BY CalmHistory DEF Story
<1>3. InService(mem'.log) => InService(mem.log)
  BY <1>2, ServiceBefore DEF Adds
<1>4. mem'.sess = mem.sess
  BY DEF Calm
<1>5. ASSUME InService(mem'.log)
      PROVE  MemoryInOrder' /\ ((\A u \in Threads : th[u].pc \notin InTransaction) => Sound(mem'))
  <2>1. MemoryInOrder
    BY <1>3, <1>5 DEF OrderHolds
  <2>2. Whole(mem.log).ok /\ mem.log \in Seq(PEPEvents)
    BY <2>1 DEF MemoryInOrder, Sound, Opens, Open, Settled, InTransaction, Story, Logs
  <2>3. /\ \A K : Settled(mem.log, K) => Settled(mem'.log, K)
        /\ \A S : Carries(mem.log, S) => Carries(mem'.log, S)
        /\ \A S, k, at : Open(mem.log, S, k, at) => Open(mem'.log, S, k, at)
    <3>1. CASE mem'.log = mem.log
      BY <3>1
    <3>2. ASSUME NEW e, Remark(e), Adds(mem.log, e)
          PROVE  /\ \A K : Settled(mem.log, K) => Settled(mem'.log, K)
                 /\ \A S : Carries(mem.log, S) => Carries(mem'.log, S)
                 /\ \A S, k, at : Open(mem.log, S, k, at) => Open(mem'.log, S, k, at)
      BY <2>2, <3>2, RemarkKeeps DEF Adds
    <3> QED
      BY <1>2, <3>1, <3>2
  <2>4. Sound(mem) => Sound(mem')
    BY <1>4, <2>3 DEF Sound
  <2>5. (\A u \in Threads : th'[u].pc \notin InTransaction) => Sound(mem')
    BY <1>1, <2>1, <2>4 DEF MemoryInOrder
  <2>6. \A u \in Threads : Opens(u)'
    BY <1>1, <1>4, <2>1, <2>3 DEF MemoryInOrder, Opens, InTransaction
  <2> QED
    BY <2>1, <2>4, <2>5, <2>6 DEF MemoryInOrder, Sound
<1>6. InService(disk'.log) => Sound(disk')
  <2>1. CASE disk' = disk
    BY <2>1 DEF OrderHolds
  <2>2. CASE th[t].pc \in TokenCS /\ disk' = mem'
    <3>1. \A u \in Threads : th[u].pc \notin InTransaction
      BY <2>2, Alone DEF TokenCS, HistoryCS, InTransaction
    <3> QED
      BY <1>5, <2>2, <3>1
  <2> QED
    BY <2>1, <2>2 DEF Calm, Notes
<1> QED
  BY <1>5, <1>6 DEF OrderHolds, Sound, InService

LEMMA OrderedDelete ==
    ASSUME Base, Types, Story, Traced, Smooth, ~Fault("persist"), ~Fault("command"), ~Fault("observe"),
           OrderHolds, NEW t \in Threads,
           (\E d \in th[t].todo : BeginsDelete(t, d)) \/ Deletes(t) \/ EndsDelete(t)
    PROVE  OrderHolds'
<1>1. th[t].pc \in HistoryCS /\ th[t].pc \in {"drain", "delete"} /\ Moved(t)
  BY DEF BeginsDelete, Deletes, EndsDelete, HistoryCS
<1>2. \A u \in Threads \ {t} : th[u].pc \notin InTransaction /\ th'[u] = th[u]
  BY <1>1, Alone DEF Moved
<1>3. \A u \in Threads \ {t} : Opens(u)'
  BY <1>2 DEF Opens, InTransaction
<1>4. mem.sess \in SUBSET Sessions /\ mem.log \in Seq(PEPEvents)
  BY DEF Types, GlobalTypes, Story, Logs
<1>5. ASSUME NEW d \in th[t].todo, BeginsDelete(t, d) PROVE OrderHolds'
  <2>1. InService(mem.log) => Sound(mem)
    BY <1>2, <1>5 DEF OrderHolds, MemoryInOrder, BeginsDelete, InTransaction
  <2>2. d \in mem.sess /\ d.exp <= clock
    BY <1>5 DEF Story, Due, BeginsDelete
  <2>3. PICK a, b : /\ About(a, "session_expired", d, NoPlan, NoObs) /\ About(b, "xfrm_delete_intent", d, d.id, NoObs)
                    /\ AddsTwo(mem.log, a, b)
    BY <1>4, <1>5, <2>2, ExpiryHistory DEF Story
  <2>5. ASSUME InService(mem'.log)
        PROVE  Open(Append(Append(mem.log, a), b), mem.sess, d.id, "delete_intent")
    <3>1. InService(mem.log) /\ Serves(a) /\ Serves(b)
      BY <2>3, <2>5 DEF AddsTwo, InService
    <3>2. Append(mem.log, a) \in Seq(PEPEvents) /\ Open(Append(mem.log, a), mem.sess, d.id, "expired")
      BY <1>4, <2>1, <2>2, <2>3, <3>1, ExpiryOpens DEF Sound
    <3> QED
      BY <1>4, <2>2, <2>3, <3>1, <3>2, DeleteIntentOpens
  <2>6. /\ mem'.log = Append(Append(mem.log, a), b) /\ mem'.sess = mem.sess /\ th'[t].pc = "delete" /\ th'[t].d = d
        /\ disk'.log = mem.log /\ disk'.sess = mem.sess
    BY <1>5, <2>3 DEF BeginsDelete, ExpiryRecorded, AddsTwo
  <2>7. InService(mem'.log) => Opens(t)'
    BY <2>5, <2>6 DEF Opens
  <2>8. InService(disk'.log) => Sound(disk')
    BY <2>1, <2>6 DEF Sound
  <2> QED
    BY <1>3, <2>6, <2>7, <2>8 DEF OrderHolds, MemoryInOrder, InTransaction, Sound, InService
<1>6. CASE Deletes(t)
  <2>1. mem' = mem /\ disk' = disk /\ th'[t].pc = "delete" /\ th[t].pc = "delete" /\ th'[t].d = th[t].d
    BY <1>6 DEF Deletes
  <2>2. InService(mem.log) => Opens(t)'
    BY <2>1 DEF OrderHolds, MemoryInOrder, Opens
  <2> QED
    BY <1>3, <2>1, <2>2 DEF OrderHolds, MemoryInOrder, InTransaction, Sound, InService
<1>7. CASE EndsDelete(t)
  <2> DEFINE d == th[t].d
  <2>1. th[t].pc = "delete" /\ th[t].i = NCommands + 1 /\ th'[t].pc \notin InTransaction
    BY <1>7 DEF EndsDelete
  <2>2. d \in Sessions
    BY <1>4, <2>1 DEF Story, Due
  <2>3. ExactlyDeleted(d.id)
    <3>1. Unfailing
      BY DEF Smooth, Unfailing, Only
    <3>2. kern[d.id] \subseteq (NCommands + 1)..NCommands
      BY <2>1, <3>1 DEF Traced, Removed
    <3>3. NCommands \in Nat
      BY ConfigAssumption
    <3> QED
      BY <3>2, <3>3 DEF ExactlyDeleted
  <2>4. PICK o, e :
             /\ o \in Observations(ExactlyDeleted(d.id))
             /\ About(e, "xfrm_delete_observed", d, d.id, o) /\ Adds(mem.log, e)
             /\ \/ /\ observationMeetsLocalProfile(o) /\ disk' = mem'
                   /\ mem'.sess = {s \in mem.sess : s.id # d.id}
                \/ Fault("persist")
                \/ ExactlyDeleted(d.id) => Fault("observe")
    BY <1>7, DeletionHistory, Zenon DEF Story
  <2>5. InService(mem.log) => Open(mem.log, mem.sess, d.id, "delete_intent")
    BY <2>1 DEF OrderHolds, MemoryInOrder, Opens
  <2> HIDE DEF d
  <2>6. /\ observationMeetsLocalProfile(o) /\ disk' = mem'
        /\ mem'.sess = {s \in mem.sess : s.id # d.id} /\ mem'.log = Append(mem.log, e)
    BY <2>3, <2>4 DEF Adds
  <2>7. ProfileSatisfied(o)
    BY <2>6, ProfilesAgree
  <2>8. ASSUME InService(mem'.log)
        PROVE  Settled(Append(mem.log, e), {}) /\ Carries(Append(mem.log, e), {s \in mem.sess : s.id # d.id})
    <3>1. InService(mem.log) /\ Serves(e)
      BY <2>4, <2>8 DEF Adds, InService
    <3> QED
      BY <1>4, <2>2, <2>4, <2>5, <2>7, <3>1, DeletionSettles
  <2>9. InService(mem'.log) => Sound(mem')
    BY <2>6, <2>8 DEF Sound
  <2>10. Opens(t)'
    BY <2>1 DEF Opens, InTransaction
  <2> QED
    BY <1>3, <2>6, <2>9, <2>10 DEF OrderHolds, MemoryInOrder, Sound, InService
<1> QED
  BY <1>5, <1>6, <1>7

LEMMA OrderedApply ==
    ASSUME Base, Types, Marked, Story, Smooth, ~Fault("persist"), ~Fault("command"), ~Fault("observe"),
           OrderHolds, NEW t \in Threads, BeginsApply(t) \/ Applies(t) \/ EndsApply(t)
    PROVE  OrderHolds'
<1> DEFINE s == th[t].s
<1>1. /\ th[t].pc \in HistoryCS \/ histMu = Free
      /\ Moved(t) /\ t \in Activators /\ s \in Sessions /\ s.id \in Keys
  <2>1. t \in Activators /\ s \in Sessions
    BY DEF BeginsApply, Applies, EndsApply, Types, ThreadTypes
  <2>2. (th[t].pc \in HistoryCS \/ histMu = Free) /\ Moved(t)
    BY DEF BeginsApply, Applies, EndsApply, HistoryCS
  <2> QED
    BY <2>1, <2>2 DEF Sessions
<1>2. \A u \in Threads \ {t} : th[u].pc \notin InTransaction /\ th'[u] = th[u]
  BY <1>1, Alone DEF Moved
<1>3. \A u \in Threads \ {t} : Opens(u)'
  BY <1>2 DEF Opens, InTransaction
<1>4. mem.sess \in SUBSET Sessions /\ mem.log \in Seq(PEPEvents)
  BY DEF Types, GlobalTypes, Story, Logs
<1>5. CASE BeginsApply(t)
  <2>1. InService(mem.log) => Sound(mem)
    BY <1>2, <1>5 DEF OrderHolds, MemoryInOrder, BeginsApply, InTransaction
  <2>2. ~Mentioned(mem.log, s.id) /\ s.exp <= clock + MaxSALifetime
    BY <1>1, <1>5 DEF Story, Virgin, Due, BeginsApply
  <2>3. /\ th'[t].pc = "apply" /\ th'[t].s = s /\ mem'.sess = mem.sess
        /\ disk'.log = mem.log /\ disk'.sess = mem.sess
    BY <1>5 DEF BeginsApply, IntentRecorded
  <2>4. PICK e : About(e, "xfrm_apply_intent", s, s.id, NoObs) /\ Adds(mem.log, e)
    BY <1>5, IntentHistory DEF Story
  <2> HIDE DEF s
  <2>5. ASSUME InService(mem'.log) PROVE Open(Append(mem.log, e), mem.sess, s.id, "apply_intent")
    <3>1. InService(mem.log) /\ Serves(e)
      BY <2>4, <2>5 DEF Adds, InService
    <3> QED
      BY <1>1, <1>4, <2>1, <2>2, <2>4, <3>1, IntentOpens DEF Sound
  <2>6. InService(mem'.log) => Opens(t)'
    BY <2>3, <2>4, <2>5 DEF Opens, Adds
  <2>7. InService(disk'.log) => Sound(disk')
    BY <2>1, <2>3 DEF Sound
  <2> QED
    BY <1>3, <2>3, <2>6, <2>7 DEF OrderHolds, MemoryInOrder, InTransaction, Sound, InService
<1>6. CASE Applies(t)
  <2>1. mem' = mem /\ disk' = disk /\ th'[t].pc = "apply" /\ th[t].pc = "apply" /\ th'[t].s = th[t].s
    BY <1>6 DEF Applies
  <2>2. InService(mem.log) => Opens(t)'
    BY <2>1 DEF OrderHolds, MemoryInOrder, Opens
  <2> QED
    BY <1>3, <2>1, <2>2 DEF OrderHolds, MemoryInOrder, InTransaction, Sound, InService
<1>7. CASE EndsApply(t)
  <2>1. th[t].pc = "apply" /\ th[t].i = NCommands + 1 /\ th'[t].pc = "idle"
    BY <1>7, RestingShape DEF EndsApply
  <2>2. ExactlyApplied(s.id)
    <3>1. NCommands \in Nat
      BY ConfigAssumption
    <3>2. kern[s.id] \subseteq Parts
      BY <1>1 DEF Types, GlobalTypes
    <3>3. ApplyMode => 1..NCommands \subseteq kern[s.id]
      <4>1. (NCommands + 1) - 1 = NCommands
        BY <3>1
      <4> QED
        BY <2>1, <4>1 DEF Marked, ApplyMarked
    <3> QED
      BY <3>1, <3>2, <3>3 DEF ExactlyApplied, Parts
  <2>3. PICK o, a, b :
             /\ o \in Observations(ExactlyApplied(s.id))
             /\ About(a, "xfrm_apply_observed", s, s.id, o) /\ About(b, "session_activated", s, NoPlan, NoObs)
             /\ \/ /\ observationMeetsLocalProfile(o) /\ disk' = mem'
                   /\ AddsTwo(mem.log, a, b) /\ mem'.sess = mem.sess \cup {s}
                \/ Fault("persist")
                \/ ExactlyApplied(s.id) => Fault("observe")
    BY <1>7, ActivationHistory, Zenon DEF Story
  <2>4. InService(mem.log) => Open(mem.log, mem.sess, s.id, "apply_intent")
    BY <2>1 DEF OrderHolds, MemoryInOrder, Opens
  <2>5. \A u \in mem.sess : u.id # s.id
    BY <2>1 DEF Story, Recorded, Activated, Opened
  <2> HIDE DEF s
  <2>6. /\ observationMeetsLocalProfile(o) /\ disk' = mem'
        /\ mem'.log = Append(Append(mem.log, a), b) /\ mem'.sess = mem.sess \cup {s}
        /\ Range(mem'.log) = Range(mem.log) \cup {a, b}
    BY <2>2, <2>3 DEF AddsTwo
  <2>7. ProfileSatisfied(o)
    BY <2>6, ProfilesAgree
  <2>9. ASSUME InService(mem'.log)
        PROVE  Settled(Append(Append(mem.log, a), b), {}) /\ Carries(Append(Append(mem.log, a), b), mem.sess \cup {s})
    <3>1. InService(mem.log) /\ Serves(a) /\ Serves(b)
      BY <2>6, <2>9 DEF InService
    <3>2. Append(mem.log, a) \in Seq(PEPEvents) /\ Open(Append(mem.log, a), mem.sess, s.id, "apply_observed")
      BY <1>1, <1>4, <2>3, <2>4, <2>7, <3>1, ObservationOpens
    <3> QED
      BY <1>1, <1>4, <2>3, <2>5, <3>1, <3>2, ActivationSettles
  <2>10. InService(mem'.log) => Sound(mem')
    BY <2>6, <2>9 DEF Sound
  <2>11. Opens(t)'
    BY <2>1 DEF Opens
  <2> QED
    BY <1>3, <2>6, <2>10, <2>11 DEF OrderHolds, MemoryInOrder, Sound, InService
<1> QED
  BY <1>5, <1>6, <1>7

LEMMA OrderedLife ==
    ASSUME Base, Types, Story, OrderHolds, Starts \/ Dies
    PROVE  OrderHolds'
<1>1. \A t \in Threads : th'[t].pc \notin InTransaction
  <2>1. CASE Dies
    BY <2>1, RestingShape DEF Dies, InTransaction
  <2>2. CASE Starts
    <3>1. \A t \in Threads : th[t] = Resting
      BY <2>2 DEF Starts, Base, PhaseInv, Running
    <3> QED
      BY <2>2, <3>1, RestingShape DEF Starts, Moved, InTransaction
  <2> QED
    BY <2>1, <2>2
<1>2. disk' = disk /\ mem'.sess = disk.sess
  BY DEF Starts, Dies
<1>3. disk.log \in Seq(PEPEvents) /\ (InService(disk.log) => Sound(disk) /\ Whole(disk.log).ok)
  BY DEF OrderHolds, Sound, Settled, Story, Logs
<1>4. mem'.log = disk.log \/ \E e : Remark(e) /\ Adds(disk.log, e)
  <2>1. CASE Dies
    BY <2>1 DEF Dies
  <2>2. CASE Starts
    BY <2>2, StartHistory DEF Story
  <2> QED
    BY <2>1, <2>2
<1>5. InService(mem'.log) => InService(disk.log)
  BY <1>4, ServiceBefore DEF Adds
<1>6. InService(mem'.log) => Sound(mem')
  BY <1>2, <1>3, <1>4, <1>5, RemarkKeeps DEF Sound, Adds
<1> QED
  BY <1>1, <1>2, <1>3, <1>6 DEF OrderHolds, MemoryInOrder, Opens, InTransaction, Sound, InService

LEMMA OrderedNext == Base /\ Types /\ Marked /\ Story /\ Traced /\ Ordered /\ [Next]_vars => Ordered'
<1> SUFFICES ASSUME Base, Types, Marked, Story, Traced, Ordered, [Next]_vars, Smooth' PROVE OrderHolds'
  BY DEF Ordered
<1>1. Smooth /\ ~Fault("persist") /\ ~Fault("command") /\ ~Fault("observe")
  BY OnlyBefore DEF Marked, Smooth
<1>2. OrderHolds
  BY <1>1 DEF Ordered
<1> QED
  BY <1>1, <1>2, Effects, OrderedCalm, OrderedDelete, OrderedApply, OrderedLife DEF Transacts

LEMMA OrderedInvariance == Sentinels /\ Spec => []Ordered
BY OrderedInit, OrderedNext, BaseInvariance, TypesInvariance, MarkedInvariance, StoryInvariance,
   TracedInvariance, PTL DEF Spec

-----------------------------------------------------------------------------
(* The Verifier's record is what the accepted part of the history says,    *)
(* nothing out of scope was accepted, and nothing is left open in what was *)
(* accepted or, within the scope, is submitted.                            *)
Agreed ==
    Smooth =>
        /\ mem.cap # NoEvidence /\ InService(mem.cap.cp.log) => Settled(mem.cap.cp.log, {})
        /\ InService(LogOf(ver.cp)) /\ Settled(LogOf(ver.cp), {})
        /\ \A k \in Keys : ver.active[k] = Whole(LogOf(ver.cp)).active[k]

(* The appraisal of the events since the last checkpoint comes to the same *)
(* as that of the whole history.                                           *)
LEMMA Resumed ==
    ASSUME NEW base \in Seq(PEPEvents), NEW events \in Seq(PEPEvents), NEW carried, DOMAIN carried = Keys,
           \A k \in Keys : carried[k] = Whole(base).active[k],
           Settled(base, {}), Settled(base \o events, {})
    PROVE  /\ PolicyLoop(events, carried, MaxSALifetime, Scope).ok
           /\ \A k \in Keys : /\ PolicyLoop(events, carried, MaxSALifetime, Scope).stage[k].phase \notin Incomplete
                              /\ PolicyLoop(events, carried, MaxSALifetime, Scope).active[k]
                                   = Whole(base \o events).active[k]
<1> DEFINE H(log, from) == Histories!PolicyLoop(log, from, MaxSALifetime, Scope)
           r == PolicyLoop(events, carried, MaxSALifetime, Scope)
<1>1. H(base, NoneTracked) = Whole(base) /\ H(base \o events, NoneTracked) = Whole(base \o events)
      /\ H(events, carried) = r
  BY SameLoop DEF Whole
<1>2. DOMAIN NoneTracked = Keys
  BY DEF NoneTracked
<1>3. /\ H(base, NoneTracked).ok /\ H(base \o events, NoneTracked).ok
      /\ \A k \in Keys : H(base, NoneTracked).stage[k].phase \notin Histories!Incomplete
      /\ \A k \in Keys : carried[k] = H(base, NoneTracked).active[k]
  BY <1>1, SameTerms DEF Settled
<1>4. Histories!AtOne(H(events, carried), H(base \o events, NoneTracked))
  BY <1>2, <1>3, CandidatesFit, ProfileAssumption, Histories!LoopResumes
<1>5. Histories!AtOne(r, Whole(base \o events))
  BY <1>1, <1>4
<1> HIDE DEF H, r
<1>6. /\ r.ok
      /\ \A k \in Keys : /\ r.active[k] = Whole(base \o events).active[k]
                         /\ \/ r.stage[k].phase = Whole(base \o events).stage[k].phase
                            \/ r.stage[k].phase = "none"
  BY <1>5 DEF Histories!AtOne
<1> QED
  BY <1>6 DEF Settled, Incomplete, r

(* What the Verifier accepts is within the scope. *)
LEMMA AcceptedServes ==
    ASSUME NEW events \in Seq(PEPEvents), NEW carried, DOMAIN carried = Keys,
           PolicyLoop(events, carried, MaxSALifetime, Scope).ok
    PROVE  InService(events)
<1>1. Histories!PolicyLoop(events, carried, MaxSALifetime, Scope).ok
  BY SameLoop
<1>2. \A i \in DOMAIN events : /\ Histories!InScope(events[i], Scope)
                               /\ events[i].type \in Histories!SessionTypes => events[i].whole
  BY <1>1, CandidatesFit, ProfileAssumption, Histories!LoopServes
<1>3. \A e \in PEPEvents : e.type \in SessionTypes /\ e.whole => e.service # NoService
  BY DEF PEPEvents
<1>4. ASSUME NEW e \in Range(events) PROVE Serves(e)
  <2>1. PICK i \in DOMAIN events : e = events[i]
    BY DEF Range
  <2>2. e \in PEPEvents
    BY <2>1
  <2>3. e.service = NoService \/ contains(Scope, e.service)
    BY <1>2, <2>1 DEF Histories!InScope, Histories!contains, contains, Histories!NoService, NoService
  <2>4. e.type \in SessionTypes => e.whole
    BY <1>2, <2>1, SameTerms
  <2> QED
    BY <1>3, <2>2, <2>3, <2>4 DEF Serves
<1> QED
  BY <1>4 DEF InService

LEMMA ServiceJoins ==
    ASSUME NEW a \in Seq(PEPEvents), NEW b \in Seq(PEPEvents), InService(a), InService(b)
    PROVE  InService(a \o b)
BY RangeOfConcat DEF InService

(* A submission the Verifier has not accepted yet, under these invariants. *)
LEMMA SubmissionResumes ==
    ASSUME ChainInv, Story, Submitted, Followed, Agreed, Smooth, mem.cap # NoEvidence, ver.cp # mem.cap.cp,
           InService(mem.cap.events)
    PROVE  LET r == PolicyLoop(mem.cap.events, ver.active, MaxSALifetime, Scope) IN
           /\ VerifyHistoryEvidence(mem.cap, "pep", "pep", ver.cp)
           /\ r.ok
           /\ \A k \in Keys : r.stage[k].phase \notin Incomplete /\ r.active[k] = Whole(mem.cap.cp.log).active[k]
<1> DEFINE base == LogOf(ver.cp)
           es == mem.cap.events
<1>1. Links /\ mem.log \in Seq(PEPEvents)
  BY DEF ChainInv, Story, Logs
<1>2. ver.cp = mem.acc /\ VerifyHistoryEvidence(mem.cap, "pep", "pep", ver.cp)
  BY <1>1 DEF Links, Linked
<1>3. base \in Seq(PEPEvents) /\ es \in Seq(PEPEvents) /\ DOMAIN ver.active = Keys
  BY <1>1, AcceptedPart, PrefixTyped DEF Submitted, Followed
<1>4. mem.cap.cp.log = base \o es
  BY <1>2 DEF VerifyHistoryEvidence
<1>5. /\ Settled(base, {}) /\ Settled(base \o es, {})
      /\ \A k \in Keys : ver.active[k] = Whole(base).active[k]
  <2>1. InService(base \o es)
    BY <1>3, ServiceJoins DEF Agreed
  <2> QED
    BY <1>4, <2>1 DEF Agreed
<1> HIDE DEF base, es
<1>6. /\ PolicyLoop(es, ver.active, MaxSALifetime, Scope).ok
      /\ \A k \in Keys : /\ PolicyLoop(es, ver.active, MaxSALifetime, Scope).stage[k].phase \notin Incomplete
                         /\ PolicyLoop(es, ver.active, MaxSALifetime, Scope).active[k] = Whole(base \o es).active[k]
  BY <1>3, <1>5, Resumed
<1> QED
  BY <1>2, <1>4, <1>6 DEF es

LEMMA AgreedNext ==
    Base /\ Types /\ Marked /\ ChainInv /\ Story /\ Traced /\ Submitted /\ Followed /\ Ordered /\ Agreed /\ [Next]_vars
        => Agreed'
<1> SUFFICES ASSUME Base, Types, Marked, ChainInv, Story, Traced, Submitted, Followed, Ordered, Agreed, [Next]_vars,
                    Smooth'
             PROVE  /\ mem'.cap # NoEvidence /\ InService(mem'.cap.cp.log) => Settled(mem'.cap.cp.log, {})
                    /\ InService(LogOf(ver'.cp)) /\ Settled(LogOf(ver'.cp), {})
                    /\ \A k \in Keys : ver'.active[k] = Whole(LogOf(ver'.cp)).active[k]
  BY DEF Agreed, InService
<1>1. Smooth
  BY OnlyBefore DEF Marked, Smooth
<1>2. OrderHolds'
  BY OrderedNext DEF Ordered
<1>3. mem'.cap # NoEvidence /\ InService(mem'.cap.cp.log) => Settled(mem'.cap.cp.log, {})
  <2>1. CASE mem'.cap \in {mem.cap, NoEvidence}
    BY <1>1, <2>1 DEF Agreed
  <2>2. ASSUME NEW t \in Threads, th[t].pc = "evidence", th'[t].pc = "post", Moved(t), Built, InService(mem'.cap.cp.log)
        PROVE  Settled(mem'.cap.cp.log, {})
    <3>1. \A u \in Threads : th'[u].pc \notin InTransaction
      BY <2>2, Alone DEF HistoryCS, TokenCS, InTransaction, Moved
    <3>2. Sound(mem')
      BY <1>2, <2>2, <3>1 DEF OrderHolds, MemoryInOrder, Built, Sound, InService
    <3> QED
      BY <2>2, <3>2 DEF Built, Sound
  <2> QED
    BY <2>1, <2>2, SubmissionSteps DEF ChainInv
<1>4. CASE ver' = ver
  BY <1>1, <1>3, <1>4 DEF Agreed
<1>5. CASE /\ mem.cap # NoEvidence /\ ver'.cp = mem.cap.cp
           /\ Acceptable(mem.cap) /\ ver'.active = Appraised(mem.cap).active
  <2>1. mem.cap.cp # NoCp /\ LogOf(ver'.cp) = mem.cap.cp.log
    BY <1>5 DEF ChainInv, Links, Linked, EvSound, LogOf
  <2>2. InService(mem.cap.events) /\ InService(mem.cap.cp.log) /\ Settled(mem.cap.cp.log, {})
    <3> DEFINE base == LogOf(ver.cp)
               es == mem.cap.events
    <3>1. base \in Seq(PEPEvents) /\ es \in Seq(PEPEvents) /\ DOMAIN ver.active = Keys
      BY <1>5, AcceptedPart, PrefixTyped DEF ChainInv, Story, Logs, Submitted, Followed
    <3>2. mem.cap.cp.log = base \o es /\ InService(base)
      BY <1>1, <1>5 DEF Acceptable, VerifyHistoryEvidence, Agreed
    <3>3. PolicyLoop(es, ver.active, MaxSALifetime, Scope).ok
      BY <1>5 DEF Acceptable, Appraised, verifyEnforcementPolicy
    <3> HIDE DEF base, es
    <3>4. InService(es)
      BY <3>1, <3>3, AcceptedServes
    <3>5. InService(mem.cap.cp.log)
      BY <3>1, <3>2, <3>4, ServiceJoins
    <3> QED
      BY <1>1, <1>5, <3>4, <3>5 DEF Agreed, es
  <2>3. ver.cp # mem.cap.cp
    <3>1. mem.cap.cp.epoch = EpochOf(ver.cp) + 1 /\ mem.cap.cp.epoch \in Nat
      BY <1>5 DEF Acceptable, VerifyHistoryEvidence, ChainInv, Links, Linked, EvSound
    <3>2. ver.cp = mem.cap.cp => EpochOf(ver.cp) = mem.cap.cp.epoch
      BY <2>1 DEF EpochOf
    <3> QED
      BY <3>1, <3>2
  <2>4. ver'.active = PolicyLoop(mem.cap.events, ver.active, MaxSALifetime, Scope).active
    BY <1>5 DEF Appraised, verifyEnforcementPolicy
  <2>5. \A k \in Keys : ver'.active[k] = Whole(mem.cap.cp.log).active[k]
    BY <1>1, <1>5, <2>2, <2>3, <2>4, SubmissionResumes
  <2> QED
    BY <1>3, <2>1, <2>2, <2>5
<1> QED
  BY <1>4, <1>5, VerifierSteps

LEMMA AgreedInvariance == Sentinels /\ Spec => []Agreed
<1>1. Init => Agreed
  <2> SUFFICES ASSUME Init PROVE Agreed
    OBVIOUS
  <2>1. LogOf(ver.cp) = <<>> /\ mem.cap = NoEvidence /\ \A k \in Keys : ver.active[k] = NoSession
    BY DEF Init, LogOf, Empty
  <2> QED
    BY <2>1, WholeStart, RangeOfShort DEF Agreed, InService
<1> QED
  BY <1>1, AgreedNext, BaseInvariance, TypesInvariance, MarkedInvariance, ChainInvariance, StoryInvariance,
     TracedInvariance, SubmittedInvariance, FollowedInvariance, OrderedInvariance, PTL DEF Spec

(* As long as nothing but the network fails, whatever crashes and lost or  *)
(* late answers there are, the Verifier accepts or has accepted what the   *)
(* PEP submits, unless a session expired before the checkpoint was stamped *)
(* or was for a service out of scope (activateHandler, BuildEvidence,      *)
(* ensureCapacityToken, verifyEnforcementPolicy).                          *)
THEOREM SubmissionsAreSound == Sentinels /\ Spec => []SoundSubmissions
<1>1. ASSUME ChainInv, Story, Submitted, Followed, Agreed PROVE SoundSubmissions
  <2> SUFFICES ASSUME Smooth, rpc.st = "sent", ~AcceptedRetry(rpc.ev), ~ExpiredAtCheckpoint(rpc.ev),
                      ~OutOfScope(rpc.ev)
               PROVE  Acceptable(rpc.ev)
    BY DEF SoundSubmissions, Smooth
  <2>1. mem.cap # NoEvidence /\ rpc.ev = mem.cap /\ Links
    BY <1>1 DEF ChainInv, Traffic
  <2>2. ver.cp # mem.cap.cp
    BY <2>1 DEF AcceptedRetry, Links, Linked, EvSound
  <2> DEFINE r == PolicyLoop(mem.cap.events, ver.active, MaxSALifetime, Scope)
  <2>3. /\ VerifyHistoryEvidence(mem.cap, "pep", "pep", ver.cp) /\ r.ok
        /\ \A k \in Keys : r.stage[k].phase \notin Incomplete /\ r.active[k] = Whole(mem.cap.cp.log).active[k]
    <3>1. InService(mem.cap.events)
      BY <2>1 DEF OutOfScope, InService, Serves
    <3> QED
      BY <1>1, <2>1, <2>2, <3>1, SubmissionResumes
  <2>4. \A k \in Keys : r.active[k].exp \in Int
    <3> DEFINE log == mem.cap.cp.log
    <3>1. log \in Seq(PEPEvents)
      BY <1>1, <2>1, PrefixTyped DEF Links, Linked, EvSound, Story, Logs
    <3>2. DOMAIN NoneTracked = Keys /\ \A k \in Keys : NoneTracked[k].exp \in Int
      BY DEF NoneTracked, NoSession, NoTime
    <3> HIDE DEF log
    <3>3. \A k \in Keys : Histories!PolicyLoop(log, NoneTracked, MaxSALifetime, Scope).active[k].exp \in Int
      BY <3>1, <3>2, CandidatesFit, ProfileAssumption, Histories!LoopExpiries
    <3>4. \A k \in Keys : Whole(log).active[k].exp \in Int
      BY <3>3, SameLoop DEF Whole
    <3> QED
      BY <2>3, <3>4 DEF log
  <2>5. mem.cap.cp.created \in Int
    BY <1>1, <2>1 DEF Submitted
  <2>6. \A k \in Keys : r.active[k] # NoSession => ~(r.active[k].exp <= mem.cap.cp.created)
    BY <2>1 DEF ExpiredAtCheckpoint
  <2> HIDE DEF r
  <2>7. \A k \in Keys : r.active[k] # NoSession => mem.cap.cp.created < r.active[k].exp
    BY <2>4, <2>5, <2>6
  <2>8. Appraised(mem.cap).ok
    BY <2>3, <2>7 DEF Appraised, verifyEnforcementPolicy, r
  <2> QED
    BY <2>1, <2>3, <2>8 DEF Acceptable
<1> QED
  BY <1>1, ChainInvariance, StoryInvariance, SubmittedInvariance, FollowedInvariance, AgreedInvariance, PTL DEF Spec
=============================================================================
