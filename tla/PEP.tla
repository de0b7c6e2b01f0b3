-------------------------------- MODULE PEP --------------------------------
(***************************************************************************)
(* The policy enforcement point (pep/): activation requests, the session   *)
(* reaper and the capacity refresher run concurrently; each XFRM change is *)
(* a transaction under historyTransactionMu that writes a marker to the    *)
(* state file, changes the kernel command by command, observes the result, *)
(* records every step in the hash-chained history and clears the marker.   *)
(* The history is submitted to the Verifier, which is one atomic step here *)
(* (module Verifier shows that its goroutines behave like that).           *)
(*                                                                         *)
(* Modelled failures: a crash of the process at any point, with or without *)
(* loss of the kernel state (container restart); a failing state write,    *)
(* XFRM command or observation; a lost or late Verifier exchange.          *)
(*                                                                         *)
(* Data abstraction: a session is identified by its random PEPInSPI, a     *)
(* member of Keys never drawn twice; its XFRM plan is NCommands kernel     *)
(* objects and the plan hash is the session's key; of the ReqID and inner  *)
(* address counters, used alike, one is kept; time is in seconds, the      *)
(* resolution of RFC3339.                                                  *)
(***************************************************************************)
EXTENDS Appraisal

CONSTANTS
    Activators,     \* HTTP goroutines running activateHandler
    Services,       \* what requests name as service_id, NoService being ""
    Scope,          \* PEP_ATTESTATION_SCOPE, granted as asked
    ApplyMode,      \* XFRM_MODE = "apply"
    ObserverMode,   \* XFRM_OBSERVER: "posthoc", "hybrid" or "ebpf"
    NCommands,      \* commands of an XFRM plan (four in the code)
    SALifetime,     \* SA_LIFETIME_SECONDS
    MaxSALifetime,  \* PEP_CAPACITY_MAX_SA_LIFETIME_SECONDS, granted as asked
    TokenTTL,       \* the Verifier's token lifetime
    Margin,         \* a cached token is reused with more than this left (20 s)
    MaxHost,        \* addresses in CLIENT_TUNNEL_CIDR
    BootTries,      \* attempts of startAttestation (20)
    NoToken, NoEvidence,
    FaultKinds,     \* which failures may happen
    MaxFaults, MaxCrashes, MaxTime      \* bounds

Parts == 1..NCommands

(* validateXFRMObserverConfiguration lets the PEP start. *)
ASSUME ConfigAssumption ==
    /\ ApplyMode \in BOOLEAN /\ (ApplyMode <=> RequiredObserver # "dry-run")
    /\ RequiredObserver = "posthoc" => ObserverMode \in {"posthoc", "hybrid"}
    /\ RequiredObserver \in {"hybrid", "ebpf"} => ObserverMode = RequiredObserver
    /\ FaultKinds \subseteq {"persist", "command", "observe", "network"}
    /\ {NCommands, SALifetime, MaxSALifetime, TokenTTL, BootTries} \subseteq Nat \ {0}
    /\ {Margin, MaxHost, MaxTime} \subseteq Nat
    /\ NoKey \notin Keys /\ NoPlan \notin Keys      \* no key is the absent key or plan hash
    /\ Activators \cap {"free", "reaper", "refresher", "main"} = {}

VARIABLES
    phase,      \* "down", "refused" (fatal in validateRestoredSessions), "starting", "up"
    healthy,    \* enforcementHealthy
    mem,        \* what persistPEPState snapshots: sessions, marker, pendingCapacity, history
    disk,       \* the state file
    tok,        \* pepAttestation.token
    next,       \* nextReqID and nextClientInnerID
    kern,       \* session key -> its objects in the kernel
    histMu,     \* historyTransactionMu: its holder, or Free
    tokMu,      \* pepAttestationState.mu: its holder, or Free
    th,         \* thread -> control point and locals
    rpc,        \* the POST to /capacity in progress
    late,       \* submissions the PEP gave up on, still on their way
    ver,        \* the Verifier's record of this PEP
    used,       \* SPIs drawn so far
    clock,
    faults,     \* the kinds of failures so far
    crashes

vars == <<phase, healthy, mem, disk, tok, next, kern, histMu, tokMu, th, rpc, late,
          ver, used, clock, faults, crashes>>

Free      == "free"
Threads   == Activators \cup {"reaper", "refresher", "main"}
NoSess    == [id |-> NoKey, ip |-> 0, exp |-> NoTime, svc |-> NoService]
NoMarker  == [op |-> "", id |-> NoKey]
Resting   == [pc |-> "idle", s |-> NoSess, d |-> NoSess, todo |-> {}, i |-> 0,
              tok |-> NoToken, now |-> 0, tries |-> 0]
NoCall    == [st |-> "none", ev |-> NoEvidence, tok |-> NoToken]
Empty     == [sess |-> {}, pend |-> NoMarker, cap |-> NoEvidence, log |-> <<>>, acc |-> NoCp]

Init ==
    /\ phase = "down" /\ healthy = TRUE
    /\ mem = Empty /\ disk = Empty
    /\ tok = NoToken /\ next = 0
    /\ kern = [k \in Keys |-> {}]
    /\ histMu = Free /\ tokMu = Free
    /\ th = [t \in Threads |-> Resting]
    /\ rpc = NoCall /\ late = {}
    /\ ver = [cp |-> NoCp, active |-> [k \in Keys |-> NoSession], tok |-> NoToken]
    /\ used = {} /\ clock = 0 /\ faults = <<>> /\ crashes = 0

-----------------------------------------------------------------------------
(* Failures. *)
NoFault == UNCHANGED faults
Fault(kind) == kind \in FaultKinds /\ Len(faults) < MaxFaults /\ faults' = Append(faults, kind)

Only(kinds) == Range(faults) \subseteq kinds      \* no other failure so far

(* persistPEPState: the snapshot m replaces the state file in one rename.   *)
(* Mutant: the write is forgotten.                                          *)
BugNotPersisted(m) == UNCHANGED disk

Persist(m) == disk' = m

(* History: AppendEvent, BuildEvidence.  Of the fields of a session that    *)
(* make an event complete only the service may be empty: activateHandler   *)
(* refuses a request without the others or fills them in itself.           *)
Event(type, s, plan, obs) ==
    [type |-> type, key |-> s.id, service |-> s.svc, whole |-> s.svc # NoService,
     plan |-> plan, exp |-> s.exp, ts |-> clock, obs |-> obs]

PlainEvent(type, s) == Event(type, s, NoPlan, NoObs)

historyAppend(m, events) == [m EXCEPT !.log = @ \o events]

BuildEvidence(m) ==
    LET start  == Len(LogOf(m.acc))
        events == SubSeq(m.log, start + 1, Len(m.log))
    IN  [prev |-> m.acc, base |-> SubSeq(m.log, 1, start), events |-> events,
         cp |-> [pep |-> "pep", epoch |-> EpochOf(m.acc) + 1, log |-> m.log, prev |-> m.acc,
                 count |-> Len(events), created |-> clock, signer |-> "pep"]]

(* Mutant: the acceptance is not recorded. *)
BugNotMarked(m, cp) == m

MarkCheckpointAccepted(m, cp) == [m EXCEPT !.acc = cp]

(* Observation of the kernel: observeXFRM...WithObserver and annotate.     *)
(* exact: the kernel holds (or no longer holds) precisely the plan.  A     *)
(* lookup may fail and the eBPF monitor may miss events, never the reverse *)
(* for post-hoc lookups.                                                   *)
Observations(exact) ==
    IF ~ApplyMode
    THEN {[mode |-> "dry-run", source |-> "dry-run", value |-> "assumed", matched |-> FALSE]}
    ELSE LET seen == IF exact THEN {"true", "false"} ELSE {"false"}
         IN  CASE ObserverMode = "posthoc" ->
                    [mode : {"apply"}, source : {"posthoc"}, value : seen, matched : {FALSE}]
               [] ObserverMode = "hybrid" ->
                    [mode : {"apply"}, source : {"posthoc+ebpf"}, value : seen, matched : BOOLEAN]
               [] ObserverMode = "ebpf" ->
                    {[mode |-> "apply", source |-> "ebpf", value |-> IF b THEN "true" ELSE "false",
                      matched |-> b] : b \in BOOLEAN}

observationMeetsLocalProfile(o) ==
    IF o.mode # "apply"
    THEN o.value = "assumed" /\ RequiredObserver = "dry-run"
    ELSE /\ o.value = "true"
         /\ \/ RequiredObserver = "posthoc" /\ o.source \in {"posthoc", "posthoc+ebpf"}
            \/ RequiredObserver = "hybrid" /\ o.source = "posthoc+ebpf" /\ o.matched
            \/ RequiredObserver = "ebpf" /\ o.source = "ebpf" /\ o.matched

(* What the observation reports, and whether that is a failure to see. *)
Observed(o, exact) ==
    /\ o \in Observations(exact)
    /\ IF exact /\ ~observationMeetsLocalProfile(o) THEN Fault("observe") ELSE NoFault

(* maybeApplyXFRM and maybeDeleteXFRM run no command in dry-run mode. *)
FirstCommand == IF ApplyMode THEN 1 ELSE NCommands + 1

(* Mutant: a failed lookup counts as absence. *)
BugAbsenceAssumed(k) == TRUE

ExactlyApplied(k) == ApplyMode => kern[k] = Parts
ExactlyDeleted(k) == ApplyMode => kern[k] = {}

-----------------------------------------------------------------------------
(* Thread plumbing. *)
Goto(t, pc) == th' = [th EXCEPT ![t].pc = pc]
Rest(t)     == th' = [th EXCEPT ![t] = Resting]

HoldsToken(t) == tokMu = t      \* t is inside ensureCapacityToken

(* Mutant: cleanupExpiredSessions lacks its deferred unlock. *)
BugNotReleased(t) == /\ histMu' = IF t = "reaper" THEN t ELSE Free
                     /\ tokMu' = IF HoldsToken(t) THEN Free ELSE tokMu

Release(t) == /\ histMu' = Free
              /\ tokMu' = IF HoldsToken(t) THEN Free ELSE tokMu

(* ensureCapacityToken returns a token: to activateHandler, to the         *)
(* refresher, or to startAttestation, after which main serves requests.    *)
TokenReturned(t, k) ==
    /\ th' = [th EXCEPT ![t] = IF t \in Activators THEN [@ EXCEPT !.pc = "bind", !.tok = k] ELSE Resting]
    /\ phase' = IF t = "main" THEN "up" ELSE phase

(* ... or an error: 503, a log line, or the next attempt of                *)
(* startAttestation, fatal after the last one.                             *)
TokenRefused(t) ==
    IF t = "main"
    THEN IF th[t].tries + 1 = BootTries
         THEN Rest(t) /\ phase' = "down"
         ELSE /\ th' = [th EXCEPT ![t] = [Resting EXCEPT !.pc = "token", !.tries = th[t].tries + 1]]
              /\ UNCHANGED phase
    ELSE Rest(t) /\ UNCHANGED phase

-----------------------------------------------------------------------------
(* clientInnerIPFromOffset: the pool has the address.  Mutant: no bound. *)
BugPoolUnbounded(n) == TRUE

InPool(n) == n <= MaxHost

(* activateHandler, up to ensureCapacityToken: the health check, the SPI   *)
(* and the allocators.  The service is taken as the request names it, in   *)
(* the PEP's scope or not.                                                 *)
Activate(t, k, svc) ==
    /\ phase = "up" /\ th[t].pc = "idle" /\ healthy
    /\ k \notin used /\ used' = used \cup {k}
    /\ next' = next + 1
    /\ IF InPool(next')
       THEN th' = [th EXCEPT ![t] = [Resting EXCEPT !.pc = "token",
                                     !.s = [id |-> k, ip |-> next', exp |-> NoTime, svc |-> svc]]]
       ELSE UNCHANGED th      \* client address pool exhausted
    /\ UNCHANGED <<phase, healthy, mem, disk, tok, kern, histMu, tokMu, rpc, late, ver, clock, faults, crashes>>

(* refreshLoop. *)
Refresh ==
    /\ phase = "up" /\ th["refresher"].pc = "idle"
    /\ Goto("refresher", "token")
    /\ UNCHANGED <<phase, healthy, mem, disk, tok, next, kern, histMu, tokMu, rpc, late, ver, used, clock, faults, crashes>>

(* ensureCapacityToken: the health check is made before waiting for s.mu. *)
CheckHealth(t) ==
    /\ th[t].pc = "token"
    /\ IF healthy THEN Goto(t, "token_lock") /\ UNCHANGED phase ELSE TokenRefused(t)
    /\ UNCHANGED <<healthy, mem, disk, tok, next, kern, histMu, tokMu, rpc, late, ver, used, clock, faults, crashes>>

TakeTokenLock(t) ==
    /\ th[t].pc = "token_lock" /\ tokMu = Free
    /\ IF tok # NoToken /\ tok.exp - clock > Margin
       THEN TokenReturned(t, tok) /\ UNCHANGED tokMu
       ELSE tokMu' = t /\ Goto(t, "history_lock") /\ UNCHANGED phase
    /\ UNCHANGED <<healthy, mem, disk, tok, next, kern, histMu, rpc, late, ver, used, clock, faults, crashes>>

(* sessionReaper: a tick takes the time, then waits for the lock. *)
Reap ==
    /\ phase = "up" /\ th["reaper"].pc = "idle"
    /\ th' = [th EXCEPT !["reaper"].pc = "history_lock", !["reaper"].now = clock]
    /\ UNCHANGED <<phase, healthy, mem, disk, tok, next, kern, histMu, tokMu, rpc, late, ver, used, clock, faults, crashes>>

(* cleanupExpiredSessionsUnderHistoryLock collects the expired sessions;   *)
(* its callers are the reaper, ensureCapacityToken and the start-up.       *)
Expired(now) == {s \in mem.sess : now >= s.exp}

(* Mutant: the capacity refresh does not wait for open transactions. *)
BugNoBarrier(t) ==
    /\ th[t].pc = "history_lock" /\ histMu' = t
    /\ th' = [th EXCEPT ![t].pc = "drain"]
    /\ UNCHANGED <<phase, healthy, mem, disk, tok, next, kern, tokMu, rpc, late, ver, used, clock, faults, crashes>>

TakeHistoryLock(t) ==
    /\ th[t].pc = "history_lock" /\ histMu = Free
    /\ histMu' = t
    /\ th' = [th EXCEPT ![t].pc = "drain",
                        ![t].todo = Expired(IF t = "reaper" THEN th[t].now ELSE clock)]
    /\ UNCHANGED <<phase, healthy, mem, disk, tok, next, kern, tokMu, rpc, late, ver, used, clock, faults, crashes>>

(* The cleanup returns an error: the caller reports it and gives up. *)
DrainFailed(t) ==
    /\ healthy' = FALSE
    /\ Release(t)
    /\ IF HoldsToken(t) THEN TokenRefused(t)
       ELSE Rest(t) /\ phase' = IF t = "main" THEN "down" ELSE phase

(* setPendingPEPOperation("xfrm_delete"), session_expired, delete intent. *)
BeginDelete(t, d) ==
    LET m == [mem EXCEPT !.pend = [op |-> "xfrm_delete", id |-> d.id]]
    IN  /\ th[t].pc = "drain" /\ d \in th[t].todo
        /\ \/ /\ NoFault /\ Persist(m)
              /\ mem' = historyAppend(m, <<PlainEvent("session_expired", d),
                                           Event("xfrm_delete_intent", d, d.id, NoObs)>>)
              /\ th' = [th EXCEPT ![t].pc = "delete", ![t].d = d, ![t].i = FirstCommand]
              /\ UNCHANGED <<phase, healthy, histMu, tokMu>>
           \/ Fault("persist") /\ UNCHANGED <<mem, disk>> /\ DrainFailed(t)
        /\ UNCHANGED <<tok, next, kern, rpc, late, ver, used, clock, crashes>>

(* maybeDeleteXFRM, one command: best effort, a failure is ignored. *)
DeleteCommand(t) ==
    LET i == th[t].i
    IN  /\ th[t].pc = "delete" /\ i \in Parts
        /\ \/ NoFault /\ kern' = [kern EXCEPT ![th[t].d.id] = @ \ {i}]
           \/ i \in kern[th[t].d.id] /\ Fault("command") /\ UNCHANGED kern
        /\ th' = [th EXCEPT ![t].i = i + 1]
        /\ UNCHANGED <<phase, healthy, mem, disk, tok, next, histMu, tokMu, rpc, late, ver, used, clock, crashes>>

(* Observe and record; then forget the session and clear the marker. *)
FinishDelete(t, o) ==
    LET d == th[t].d
        seen == historyAppend(mem, <<Event("xfrm_delete_observed", d, d.id, o)>>)
        gone == [seen EXCEPT !.sess = {s \in @ : s.id # d.id}]
        clear == [gone EXCEPT !.pend = NoMarker]
    IN  /\ th[t].pc = "delete" /\ th[t].i = NCommands + 1
        /\ o \in Observations(ExactlyDeleted(d.id))
        /\ \/ /\ observationMeetsLocalProfile(o) /\ NoFault
              /\ mem' = clear /\ Persist(clear)
              /\ th' = [th EXCEPT ![t].pc = "drain", ![t].d = NoSess, ![t].i = 0, ![t].todo = @ \ {d}]
              /\ UNCHANGED <<phase, healthy, histMu, tokMu>>
           \/ /\ observationMeetsLocalProfile(o) /\ Fault("persist")
              /\ mem' = gone /\ UNCHANGED disk /\ DrainFailed(t)
           \/ /\ ~observationMeetsLocalProfile(o) /\ Observed(o, ExactlyDeleted(d.id))
              /\ mem' = seen /\ UNCHANGED disk /\ DrainFailed(t)
        /\ UNCHANGED <<tok, next, kern, rpc, late, ver, used, clock, crashes>>

(* The loop is done. *)
Drained(t) ==
    /\ th[t].pc = "drain" /\ th[t].todo = {}
    /\ IF HoldsToken(t) THEN Goto(t, "evidence") /\ UNCHANGED <<histMu, tokMu>>
       ELSE /\ Release(t)
            /\ IF t = "main" THEN Goto(t, "validate") ELSE Rest(t)
    /\ UNCHANGED <<phase, healthy, mem, disk, tok, next, kern, rpc, late, ver, used, clock, faults, crashes>>

-----------------------------------------------------------------------------
(* ensureCapacityToken, continued: reuse the pending submission, or record *)
(* capacity_requested, build the evidence and make it durable.             *)
PrepareEvidence(t) ==
    LET asked == historyAppend(mem, <<PlainEvent("capacity_requested", NoSess)>>)
        m     == [asked EXCEPT !.cap = BuildEvidence(asked)]
    IN  /\ th[t].pc = "evidence"
        /\ \/ /\ mem.cap # NoEvidence /\ NoFault
              /\ Goto(t, "post") /\ UNCHANGED <<mem, disk, phase, histMu, tokMu>>
           \/ /\ mem.cap = NoEvidence /\ NoFault
              /\ mem' = m /\ Persist(m)
              /\ Goto(t, "post") /\ UNCHANGED <<phase, histMu, tokMu>>
           \/ /\ mem.cap = NoEvidence /\ Fault("persist")
              /\ mem' = asked /\ UNCHANGED disk
              /\ Release(t) /\ TokenRefused(t)
        /\ UNCHANGED <<healthy, tok, next, kern, rpc, late, ver, used, clock, crashes>>

Post(t) ==
    /\ th[t].pc = "post"
    /\ rpc' = [NoCall EXCEPT !.st = "sent", !.ev = mem.cap]
    /\ Goto(t, "await")
    /\ UNCHANGED <<phase, healthy, mem, disk, tok, next, kern, histMu, tokMu, late, ver, used, clock, faults, crashes>>

(* The Verifier's capacityHandler as one step: replay, accept or refuse.   *)
(* The answer is NoToken for any status other than 200.                    *)
Appraised(ev) ==
    verifyEnforcementPolicy(ev.events, ev.cp.created, ver.active, MaxSALifetime, Scope)

(* Mutant: no stored answer. *)
BugNoReplay(ev) == FALSE

AcceptedRetry(ev) == ver.cp # NoCp /\ ev.cp = ver.cp

Acceptable(ev) == VerifyHistoryEvidence(ev, "pep", "pep", ver.cp) /\ Appraised(ev).ok

NewToken(ev) == [cp |-> ev.cp, exp |-> clock + TokenTTL]

Submit(ev) ==
    ver' = IF ~AcceptedRetry(ev) /\ Acceptable(ev)
           THEN [cp |-> ev.cp, active |-> Appraised(ev).active, tok |-> NewToken(ev)]
           ELSE ver

Serve ==
    /\ rpc.st = "sent" /\ Submit(rpc.ev)
    /\ rpc' = [NoCall EXCEPT !.st = "answered",
                             !.tok = IF AcceptedRetry(rpc.ev) \/ Acceptable(rpc.ev) THEN ver'.tok ELSE NoToken]
    /\ UNCHANGED <<phase, healthy, mem, disk, tok, next, kern, histMu, tokMu, th, late, used, clock, faults, crashes>>

(* A submission the PEP no longer waits for arrives. *)
ServeLate(ev) ==
    /\ ev \in late /\ late' = late \ {ev} /\ Submit(ev)
    /\ UNCHANGED <<phase, healthy, mem, disk, tok, next, kern, histMu, tokMu, th, rpc, used, clock, faults, crashes>>

Abandoned == IF rpc.st = "sent" THEN late \cup {rpc.ev} ELSE late

(* The five-second timeout, or a connection error. *)
Timeout(t) ==
    /\ th[t].pc = "await" /\ Fault("network")
    /\ late' = Abandoned /\ rpc' = NoCall
    /\ Release(t) /\ TokenRefused(t)
    /\ UNCHANGED <<healthy, mem, disk, tok, next, kern, ver, used, clock, crashes>>

(* validateCapacityToken: the checks that do not hold by configuration. *)
validateCapacityToken(k, ev) == k # NoToken /\ clock < k.exp /\ k.cp = ev.cp

(* The answer: a token for the submitted checkpoint is adopted, recorded   *)
(* and the pending submission dropped; anything else is an error and the   *)
(* submission stays pending.                                               *)
AcceptToken(t) ==
    LET k == rpc.tok
        marked == historyAppend(MarkCheckpointAccepted(mem, mem.cap.cp),
                                <<PlainEvent("capacity_accepted", NoSess)>>)
        m == [marked EXCEPT !.cap = NoEvidence]
    IN  /\ th[t].pc = "await" /\ rpc.st = "answered"
        /\ rpc' = NoCall /\ Release(t)
        /\ \/ /\ validateCapacityToken(k, mem.cap) /\ NoFault
              /\ mem' = m /\ Persist(m) /\ tok' = k
              /\ TokenReturned(t, k)
           \/ /\ validateCapacityToken(k, mem.cap) /\ Fault("persist")
              /\ mem' = marked /\ UNCHANGED <<disk, tok>>
              /\ TokenRefused(t)
           \/ /\ ~validateCapacityToken(k, mem.cap) /\ NoFault
              /\ UNCHANGED <<mem, disk, tok>>
              /\ TokenRefused(t)
        /\ UNCHANGED <<healthy, next, kern, late, ver, used, clock, crashes>>

-----------------------------------------------------------------------------
(* activateHandler, continued: bound the lifetime by the token             *)
(* (boundLifetime), stamp the expiry, sign the binding, build the plan.    *)
boundLifetime(k) ==
    Min({SALifetime, MaxSALifetime, k.exp - clock})

Bind(t) ==
    /\ th[t].pc = "bind"
    /\ IF boundLifetime(th[t].tok) > 0
       THEN th' = [th EXCEPT ![t].pc = "apply_lock", ![t].s.exp = clock + boundLifetime(th[t].tok)]
       ELSE Rest(t)
    /\ UNCHANGED <<phase, healthy, mem, disk, tok, next, kern, histMu, tokMu, rpc, late, ver, used, clock, faults, crashes>>

(* Take historyTransactionMu, make the marker durable, record the intent. *)
BeginApply(t) ==
    LET s == th[t].s
        m == [mem EXCEPT !.pend = [op |-> "xfrm_apply", id |-> s.id]]
    IN  /\ th[t].pc = "apply_lock" /\ histMu = Free
        /\ \/ /\ NoFault /\ histMu' = t /\ Persist(m)
              /\ mem' = historyAppend(m, <<Event("xfrm_apply_intent", s, s.id, NoObs)>>)
              /\ th' = [th EXCEPT ![t].pc = "apply", ![t].i = FirstCommand]
              /\ UNCHANGED healthy
           \/ /\ Fault("persist") /\ healthy' = FALSE
              /\ Rest(t) /\ UNCHANGED <<mem, disk, histMu>>
        /\ UNCHANGED <<phase, tok, next, kern, tokMu, rpc, late, ver, used, clock, crashes>>

(* maybeApplyXFRM, one command; the first failure ends the handler, and    *)
(* what was installed stays.                                               *)
ApplyCommand(t) ==
    LET i == th[t].i
    IN  /\ th[t].pc = "apply" /\ i \in Parts
        /\ \/ /\ NoFault /\ kern' = [kern EXCEPT ![th[t].s.id] = @ \cup {i}]
              /\ th' = [th EXCEPT ![t].i = i + 1]
              /\ UNCHANGED <<healthy, histMu>>
           \/ /\ Fault("command") /\ healthy' = FALSE /\ histMu' = Free
              /\ Rest(t) /\ UNCHANGED kern
        /\ UNCHANGED <<phase, mem, disk, tok, next, tokMu, rpc, late, ver, used, clock, crashes>>

(* Observe and record; activate the session and clear the marker, or undo  *)
(* what can be undone.  left: objects the best-effort deletion leaves.     *)
FinishApply(t, o, left) ==
    LET s == th[t].s
        seen == historyAppend(mem, <<Event("xfrm_apply_observed", s, s.id, o)>>)
        live == historyAppend([seen EXCEPT !.sess = @ \cup {s}], <<PlainEvent("session_activated", s)>>)
        clear == [live EXCEPT !.pend = NoMarker]
    IN  /\ th[t].pc = "apply" /\ th[t].i = NCommands + 1
        /\ o \in Observations(ExactlyApplied(s.id))
        /\ \/ /\ observationMeetsLocalProfile(o) /\ NoFault /\ left = {}
              /\ mem' = clear /\ Persist(clear) /\ UNCHANGED <<healthy, kern>>
           \/ /\ observationMeetsLocalProfile(o) /\ Fault("persist") /\ left = {}
              /\ mem' = live /\ UNCHANGED <<disk, kern>> /\ healthy' = FALSE
           \/ /\ ~observationMeetsLocalProfile(o) /\ Observed(o, ExactlyApplied(s.id))
              /\ "command" \notin FaultKinds => left = {}
              /\ kern' = [kern EXCEPT ![s.id] = @ \cap left]
              /\ mem' = seen /\ UNCHANGED disk /\ healthy' = FALSE
        /\ histMu' = Free /\ Rest(t)
        /\ UNCHANGED <<phase, tok, next, tokMu, rpc, late, ver, used, clock, crashes>>

-----------------------------------------------------------------------------
(* Start-up: loadPEPState and initAllocators. *)

(* Mutant: the history starts afresh. *)
BugHistoryForgotten == [disk EXCEPT !.log = <<>>]

RestoredState == disk

(* Mutant: the counter restarts. *)
BugCounterRestarts(m) == 0

HighestAddress(m) == Max({0} \cup {s.ip : s \in m.sess})

(* initAttestation (a state file with a marker is refused), pep_start,     *)
(* initAllocators; validateRestoredSessions and startAttestation follow.   *)
Boot ==
    /\ phase \in {"down", "refused"} /\ disk.pend = NoMarker
    /\ phase' = "starting" /\ healthy' = TRUE
    /\ mem' = historyAppend(RestoredState, <<PlainEvent("pep_start", NoSess)>>)
    /\ next' = HighestAddress(disk)
    /\ Goto("main", "history_lock")
    /\ UNCHANGED <<disk, tok, kern, histMu, tokMu, rpc, late, ver, used, clock, faults, crashes>>

(* Mutant: restored sessions are taken at their word. *)
BugRestoredTrusted(s) ==
    [mode |-> "apply", source |-> "posthoc+ebpf", value |-> "true", matched |-> TRUE]

(* The post-hoc observation alone: no observer has annotated its source. *)
RestoredObservation(s) ==
    [mode |-> "apply", source |-> "", value |-> IF ExactlyApplied(s.id) THEN "true" ELSE "false",
     matched |-> FALSE]

validateRestoredSessions ==
    /\ th["main"].pc = "validate"
    /\ IF ApplyMode => \A s \in mem.sess : observationMeetsLocalProfile(RestoredObservation(s))
       THEN Goto("main", "token") /\ UNCHANGED phase
       ELSE Rest("main") /\ phase' = "refused"
    /\ UNCHANGED <<healthy, mem, disk, tok, next, kern, histMu, tokMu, rpc, late, ver, used, clock, faults, crashes>>

(* The process dies; its memory is gone (reset here), and if the container *)
(* goes with it so is the kernel state of its network namespace.           *)
Crash(kept) ==
    /\ phase \in {"starting", "up"} /\ crashes < MaxCrashes /\ crashes' = crashes + 1
    /\ phase' = "down" /\ healthy' = TRUE
    /\ mem' = disk /\ tok' = NoToken /\ next' = 0
    /\ histMu' = Free /\ tokMu' = Free
    /\ th' = [t \in Threads |-> Resting]
    /\ late' = Abandoned /\ rpc' = NoCall
    /\ kern' = IF kept THEN kern ELSE [k \in Keys |-> {}]
    /\ UNCHANGED <<disk, ver, used, clock, faults>>

Tick ==
    /\ clock < MaxTime /\ clock' = clock + 1
    /\ UNCHANGED <<phase, healthy, mem, disk, tok, next, kern, histMu, tokMu, th, rpc, late, ver, used, faults, crashes>>

Step(t) ==
    \/ CheckHealth(t) \/ TakeTokenLock(t) \/ TakeHistoryLock(t)
    \/ (\E d \in th[t].todo : BeginDelete(t, d)) \/ DeleteCommand(t) \/ Drained(t)
    \/ (\E o \in Observations(TRUE) : FinishDelete(t, o))
    \/ PrepareEvidence(t) \/ Post(t) \/ AcceptToken(t) \/ Timeout(t)
    \/ Bind(t) \/ BeginApply(t) \/ ApplyCommand(t)
    \/ (\E o \in Observations(TRUE), left \in SUBSET Parts : FinishApply(t, o, left))

Next ==
    \/ \E t \in Threads : Step(t)
    \/ \E t \in Activators, k \in Keys, svc \in Services : Activate(t, k, svc)
    \/ Refresh \/ Reap \/ Serve \/ (\E ev \in late : ServeLate(ev))
    \/ Boot \/ validateRestoredSessions \/ (\E kept \in BOOLEAN : Crash(kept))
    \/ Tick

Spec == Init /\ [][Next]_vars

(* Goroutines run; a sync.Mutex waiter is not passed over for ever; the    *)
(* reaper's ticker fires; the Verifier answers what it receives; a PEP     *)
(* that exits is started again; time passes.                               *)
FairSpec ==
    /\ Spec
    /\ \A t \in Threads : SF_vars(Step(t))
    /\ WF_vars(Reap) /\ WF_vars(Serve) /\ WF_vars(Boot) /\ WF_vars(validateRestoredSessions)
    /\ WF_vars(Tick)

-----------------------------------------------------------------------------
Running == phase \in {"starting", "up"}

StateOK(m) ==
    /\ \A s \in m.sess : s.id \in Keys /\ s.ip \in 1..MaxHost /\ s.exp \in 0..(MaxTime + SALifetime)
    /\ m.pend # NoMarker => m.pend.id \in Keys
    /\ m.cap # NoEvidence => m.cap.cp.epoch \in Nat

(* Types, and the allocators: no address beyond the pool is ever given. *)
TypeOK ==
    /\ phase \in {"down", "refused", "starting", "up"}
    /\ healthy \in BOOLEAN
    /\ StateOK(mem) /\ StateOK(disk)
    /\ {histMu, tokMu} \subseteq Threads \cup {Free}
    /\ \A k \in Keys : kern[k] \subseteq Parts

(* PROPERTY.  Continuity.  Whatever crashes, failed writes and lost or     *)
(* late answers come in between, the checkpoint the Verifier holds is the  *)
(* last one the PEP knows to be accepted or the one it is submitting, in   *)
(* memory and in the state file: the PEP can always continue the chain,    *)
(* either with a fresh submission or by repeating the pending one.         *)
Continues(m) ==
    /\ ver.cp \in {m.acc} \cup (IF m.cap = NoEvidence THEN {} ELSE {m.cap.cp})
    /\ m.cap # NoEvidence /\ ver.cp # m.cap.cp => VerifyHistoryEvidence(m.cap, "pep", "pep", ver.cp)
    /\ IsPrefix(LogOf(ver.cp), m.log)

Continuity == Continues(disk) /\ (Running => Continues(mem))

(* PROPERTY.  No hidden tunnel.  A kernel object of a running PEP belongs  *)
(* to a session whose apply intent is in its history, and once the         *)
(* Verifier has accepted that part of the history it tracks the session:   *)
(* it never takes a tunnel for closed, or never opened, that the kernel    *)
(* still has.  Holds with failing commands, observations and writes, but a *)
(* failed command may escape an observer that looks no object up.          *)
Intended(log, k) == \E i \in DOMAIN log : log[i].type = "xfrm_apply_intent" /\ log[i].key = k

Sighted == ObserverMode = "ebpf" => Only({"persist", "observe", "network"})

NoHiddenTunnel ==
    \A k \in Keys : kern[k] # {} =>
        /\ Running => Intended(mem.log, k)
        /\ Sighted /\ Intended(LogOf(ver.cp), k) => ver.active[k] # NoSession

(* PROPERTY.  Crash consistency of the marker.  Every kernel object is     *)
(* accounted for in the state file, by a session or by the transaction     *)
(* marker, so that a restart knows of it, also when state writes fail.  A  *)
(* failed command or observation leaves a marker that the next transaction *)
(* overwrites: RefusesInterrupted.                                         *)
KernelAccounted ==
    Only({"network", "persist"}) =>
        \A k \in Keys : kern[k] # {} => disk.pend.id = k \/ \E s \in disk.sess : s.id = k

(* PROPERTY.  A PEP that serves requests and is healthy has exactly the    *)
(* tunnels of its session table, the one in transaction aside: after a     *)
(* restart that lost the kernel state, and whatever failed before.  Not    *)
(* after a crash that follows a failed command or observation, whose       *)
(* remains a restart may not know of (RefusesInterrupted), nor with an     *)
(* observer that looks no object up.                                       *)
TableIsKernel ==
    /\ phase = "up" /\ healthy /\ ApplyMode /\ ObserverMode # "ebpf"
    /\ crashes = 0 \/ Only({"network", "persist"})
    => \A k \in Keys : k # mem.pend.id =>
           kern[k] = IF \E s \in mem.sess : s.id = k THEN Parts ELSE {}

(* PROPERTY.  No two sessions of the table share an inner address or       *)
(* ReqID, although the allocators restart from the restored sessions.      *)
DistinctAddresses ==
    Running => \A s, u \in mem.sess \cup {th[t].s : t \in Activators} :
                  s.ip = u.ip => s.id = u.id

(* PROPERTY.  Without failing writes, commands or observations (crashes    *)
(* and a bad network allowed), every submission is acceptable to the       *)
(* Verifier, with two exceptions: a session expired between the clean-up   *)
(* and the moment the checkpoint was stamped; or the submission tells of a *)
(* session for a service outside the scope the PEP asks for, or for none,  *)
(* which activateHandler lets through.  What is refused once is refused    *)
(* for ever, as the PEP repeats the pending submission.                    *)
ExpiredAtCheckpoint(ev) ==
    \E k \in Keys : LET a == PolicyLoop(ev.events, ver.active, MaxSALifetime, Scope).active[k]
                    IN  a # NoSession /\ a.exp <= ev.cp.created

OutOfScope(ev) ==
    \E e \in Range(ev.events) : e.type \in SessionTypes /\ (e.service = NoService \/ ~contains(Scope, e.service))

SoundSubmissions ==
    Only({"network"}) /\ rpc.st = "sent" =>
        AcceptedRetry(rpc.ev) \/ Acceptable(rpc.ev) \/ ExpiredAtCheckpoint(rpc.ev) \/ OutOfScope(rpc.ev)

(* PROPERTY.  The history in the state file is append-only, across crashes *)
(* and restarts, and so is the part of it that was accepted.               *)
DurableHistoryGrows ==
    [][IsPrefix(disk.log, disk'.log) /\ EpochOf(disk.acc) <= EpochOf(disk'.acc)]_vars

(* PROPERTY.  A session past its expiry leaves the session table, however  *)
(* the reaper, the refresher and activations compete for the locks, and    *)
(* also when the PEP dies, unless it dies inside a transaction and its     *)
(* state file is refused from then on.                                     *)
ExpiredSessionsGo ==
    \A k \in Keys :
        (\E s \in mem.sess : s.id = k /\ clock >= s.exp)
            ~> ~(\E s \in mem.sess : s.id = k) \/ (~Running /\ disk.pend # NoMarker)

(* PROPERTY.  A PEP that starts obtains its capacity token and serves,     *)
(* whatever exchange with the Verifier its last life was cut off in,       *)
(* unless it is left with a submission that can never be concluded: one    *)
(* the Verifier refuses for ever (a session expired under it, or was for a *)
(* service out of scope, see SoundSubmissions), or one it has accepted but *)
(* answers with a token that is out of date by now (ReplayConcludes).      *)
Hopeless(ev) == ExpiredAtCheckpoint(ev) \/ OutOfScope(ev) \/ (ver.cp = ev.cp /\ ver.tok.exp <= clock)

StartupSucceeds ==
    phase = "starting" ~> phase = "up" \/ (mem.cap # NoEvidence /\ Hopeless(mem.cap))

(* PROPERTY (README.md:70).  The Verifier keeps "the last issued token for *)
(* idempotent response replay": a PEP left with a submission that the      *)
(* Verifier has accepted concludes it by submitting it again.              *)
ReplayConcludes ==
    Running /\ mem.cap # NoEvidence /\ ver.cp = mem.cap.cp ~> mem.cap = NoEvidence

(* PROPERTY (README.md:70).  "The PEP refuses to start if it detects an    *)
(* interrupted persisted XFRM transaction": a PEP that starts has no       *)
(* apply intent in its durable history that was never completed.           *)
RefusesInterrupted ==
    phase = "starting" =>
        \A k \in Keys : Intended(disk.log, k) =>
            \E i \in DOMAIN disk.log : disk.log[i].type = "session_activated" /\ disk.log[i].key = k
=============================================================================
