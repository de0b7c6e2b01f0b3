------------------------------ MODULE Appraisal ------------------------------
(***************************************************************************)
(* What the Verifier decides about one submitted piece of history          *)
(* (verifier/main.go verifyEnforcementPolicy and its helpers,              *)
(* common/attest/attest.go VerifyHistoryEvidence).                         *)
(*                                                                         *)
(* Data abstraction.                                                       *)
(*  - An event carries what the appraisal reads: its type, its session     *)
(*    key, service, whether every session field is filled in, the XFRM     *)
(*    plan hash, the expiry and time stamp in seconds, and the observer    *)
(*    metadata.                                                            *)
(*  - SHA-256 is injective: the hash of an event, which covers the event,  *)
(*    its index and the hash before it, is the whole log up to that event  *)
(*    (so the index is its length), and the hash of a checkpoint is the    *)
(*    checkpoint.                                                          *)
(*  - An Ed25519 signature is the name of the key that made it.            *)
(***************************************************************************)
EXTENDS Integers, Sequences, FiniteSets, SequencesExt

CONSTANTS
    Keys,               \* session keys (sessionKey)
    RequiredObserver,   \* the profile of cfg.RequiredObserver
    NoCp                \* no accepted checkpoint (previous == nil)

ASSUME ProfileAssumption ==
    RequiredObserver \in {"dry-run", "posthoc", "hybrid", "ebpf"}

NoKey     == "no_key"        \* an event that belongs to no session
NoService == "no_service"    \* ServiceID == ""
NoPlan    == "no_plan"       \* plan hash missing, blank or "hash_error"
NoTime    == -1              \* expires_at missing
NoObs     == [mode |-> "", source |-> "", value |-> "", matched |-> FALSE]
NoSession == [exp |-> NoTime, plan |-> NoPlan]    \* key absent from the active map

SessionTypes == { "xfrm_apply_intent", "xfrm_apply_observed", "session_activated",
                  "session_expired", "xfrm_delete_intent", "xfrm_delete_observed" }

AllowedTypes == SessionTypes \cup { "pep_start", "capacity_requested", "capacity_accepted" }

-----------------------------------------------------------------------------
(* Observer evidence: verifyObservedEvent.  An observation is a record     *)
(* [mode, source, value, matched] of the event's metadata, value being the *)
(* entry named by the outcome ("applied" or "deleted").                    *)

ProfileSatisfied(o) ==
    IF RequiredObserver = "dry-run"
    THEN o.mode # "apply" /\ o.value = "assumed"
    ELSE /\ o.mode = "apply" /\ o.value = "true"
         /\ \/ RequiredObserver = "posthoc" /\ o.source \in {"posthoc", "posthoc+ebpf"}
            \/ RequiredObserver = "hybrid"  /\ o.source = "posthoc+ebpf" /\ o.matched
            \/ RequiredObserver = "ebpf"    /\ o.source = "ebpf" /\ o.matched

verifyObservedEvent(e, plan) ==
    /\ e.plan # NoPlan /\ e.plan = plan
    /\ ProfileSatisfied(e.obs)

-----------------------------------------------------------------------------
(* One event of the policy loop.  s = [active, stage]: the tracked sessions *)
(* and, per key, the lifecycle stage reached in this submission with the    *)
(* plan it was entered with.                                                *)

contains(scope, svc) == svc \in scope \/ "*" \in scope

InScope(e, scope) == e.service = NoService \/ contains(scope, e.service)

validateSessionLifetime(e, maxLife) ==
    /\ e.exp # NoTime
    /\ maxLife > 0 => e.exp - e.ts <= maxLife + 1

(* Mutant: the time stamp of session_expired is not checked. *)
BugExpirationUnchecked(e, tracked) == e.exp = tracked.exp

validateExpirationEvent(e, tracked) == e.exp = tracked.exp /\ e.ts >= tracked.exp

AdmitsSessionEvent(s, e, maxLife) ==
    LET tracked == s.active[e.key]
        stage   == s.stage[e.key]
    IN  \/ /\ e.type = "xfrm_apply_intent"
           /\ tracked = NoSession /\ stage.phase = "none"
           /\ e.plan # NoPlan /\ validateSessionLifetime(e, maxLife)
        \/ /\ e.type = "xfrm_apply_observed"
           /\ stage.phase = "apply_intent" /\ verifyObservedEvent(e, stage.plan)
        \/ /\ e.type = "session_activated"
           /\ stage.phase = "apply_observed" /\ e.exp # NoTime
        \/ /\ e.type = "session_expired"
           /\ tracked # NoSession /\ validateExpirationEvent(e, tracked)
        \/ /\ e.type = "xfrm_delete_intent"
           /\ tracked # NoSession /\ stage.phase = "expired"
           /\ e.plan # NoPlan /\ e.plan = tracked.plan
        \/ /\ e.type = "xfrm_delete_observed"
           /\ stage.phase = "delete_intent" /\ verifyObservedEvent(e, stage.plan)

Admits(s, e, maxLife, scope) ==
    /\ e.type \in AllowedTypes
    /\ InScope(e, scope)
    /\ e.type \in SessionTypes => e.whole /\ AdmitsSessionEvent(s, e, maxLife)

Stage(phase, plan) == [phase |-> phase, plan |-> plan]

AfterEvent(s, e) ==
    LET at(phase, plan) == [s EXCEPT !.stage[e.key] = Stage(phase, plan)]
        plan            == s.stage[e.key].plan
    IN  CASE e.type = "xfrm_apply_intent"    -> at("apply_intent", e.plan)
          [] e.type = "xfrm_apply_observed"  -> at("apply_observed", plan)
          [] e.type = "session_activated"    ->
               [at("active", plan) EXCEPT !.active[e.key] = [exp |-> e.exp, plan |-> plan]]
          [] e.type = "session_expired"      -> at("expired", s.active[e.key].plan)
          [] e.type = "xfrm_delete_intent"   -> at("delete_intent", e.plan)
          [] e.type = "xfrm_delete_observed" ->
               [at("deleted", plan) EXCEPT !.active[e.key] = NoSession]
          [] OTHER -> s

(* One iteration; t is s, bound so that TLC evaluates it once. *)
PolicyStep(s, e, maxLife, scope) ==
    CHOOSE r \in {IF t.ok /\ Admits(t, e, maxLife, scope)
                  THEN AfterEvent(t, e)
                  ELSE [t EXCEPT !.ok = FALSE] : t \in {s}} : TRUE   \* returns at the first error

PolicyLoop(events, active, maxLife, scope) ==
    FoldLeft(LAMBDA s, e : PolicyStep(s, e, maxLife, scope),
             [ok |-> TRUE, active |-> active,
              stage |-> [k \in Keys |-> Stage("none", NoPlan)]],
             events)

(* Mutant: a session left between session_expired and its deletion. *)
BugIncomplete == {"apply_intent", "apply_observed", "delete_intent"}

Incomplete == {"apply_intent", "apply_observed", "expired", "delete_intent"}

(* Mutant: the caller's map is not the one the loop updates. *)
BugActiveNotUpdated(events, created, active, maxLife, scope) ==
    LET s == PolicyLoop(events, active, maxLife, scope)
    IN  [ok |-> s.ok /\ \A k \in Keys : s.stage[k].phase \notin Incomplete, active |-> active]

(* verifyEnforcementPolicy: the loop, then the two scans at the checkpoint. *)
(* ok is "err == nil"; active is the map the loop has updated in place.     *)
verifyEnforcementPolicy(events, created, active, maxLife, scope) ==
    LET s == PolicyLoop(events, active, maxLife, scope)
    IN  [ ok     |-> /\ s.ok
                     /\ \A k \in Keys : s.stage[k].phase \notin Incomplete
                     /\ \A k \in Keys : s.active[k] # NoSession => created < s.active[k].exp,
          active |-> s.active ]

-----------------------------------------------------------------------------
(* The chain: VerifyHistoryEvidence.  An evidence is [prev, base, events,  *)
(* cp]: the claimed previous checkpoint hash, the log the first event's    *)
(* PrevHash commits to, the events, and the signed checkpoint.             *)

LogOf(previous)   == IF previous = NoCp THEN <<>> ELSE previous.log
EpochOf(previous) == IF previous = NoCp THEN 0 ELSE previous.epoch

VerifyHistoryEvidence(ev, pep, key, previous) ==
    /\ ev.cp.pep = pep
    /\ ev.prev = ev.cp.prev /\ ev.prev = previous
    /\ ev.events # <<>> => ev.base = LogOf(previous)
    /\ ev.cp.log = LogOf(previous) \o ev.events
    /\ ev.cp.count = Len(ev.events)
    /\ ev.cp.epoch = EpochOf(previous) + 1
    /\ ev.cp.signer = key
=============================================================================
